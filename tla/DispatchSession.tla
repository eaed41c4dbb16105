-------------------------- MODULE DispatchSession --------------------------
(***************************************************************************)
(* One session of the DispatchService: the requests that reach it          *)
(* (create, continue by queue or by interrupt, cancel, delete) and the     *)
(* asyncio launch tasks they start, which plan, run a CLI agent, review    *)
(* its reply and ask for more.                                             *)
(*                                                                         *)
(* The service runs on one event loop, so a handler is atomic from one     *)
(* suspension point to the next.  An action below is such a stretch: every *)
(* store write the handler makes up to its next await is part of it.       *)
(* Sessions share no state of the service, so one session is enough.       *)
(*                                                                         *)
(* Launches are created by requests and never reused: the set Launches     *)
(* bounds the number of requests of a behaviour.                           *)
(***************************************************************************)
EXTENDS Naturals, FiniteSets

CONSTANTS
  Launches,      \* identities of the launch tasks (one Task row each)
  NoTail,        \* `_session_queue_tails` has no entry for the session
  MaxRuns,       \* PMAgent.max_runs: agent runs before the PM must accept
  NAgents,       \* number of enabled agents a fatal exit can fall back on
  PromptUnwind,  \* TRUE: no request arrives while a cancelled task unwinds
  Crashes        \* TRUE: the process may die and come back

ASSUME LaunchesAssumption == NoTail \notin Launches
ASSUME BoundsAssumption   == MaxRuns \in Nat \ {0} /\ NAgents \in Nat \ {0}
ASSUME ModeAssumption     == PromptUnwind \in BOOLEAN /\ Crashes \in BOOLEAN

VARIABLES
  status,     \* Session.status ("none": not created, "deleted": removed)
  lease,      \* the session's worktree lease
  row,        \* Task.status of each launch's row
  kind,       \* "pm": plan/review loop, "direct": one explicit agent
  pc,         \* where each launch task is suspended
  waitFor,    \* tasks a queued launch gathers ...
  onTail,     \* ... or the launch whose tail future it gathers
  tail,       \* `_session_queue_tails`: the launch owning the newest tail
  tailOpen,   \* launches whose tail future is not done
  stopCount,  \* `_stop_after_reply_counts`
  cli,        \* launches with a live agent process (an unfinished pump)
  runs,       \* run_count of each PM loop
  failed,     \* size of each PM loop's failed_agents
  ahead       \* history: PM launches that were live when this one queued

sessionVars == <<status, lease>>
queueVars   == <<waitFor, onTail, tail, tailOpen>>
turnVars    == <<runs, failed>>
vars == <<sessionVars, row, kind, pc, queueVars, stopCount, cli, turnVars,
          ahead>>

Terminal == {"failed", "cancelled", "stalled"}
Working  == {"plan", "spawn", "cli", "review", "recover", "send"}
Pcs      == {"new", "queued", "wait", "abort", "over"} \cup Working

Exists    == status \notin {"none", "deleted"}
Live      == {t \in Launches : pc[t] \notin {"new", "over"}}
Aborting  == {t \in Launches : pc[t] = "abort"}

(* A PM loop between its first plan call and its last review. *)
InTurn(t) == kind[t] = "pm" /\ pc[t] \in Working

Init ==
  /\ status = "none" /\ lease = "none"
  /\ row  = [t \in Launches |-> "none"]
  /\ kind = [t \in Launches |-> "pm"]
  /\ pc   = [t \in Launches |-> "new"]
  /\ waitFor = [t \in Launches |-> {}]
  /\ onTail  = [t \in Launches |-> NoTail]
  /\ tail = NoTail /\ tailOpen = {} /\ stopCount = 0 /\ cli = {}
  /\ runs   = [t \in Launches |-> 0]
  /\ failed = [t \in Launches |-> 0]
  /\ ahead  = [t \in Launches |-> {}]

-----------------------------------------------------------------------------
(* Session and task rows.                                                  *)

Released == IF lease = "active" THEN "released" ELSE lease

(* `_mark_session`: a finished or terminal session gives its leases back. *)
MarkSession(s) ==
  /\ status' = s
  /\ lease'  = IF s \in {"done"} \cup Terminal THEN Released ELSE lease

(* Mutant: the terminal check is lost. *)
MarkUnlessTerminal_Unchecked(s) == MarkSession(s)

(* `_mark_session_unless_terminal` *)
MarkUnlessTerminal(s) ==
  IF status \in Terminal THEN UNCHANGED sessionVars ELSE MarkSession(s)

MarkTask(t, s) == row' = [row EXCEPT ![t] = s]

-----------------------------------------------------------------------------
(* How a launch task ends.                                                 *)

(* Mutant: the done callback that releases the tail is not attached. *)
EndTask_KeepsTail(t) ==
  /\ pc' = [pc EXCEPT ![t] = "over"]
  /\ waitFor' = [waitFor EXCEPT ![t] = {}]
  /\ onTail'  = [onTail EXCEPT ![t] = NoTail]
  /\ runs'    = [runs EXCEPT ![t] = 0]
  /\ failed'  = [failed EXCEPT ![t] = 0]
  /\ UNCHANGED <<kind, tail, tailOpen, cli, ahead>>

(* The task is done: its callbacks resolve and drop the tail it owns, and  *)
(* its local run_count and failed_agents are gone.                         *)
EndTask(t) ==
  /\ pc' = [pc EXCEPT ![t] = "over"]
  /\ waitFor'  = [waitFor EXCEPT ![t] = {}]
  /\ onTail'   = [onTail EXCEPT ![t] = NoTail]
  /\ tailOpen' = tailOpen \ {t}
  /\ tail'     = IF tail = t THEN NoTail ELSE tail
  /\ runs'     = [runs EXCEPT ![t] = 0]
  /\ failed'   = [failed EXCEPT ![t] = 0]
  /\ UNCHANGED <<kind, cli, ahead>>

(* `_emit_pm_error`, and the except clause of the `_safe_*` wrappers *)
Fail(t, s) ==
  MarkUnlessTerminal(s) /\ MarkTask(t, "failed") /\ EndTask(t)

Finish(t) ==
  MarkUnlessTerminal("done") /\ MarkTask(t, "done") /\ EndTask(t)

(* A stop-after-reply request ends the loop and leaves the row alone. *)
StopAfterReply(t) ==
  /\ stopCount > 0
  /\ stopCount' = stopCount - 1
  /\ MarkUnlessTerminal("running")
  /\ EndTask(t)
  /\ UNCHANGED row

-----------------------------------------------------------------------------
(* Requests.                                                               *)

MayRequest == PromptUnwind => Aborting = {}

(* A fresh launch task for a new Task row; it has not run yet. *)
Fresh(t) == pc[t] = "new"

AddTask(t, k) ==
  /\ MarkTask(t, "running")
  /\ kind' = [kind EXCEPT ![t] = k]

(* create() without a session_id *)
Create(t, k) ==
  /\ MayRequest /\ Fresh(t) /\ status = "none"
  /\ status' = "running"
  /\ AddTask(t, k)
  /\ pc' = [pc EXCEPT ![t] = "queued"]
  /\ UNCHANGED <<lease, queueVars, stopCount, cli, turnVars, ahead>>

(* Mutant: a new tail is installed only when no other is open. *)
ReserveQueueWait_OneTail(t) ==
  IF Live = {}
  THEN /\ tail' = NoTail
       /\ UNCHANGED <<waitFor, onTail, tailOpen, stopCount, ahead>>
  ELSE /\ stopCount' = stopCount + 1
       /\ IF tail # NoTail /\ tail \in tailOpen
          THEN /\ onTail' = [onTail EXCEPT ![t] = tail]
               /\ UNCHANGED <<waitFor, tail, tailOpen>>
          ELSE /\ waitFor' = [waitFor EXCEPT ![t] = Live]
               /\ tail' = t
               /\ tailOpen' = tailOpen \cup {t}
               /\ UNCHANGED onTail
       /\ ahead' = [ahead EXCEPT ![t] = {u \in Live : kind[u] = "pm"}]

(* Mutant: the launch task exists before the reservation, among the live. *)
ReserveQueueWait_WaitsForItself(t) ==
  IF Live = {}
  THEN /\ tail' = NoTail
       /\ UNCHANGED <<waitFor, onTail, tailOpen, stopCount, ahead>>
  ELSE /\ stopCount' = stopCount + 1
       /\ waitFor' = [waitFor EXCEPT ![t] = Live \cup {t}]
       /\ tail' = t
       /\ tailOpen' = tailOpen \cup {t}
       /\ ahead' = [ahead EXCEPT ![t] = {u \in Live : kind[u] = "pm"}]
       /\ UNCHANGED onTail

(* `_reserve_queue_wait`: with live tasks, ask the running loop to stop    *)
(* after its reply and chain behind the newest open tail, else behind      *)
(* every live task.                                                        *)
ReserveQueueWait(t) ==
  IF Live = {}
  THEN /\ tail' = NoTail
       /\ UNCHANGED <<waitFor, onTail, tailOpen, stopCount, ahead>>
  ELSE /\ stopCount' = stopCount + 1
       /\ IF tail # NoTail /\ tail \in tailOpen
          THEN onTail' = [onTail EXCEPT ![t] = tail] /\ UNCHANGED waitFor
          ELSE waitFor' = [waitFor EXCEPT ![t] = Live] /\ UNCHANGED onTail
       /\ tail' = t
       /\ tailOpen' = tailOpen \cup {t}
       /\ ahead' = [ahead EXCEPT ![t] = {u \in Live : kind[u] = "pm"}]

(* create() on an existing session, mode "queue", handled by the PM *)
Queue(t) ==
  /\ MayRequest /\ Fresh(t) /\ Exists
  /\ status' = "running"
  /\ AddTask(t, "pm")
  /\ ReserveQueueWait(t)
  /\ pc' = [pc EXCEPT ![t] = "queued"]
  /\ UNCHANGED <<lease, cli, turnVars>>

(* create() on an existing session naming an agent: launched at once, next *)
(* to whatever runs.                                                       *)
Direct(t) ==
  /\ MayRequest /\ Fresh(t) /\ Exists
  /\ status' = "running"
  /\ AddTask(t, "direct")
  /\ pc' = [pc EXCEPT ![t] = "queued"]
  /\ UNCHANGED <<lease, queueVars, stopCount, cli, turnVars, ahead>>

(* `_cancel_session_tasks` and `_interrupt_runner_handle`: every live task *)
(* gets a CancelledError, every live process is interrupted.  Cancelling a *)
(* gather cancels what it waits for, so an awaited tail is done at once; a *)
(* task that has not run yet never reaches its gather.                     *)
(* Mutant: launches that still wait their turn are not cancelled. *)
AbortedPc_StartedOnly ==
  [t \in Launches |-> IF pc[t] \in Working THEN "abort" ELSE pc[t]]

AbortedPc == [t \in Launches |-> IF t \in Live THEN "abort" ELSE pc[t]]

(* Mutant: only one handle of the session is interrupted. *)
AbortAll_OneHandle ==
  /\ waitFor' = [t \in Launches |->
                   IF pc[t] = "queued" THEN {} ELSE waitFor[t]]
  /\ onTail'   = [t \in Launches |-> NoTail]
  /\ tailOpen' = tailOpen \ {onTail[t] : t \in {u \in Live : pc[u] = "wait"}}
  /\ IF cli = {} THEN UNCHANGED cli ELSE \E h \in cli : cli' = cli \ {h}
  /\ runs'   = [t \in Launches |-> 0]
  /\ failed' = [t \in Launches |-> 0]
  /\ UNCHANGED <<tail, ahead>>

AbortAll ==
  /\ waitFor' = [t \in Launches |->
                   IF pc[t] = "queued" THEN {} ELSE waitFor[t]]
  /\ onTail'   = [t \in Launches |-> NoTail]
  /\ tailOpen' = tailOpen \ {onTail[t] : t \in {u \in Live : pc[u] = "wait"}}
  /\ cli' = {}
  /\ runs'   = [t \in Launches |-> 0]
  /\ failed' = [t \in Launches |-> 0]
  /\ UNCHANGED <<tail, ahead>>

(* create() on an existing session, mode "interrupt", with live work *)
Interrupt(t, k) ==
  /\ MayRequest /\ Fresh(t) /\ Exists /\ Live # {}
  /\ stopCount' = 0
  /\ AbortAll
  /\ status' = "running"
  /\ AddTask(t, k)
  /\ pc' = [AbortedPc EXCEPT ![t] = "queued"]
  /\ UNCHANGED lease

(* The same request with an unknown agent or a workspace that does not     *)
(* resolve: it is refused, after the live work was aborted.                *)
InterruptRefused ==
  /\ MayRequest /\ Exists /\ Live # {}
  /\ stopCount' = 0
  /\ AbortAll
  /\ pc' = AbortedPc
  /\ UNCHANGED <<sessionVars, row, kind>>

(* Mutant: every task row is marked, not only the running ones. *)
Cancel_AllRows ==
  /\ MayRequest /\ Exists
  /\ MarkSession("cancelled")
  /\ row' = [t \in Launches |->
               IF row[t] = "none" THEN "none" ELSE "cancelled"]
  /\ AbortAll
  /\ pc' = AbortedPc
  /\ UNCHANGED <<kind, stopCount>>

Cancel ==
  /\ MayRequest /\ Exists
  /\ MarkSession("cancelled")
  /\ row' = [t \in Launches |->
               IF row[t] = "running" THEN "cancelled" ELSE row[t]]
  /\ AbortAll
  /\ pc' = AbortedPc
  /\ UNCHANGED <<kind, stopCount>>

(* Mutant: only the status is checked, not the live tasks. *)
Delete_StatusOnly ==
  /\ Exists /\ status # "running"
  /\ status' = "deleted"
  /\ lease' = Released
  /\ row' = [t \in Launches |-> "none"]
  /\ UNCHANGED <<kind, pc, queueVars, stopCount, cli, turnVars, ahead>>

(* delete(): refused while the session or one of its tasks is live *)
Delete ==
  /\ Exists /\ status # "running" /\ Live = {}
  /\ status' = "deleted"
  /\ lease' = Released
  /\ row' = [t \in Launches |-> "none"]
  /\ UNCHANGED <<kind, pc, queueVars, stopCount, cli, turnVars, ahead>>

-----------------------------------------------------------------------------
(* The launch tasks.                                                       *)

GatherDone(t) ==
  /\ waitFor[t] \cap Live = {}
  /\ onTail[t] \notin tailOpen

(* First step of the task: a direct launch spawns its agent, a queued PM   *)
(* launch starts to gather, any other PM launch plans.                     *)
Start(t) ==
  /\ pc[t] = "queued"
  /\ pc' = [pc EXCEPT ![t] =
              IF kind[t] = "direct" THEN "spawn"
              ELSE IF waitFor[t] = {} /\ onTail[t] = NoTail THEN "plan"
              ELSE "wait"]
  /\ UNCHANGED <<sessionVars, row, kind, queueVars, stopCount, cli, turnVars,
                 ahead>>

(* `_safe_pm_launch` after its gather *)
WakeQueued(t) ==
  /\ pc[t] = "wait" /\ GatherDone(t)
  /\ MarkUnlessTerminal("running")
  /\ pc' = [pc EXCEPT ![t] = "plan"]
  /\ waitFor' = [waitFor EXCEPT ![t] = {}]
  /\ onTail'  = [onTail EXCEPT ![t] = NoTail]
  /\ UNCHANGED <<row, kind, tail, tailOpen, stopCount, cli, turnVars, ahead>>

(* A PM tool call creates (or re-creates) a worktree and binds it. *)
BindWorktree(t) ==
  /\ InTurn(t) /\ pc[t] \in {"plan", "review", "recover"}
  /\ lease # "active"
  /\ lease' = "active"
  /\ UNCHANGED <<status, row, kind, pc, queueVars, stopCount, cli, turnVars,
                 ahead>>

Goto(t, label) ==
  /\ pc' = [pc EXCEPT ![t] = label]
  /\ UNCHANGED <<sessionVars, row, kind, queueVars, stopCount, ahead>>

(* The plan call returns: a plan to launch, a direct reply, or a blocked   *)
(* plan, a failed compaction, an unusable workspace or an exception.       *)
Plan(t) ==
  /\ pc[t] = "plan"
  /\ \/ Goto(t, "spawn") /\ UNCHANGED <<cli, turnVars>>
     \/ Finish(t) /\ UNCHANGED stopCount
     \/ \E s \in {"failed", "stalled"} : Fail(t, s) /\ UNCHANGED stopCount

(* Runner.launch returns or raises; a recovery puts the session back to    *)
(* "running" once its agent is up.                                         *)
Spawn(t) ==
  /\ pc[t] = "spawn"
  /\ \/ /\ pc' = [pc EXCEPT ![t] = "cli"]
        /\ cli' = cli \cup {t}
        /\ runs' = [runs EXCEPT ![t] = IF @ = 0 THEN 1 ELSE @]
        /\ IF failed[t] > 0 THEN MarkUnlessTerminal("running")
                             ELSE UNCHANGED sessionVars
        /\ UNCHANGED <<row, kind, queueVars, stopCount, failed, ahead>>
     \/ Fail(t, "failed") /\ UNCHANGED stopCount

(* The agent process ends and its pump finishes. *)
AgentExits(t) ==
  /\ t \in cli
  /\ cli' = cli \ {t}
  /\ UNCHANGED <<sessionVars, row, kind, pc, queueVars, stopCount, turnVars,
                 ahead>>

(* The PM loop wakes from Runner.wait.  The pump may have raised; a stop   *)
(* request is consumed first; then a fatal exit is handed to another agent *)
(* while one is left; else the reply is reviewed.                          *)
Recoverable(t) ==
  IF failed[t] + 1 >= NAgents
  THEN Fail(t, "failed") /\ UNCHANGED stopCount
  ELSE /\ Goto(t, "recover")
       /\ failed' = [failed EXCEPT ![t] = @ + 1]
       /\ UNCHANGED <<cli, runs>>

AfterReply(t) ==
  /\ pc[t] = "cli" /\ t \notin cli /\ kind[t] = "pm"
  /\ \/ Fail(t, "failed") /\ UNCHANGED stopCount
     \/ StopAfterReply(t)
     \/ /\ stopCount = 0
        /\ \/ Recoverable(t)
           \/ Goto(t, "review") /\ UNCHANGED <<cli, turnVars>>

(* `_recover_from_fatal_agent_exit` after the recover call *)
Recover(t) ==
  /\ pc[t] = "recover"
  /\ \/ Goto(t, "spawn") /\ UNCHANGED <<cli, turnVars>>
     \/ \E s \in {"failed", "stalled"} : Fail(t, s) /\ UNCHANGED stopCount

(* Mutant: run_count > max_runs instead of >=. *)
(* The review returns: stop request, accepted, out of runs or without a    *)
(* follow-up, or a follow-up to send.                                      *)
Review(t) ==
  /\ pc[t] = "review"
  /\ \/ \E s \in {"failed", "stalled"} : Fail(t, s) /\ UNCHANGED stopCount
     \/ StopAfterReply(t)
     \/ /\ stopCount = 0
        /\ \/ Finish(t) /\ UNCHANGED stopCount
           \/ /\ runs[t] < MaxRuns
              /\ Goto(t, "send") /\ UNCHANGED <<cli, turnVars>>

(* Runner.send returns or raises. *)
SendFollowUp(t) ==
  /\ pc[t] = "send"
  /\ \/ /\ MarkUnlessTerminal("running")
        /\ pc' = [pc EXCEPT ![t] = "cli"]
        /\ cli' = cli \cup {t}
        /\ runs' = [runs EXCEPT ![t] = @ + 1]
        /\ UNCHANGED <<row, kind, queueVars, stopCount, failed, ahead>>
     \/ Fail(t, "failed") /\ UNCHANGED stopCount

(* `_direct_launch` wakes from Runner.wait. *)
DirectReply(t) ==
  /\ pc[t] = "cli" /\ t \notin cli /\ kind[t] = "direct"
  /\ Finish(t) \/ Fail(t, "failed")
  /\ UNCHANGED stopCount

(* A cancelled task: CancelledError passes the wrappers' except Exception, *)
(* so nothing is written; a cancelled gather first waits for its children. *)
Unwind(t) ==
  /\ pc[t] = "abort" /\ waitFor[t] \cap Live = {}
  /\ EndTask(t)
  /\ UNCHANGED <<sessionVars, row, stopCount>>

(* The process dies: tasks, tails and stop requests were only in memory.   *)
Restart ==
  /\ Crashes /\ (Live # {} \/ stopCount > 0)
  /\ pc' = [t \in Launches |-> IF t \in Live THEN "over" ELSE pc[t]]
  /\ waitFor' = [t \in Launches |-> {}]
  /\ onTail'  = [t \in Launches |-> NoTail]
  /\ tail' = NoTail /\ tailOpen' = {} /\ stopCount' = 0 /\ cli' = {}
  /\ runs'   = [t \in Launches |-> 0]
  /\ failed' = [t \in Launches |-> 0]
  /\ UNCHANGED <<sessionVars, row, kind, ahead>>

-----------------------------------------------------------------------------
Request ==
  \/ \E t \in Launches, k \in {"pm", "direct"} : Create(t, k) \/ Interrupt(t, k)
  \/ \E t \in Launches : Queue(t) \/ Direct(t)
  \/ InterruptRefused \/ Cancel \/ Delete

LaunchStep(t) ==
  \/ Start(t) \/ WakeQueued(t) \/ Plan(t) \/ Spawn(t) \/ AfterReply(t)
  \/ Recover(t) \/ Review(t) \/ SendFollowUp(t) \/ DirectReply(t) \/ Unwind(t)

Next ==
  \/ Request
  \/ \E t \in Launches : LaunchStep(t) \/ AgentExits(t) \/ BindWorktree(t)
  \/ Restart

Spec == Init /\ [][Next]_vars

(* The event loop runs what is ready, and every PM call and every spawn    *)
(* returns or raises (the LLM client times a silent stream out).           *)
Scheduled == \A t \in Launches : WF_vars(LaunchStep(t))

(* Nothing in the service bounds an agent process: that each one exits is  *)
(* an assumption about the environment, kept apart.                        *)
AgentsExit == \A t \in Launches : WF_vars(AgentExits(t))

ScheduledSpec == Spec /\ Scheduled
FairSpec      == Spec /\ Scheduled /\ AgentsExit

-----------------------------------------------------------------------------
(* Properties that hold.                                                   *)

TypeOK ==
  /\ status \in {"none", "running", "done", "deleted"} \cup Terminal
  /\ lease \in {"none", "active", "released"}
  /\ row \in [Launches -> {"none", "running", "done", "failed", "cancelled"}]
  /\ kind \in [Launches -> {"pm", "direct"}]
  /\ pc \in [Launches -> Pcs]
  /\ waitFor \in [Launches -> SUBSET Launches]
  /\ onTail \in [Launches -> Launches \cup {NoTail}]
  /\ tail \in Launches \cup {NoTail}
  /\ tailOpen \subseteq Launches /\ cli \subseteq Launches
  /\ stopCount \in Nat
  /\ runs \in [Launches -> 0..MaxRuns]
  /\ failed \in [Launches -> 0..NAgents]
  /\ ahead \in [Launches -> SUBSET Launches]

(* Stop really stops: in a cancelled session every launch still there is   *)
(* unwinding and no agent process is left, until a new request arrives.    *)
CancelledIsQuiet ==
  status = "cancelled" => Live = Aborting /\ cli = {}

(* No agent process runs that no launch task waits for, so that whatever   *)
(* aborts a launch also reaches its process.                               *)
NoOrphanAgent == \A t \in cli : pc[t] = "cli"

(* Deleting a session leaves no task behind that could write to it, and no *)
(* worktree lease in its name.                                             *)
DeletedIsGone == status = "deleted" => Live = {} /\ lease # "active"

(* While a launch may still write its row, the row says "running": no row  *)
(* is closed by one party and then written by another.                     *)
OpenRowWhileWorking ==
  \A t \in Live \ Aborting : row[t] = "running"

(* The step is a request that starts a launch. *)
Requested == \E t \in Launches : Fresh(t) /\ pc'[t] # "new"

(* A failed, stalled or cancelled session comes back to life by a new      *)
(* request only, never by a launch that finishes later.                    *)
TerminalSticks ==
  [][~Requested /\ status \in Terminal =>
       status' \in Terminal \cup {"deleted"}]_vars

(* A closed task row is never rewritten; it disappears with its session.   *)
ClosedRowsStay ==
  [][\A t \in Launches :
       row[t] \in {"done", "failed", "cancelled"} /\ status' # "deleted" =>
         row'[t] = row[t]]_vars

(* A queued follow-up begins its turn only after every PM launch that was  *)
(* ahead of it in the session is over.                                     *)
QueuedWaitsItsTurn ==
  \A t \in Launches : InTurn(t) => \A u \in ahead[t] : pc[u] = "over"

(* Two PM loops of one session never plan, run or review at the same time. *)
OneTurnAtATime ==
  \A t, u \in Launches : InTurn(t) /\ InTurn(u) => t = u

(* Every aborted launch gets out of its gather and ends, however the       *)
(* aborted launches wait for one another.                                  *)
AbortedUnwinds == \A t \in Launches : pc[t] = "abort" ~> pc[t] = "over"

(* A queued follow-up is never stuck behind its predecessors.              *)
QueuedStarts == \A t \in Launches : pc[t] = "wait" ~> pc[t] # "wait"

-----------------------------------------------------------------------------
(* Properties the repository states and the code does not keep.            *)

(* A PM loop is stopped after its reply for the sake of a follow-up that   *)
(* waits: "queued follow-up should stop the old PM loop after reply"       *)
(* (tests/test_dispatch_service.py).                                       *)
StopServesAFollowUp ==
  [][\A t \in Launches : InTurn(t) /\ StopAfterReply(t) =>
       \E u \in Live : pc[u] \in {"queued", "wait"}]_vars

(* "PM root tasks now reach done, failed, or cancelled with their          *)
(* sessions" (docs/VERSION_HISTORY.md, v1.5.6): when the session is        *)
(* finished, so is every row no launch will write any more.                *)
TasksFinishWithSession ==
  status \in {"done"} \cup Terminal =>
    \A t \in Launches : row[t] = "running" => t \in Live

(* A finished session holds no worktree lease: `_mark_session` releases it *)
(* "if status in {done, *TERMINAL}", and test_session_done_and_delete_     *)
(* release_active_worktree_lock expects it.                                *)
FinishedHoldsNoLease ==
  status \in {"done"} \cup Terminal /\ Live = {} => lease # "active"

=============================================================================
