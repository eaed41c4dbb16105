# Agent Foreman: models, checks and proofs

TLA+ models of `src/foreman`, the TLC instances that check them, and TLAPS
proofs of what the checks suggest. Line numbers refer to `src/src/foreman`.
`PROJECT.json` lists the components, the runs, the definition-to-source map,
the hazards each property is aimed at, and the theorems.

    tlc -config DispatchSession_safety.cfg MCDispatchSession.tla     (also _turns, _progress)
    tlc -config RelayLink_commands.cfg MCRelayLink.tla               (also _presence)
    tlc -config DecisionCards_cards.cfg MCDecisionCards.tla
    tlc -config MCWorktrees_worktrees.cfg MCWorktrees.tla
    tlc -config MCPmCall_pm_call.cfg MCPmCall.tla
    tlc -config MCUpkeep_upkeep.cfg MCUpkeep.tla
    tlapm DispatchSession_proofs.tla
    tlapm RelayLink_proofs.tla
    tlapm DecisionCards_proofs.tla
    tlapm Worktrees_proofs.tla              (also PmCall_, Context_, Upkeep_, Agents_proofs)

## 1. The system

A *client* (a PC agent process) drives CLI coding agents on behalf of a user; a
*server* relays the user's phone to it. Everything in a process runs on one
asyncio event loop; the concurrency is between tasks of that loop (a handler is
atomic between two awaits), between the processes, and with the CLI agents.

| component | state | operations | hard behaviour | what makes it correct |
|---|---|---|---|---|
| Dispatch service (`client/core/dispatch_service.py`) | sessions and task rows (store); live launch tasks, queue tails, stop requests (memory) | create, queue, interrupt, direct launch, cancel, delete; plan, run, recover, review, follow up | requests at any await of a launch; gather cycles; cancelled tasks that unwind later; restart | Stop stops; one PM loop at a time; rows close once; terminal states stick; queued work starts |
| Runner and CLI adapters (`client/agents`) | handles, pumps, processes | launch, send, wait, interrupt, stop | send re-pumps a handle another task waits for; pump failure | one pump per handle; no orphan process; every event is stored before it is published |
| Relay link (`server/relay.py`, `client/relay.py`, `client/core/cloud.py`) | connections, sequence numbers, pending acknowledgements, offline queue, subscriptions; on the client the last sequence number and the acknowledgement cache | route with ack, accept, flush, ack, timeout; client connect, receive, run, reply | dropped links, restarts of either side, late acks, reconnect with queued commands | a command is answered, runs at most once, is never called a replay wrongly; "online" means a live connection; a client streams only to a subscriber |
| Decision loop, cards, gate, checkpoints | approvals, decision cards, git checkpoints | propose, audit, grade, ask, tap, execute, undo | taps race timeouts and cancels; one step of checkpoint/execute fails | an approval is used once; nothing irreversible runs unasked; a checkpoint precedes its action; undo order |
| Worktree manager (`client/core/worktree_manager.py`) | leases, git worktrees and branches | plan, create/reuse, bind, lock, release, clean up, compare, promote | git and the store disagree after a crash; two sessions claim a path; agents write while the risk of a merge is judged | one active lease per path, with its worktree; cleanup never loses uncommitted work; no clash is overlooked |
| Workspaces (spread over the dispatch service, the tools and the runner) | the directory of the session, of its turn, of its PM's tools, of its agents | begin a turn, bind, clean up, launch | each is a copy of its own that some calls change and others do not | nobody works where the session never had a right to |
| Injector, workflow engine | marked blocks, skill directories, exclude sections; runs, steps, gates | inject, clear; begin, submit, resume, review | tasks and runs share directories; calls come in any order | a task's files stay until it ends and then go; a gate is passed by its own tap |
| PM agent, tool loop and runtime (`client/core/pm_agent.py`, `client/tools`) | the transcript, the web taint, unverified leads, processes | plan, review, recover; call a tool, ask, run a command | web content and a command in one answer; Stop during a command | no command runs unasked after web content; a plan rests on evidence; a command dies with its call |
| LLM client (`shared/llm/client.py`) | a turn's frames, its watchdog, the response to continue | call, stream, continue, open again | stall versus progress; the early end of a turn with tools | every turn ends, whatever the provider sends |
| Context v2 (`client/core/context_v2.py`), packs (`context_compression.py`) | events, frames, the cursor, checkpoints; a pack and its omissions | materialise, compact, restore; evict | events and compactions while a summary is awaited; a list that grows as the pack shrinks | no frame falls between a checkpoint and a restore; what goes is told and matters least |
| Work modes (`work_mode_context.py`) | active definitions, cached vectors | rank, search, pull | definitions change while vectors are awaited | what fits best is kept, what the user picked stays |
| Definitions (`definition_service.py`) | versions, links, bundles | create, activate, delete, export, import | an import that stops half way | one live version of a name |
| Supervisor (`core/supervisor.py`) | the pool of agents, their states and failure counts | register, sweep, judge, plan a recovery | the pool changes during a sweep; the judge fails | a sweep leaves no agent out; the timeline tells each record's state |
| Gate, hooks, notices (`core/gate.py`, `monitor/hooks.py`, `server/push.py`) | approvals, the outgoing queue, the server's inbox | hold, push, decide, notify, acknowledge | a decision during the push; decisions from both sides | a call is decided once |
| Accounts (`server/auth_manager.py`) | accounts, invites, sessions, failures | create, invite, redeem, sign in, disable | expiry at use; a redeem cut between two commits; the lockout that lapses | an admin stays; guesses stay spaced |
| Updater (`client/update.py`) | the files of the program, worker, helper | download, cancel, swap, roll back, clear leftovers | death between two renames; a second launch | a whole program is always on the disk |
| Client stores (`client/store`, `shared/migrations.py`) | tables, columns, indexes, the ledger of versions | create, upgrade, open by another release | a crash inside an upgrade; two programs at once | a recorded version is there |
| Cloud manager (`client/core/cloud.py`) | saved relay and key, loop, task, dialling threads | save, connect, disconnect, dial | a stop while a thread starts | one dialer, with what is saved |
| Server app, push services, briefings, shell, crypto, stubs | | | | request parsing, formatting and user interface around the above |

The dispatch service calls the PM agent (which calls the LLM client through the
tool loop), launches agents through the runner, writes the client store and
publishes on the event bus; the cloud link forwards bus events to the relay and
the relay's commands to the dispatch service, the cards and the gate.

## 2. Modules

| module | what | checked in | proved in |
|---|---|---|---|
| `DispatchSession` | requests and launches of a session | `turns`, `safety`, `progress`, `overtaking` | `DispatchSession_proofs` |
| `RelayLink`, which implements `RemoteCommand` | commands from the phone and back | `relay_commands`, `relay_presence` | `RelayLink_proofs` |
| `DecisionCards`, whose workspace implements `Timeline` | cards, checkpoints, undos, questions | `cards` | `DecisionCards_proofs` |
| `WorktreeLeases`, `WorktreeReview`, `Workspaces`, `WorkflowRuns` over `InjectedFiles` | worktrees, what is told of them, who is where, files for agents | `worktrees` | `Worktrees_proofs` |
| `PmCall`, `LlmCall`, `ContextLedger`, `ContextPacks`, `WorkModes` | what a call of the PM is made of | `pm_call`, `forgotten` | `PmCall_proofs`, `Context_proofs` |
| `Accounts`, `Updater`, `Definitions`, `Approvals`, `AgentRunner`, `SchemaMigrations`, `Watchdog`, `CloudLink` | what runs beside the sessions' work | `upkeep`, `uncancelled` | `Upkeep_proofs`, `Agents_proofs`, `Context_proofs` (`Definitions`) |

`MCWorktrees`, `MCPmCall` and `MCUpkeep` instantiate several modules that share
no state at once: a behaviour picks one (`part`) and follows it, so each is
explored as if alone and a run answers for all. Where components do interact,
the module itself has both (`WorkflowRuns` next to the dispatched tasks,
`Approvals` from the hook to the phone, `Workspaces` over the row, the turn, the
tools and the agents). Fairness in `MCPmCall` is stated for the steps of its
`llm` part only.

Runs are few: one passing run per question, one violating run per disagreement
that a small instance shows best. The other disagreements between the code and
its documents that came up are in `PROJECT.json` under "findings", with the
property that states what the document says; most of those properties are in
the modules, next to the ones that hold.

In every passing run deadlock is not checked, because the system may really
stop: sessions end, bounds on requests are spent, and nobody has to act.

## 3. `DispatchSession`

One session of `DispatchService`. Sessions share no mutable state in the
service, so one is enough; several *launches* (one asyncio task and one Task
row each) live in it.

| state | code |
|---|---|
| `status`, `row` | `Session.status`, `Task.status` |
| `lease` | the session's worktree lease (`_release_session_worktree_leases`, tool `worktree_create`) |
| `pc`, `kind` | the await at which `_safe_pm_launch`/`_pm_launch` or `_direct_launch` is suspended |
| `waitFor`, `onTail` | what a queued launch gathers: the live tasks, or the newest tail |
| `tail`, `tailOpen` | `_session_queue_tails` and the futures not yet done |
| `stopCount` | `_stop_after_reply_counts` |
| `cli` | launches whose agent's pump is unfinished |
| `runs`, `failed` | `run_count`, `failed_agents` |
| `ahead` | history only: the PM launches live when this one queued |

Requests are `Create`, `Queue`, `Direct`, `Interrupt`, `InterruptRefused`,
`Cancel`, `Delete`; launch steps are `Start`, `WakeQueued`, `Plan`, `Spawn`,
`AfterReply`, `Recover`, `Review`, `SendFollowUp`, `DirectReply`, `Unwind`;
`AgentExits` and `BindWorktree` are the agent's and the tool's effects;
`Restart` kills the process. An action is what the code does between two
awaits: publishing on the bus and persisting an event never yield (unbounded
queues), an uncontended lock does not either, and `Runner.interrupt` has no
await that suspends, so `Cancel` and `Interrupt` are single steps. A cancelled
task goes to `abort` and ends in a later step, so requests can arrive in
between; a cancelled `gather` cancels its children and waits for them.

What the PM says is a nondeterministic outcome (launch, direct reply, blocked,
error, stall); prompts, events and wording are left out. A PM launch started by
an interrupt or a create plans at once; one started by a queue request first
gathers.

### Runs

| run | instance | shows |
|---|---|---|
| `turns` | 4 launches, 1 run, 1 agent, `PromptUnwind` | `OneTurnAtATime` |
| `safety` | 3 launches, 2 runs, 2 agents, crashes | `CancelledIsQuiet`, `NoOrphanAgent`, `TerminalSticks` |
| `progress` | 3 launches, crashes, fairness | `AbortedUnwinds`, `QueuedStarts` |
| `overtaking` | 4 launches, requests while launches unwind | violates `OneTurnAtATime` |

Bounds: `Launches` bounds the number of requests of a behaviour that start
work. Chains of tails need three launches (a runner and two that queue), the
overtaking four (runner, queued, interrupter, queued again), so four are
enough for every shape of chain the properties distinguish, and the proofs
remove the bound. Two runs and two agents reach both sides of the run limit and
of the fail-over. Deadlock is not checked: a session may be idle or deleted.
Launches are interchangeable, so the safety runs use symmetry.

`PromptUnwind` separates the two faces of the queue. When it is TRUE no request
arrives while an aborted launch has not ended, and the order holds; when FALSE
the code does not keep it (`overtaking`).

Fairness: `Scheduled` is weak fairness of every launch's own steps: the event
loop runs what is ready, and each PM call returns or raises because the LLM
client times silent streams out. `AgentsExit` is an assumption about the
environment: nothing in the service bounds a CLI agent. It is kept apart
and only the `progress` run uses it. No fairness is put on requests.

### What the violations say

* `overtaking`: queue B behind A, interrupt with C, queue D before B has
  unwound. D waits for B's tail only, and starts next to C.
* `StopServesAFollowUp`: queueing a follow-up asks the running loop to stop
  after its reply. If that loop ends by a direct reply, an error or a cancel,
  nobody consumes the request, and the follow-up consumes it after its own
  first reply: it stops unreviewed, for nobody.
* `TasksFinishWithSession`: a loop that stops after its reply, or is
  interrupted, leaves its Task row `running` after the session is done.
* `FinishedHoldsNoLease`: A fails while B is queued; B runs, binds a worktree
  and finishes, but a failed session is not marked again and the lease stays.

### Proofs (`DispatchSession_proofs`)

For any set of launches, any number of runs and agents, with requests and
crashes at any point: `TypeCorrect`, `CancelIsQuiet`, `AgentsAreAwaited`,
`DeleteIsFinal`, `RowsOpenAtWork`, `TerminalIsSticky`, `RowsCloseOnce`. With
`PromptUnwind`: `QueueKeepsOrder`, `TurnsAreExclusive`. The assumptions are the
three ASSUMEs of `DispatchSession`.

* `TypeInv` adds `RunLeft` to the type invariant: a loop that is sending a
  follow-up still has a run left, without which `runs <= MaxRuns` is not
  inductive.
* `SafetyInv` is the four state properties and `FreshHasNoRow` (an unused
  launch has no row and no process); they need one another: Stop is quiet
  because every process belongs to a launch, rows are open because Stop and
  Delete leave no launch at work.
* `TurnInv` carries the queue argument. Two contenders (launches that may plan
  now or later without waiting) are ordered by who waits for whom
  (`ContendersOrdered`); a launch that waits on a tail waits, through the chain,
  for all who were ahead when it queued (`WaitsForAllAhead`,
  `TailStandsForAhead`); an open tail belongs to a live launch
  (`TailsAreLive`). `TurnIsFree` is the case of a launch about to wake.

Each step of `Next` is handled once per invariant (`TypeNext`, `SafetyNext`,
`TurnNext`), with `TurnMove`, `TurnEnd`, `TurnAbort` and `TurnQueue` for the
four ways an action can touch the queue.

Only model-checked: `AbortedUnwinds`, `QueuedStarts` (liveness is out of the
prover's reach).

### Left out

The route with an injected launcher and no PM; the injector's cleanup (it
touches no state modelled here); `continue_mode` parsing and goal or workspace
validation other than as the refusal of an interrupt. A session's history
after `delete` is not followed, as its identifier is never used again.

## 4. `RelayLink` and `RemoteCommand`

One local process, the relay server and the phone. Server and client are event
loops of their own; an action is what one of them does between two awaits.

| state | code |
|---|---|
| `conns`, `online` | `Relay.conns` for the process, `ProcessRegistry.online` |
| `srv` | where `Relay.serve` is for each connection: hello, registered (`greet`), `flush`, reading (`up`), ended |
| `queue`, `rows`, `kept` | `_offline_queue`; the rows a flush has still to send and those it will put back |
| `seqNo`, `subs` | `_seq`, `_subscribers` |
| `outcome` | the request's future and what `route_with_ack` returned |
| `clink`, `dialled` | the connection `RelayConnector.run_once` reads; dials so far |
| `subscribed`, `lastSeq`, `cache` | `_subscribed`, `_last_seq`, `_ack_cache` |
| `running`, `effect` | the command `_on_frame` awaits, and whether it took effect in the app's loop |
| `down`, `up` | unread frames on the client's connection; unread acks on each |
| `watchers`, `visits`, `restarted`, `told`, `ran`, `forgot` | history for the properties |

The phone: `Route`, `RouteRaises`, `Timeout`. Browsers: `Subscribe`,
`SubscribeRaises`, `Unsubscribe`. The server: `Accept`, `Greet`, `FlushRow`,
`FlushDone`, `ReadAck`, `EndServe`, `ServerRestart`. The client: `Dial`,
`Drop`, `ReadPresence`, `RefuseReplay`, `RepeatAnswer`, `RefuseDisabled`,
`StartCommand`, `TakeEffect`, `Reply`, `ClientRestart`.

A connection keeps order until it drops. The client sees a drop first; the
server may go on using the dead connection, next to a new one, until `EndServe`:
a frame sent there is lost, or the send raises and fails its caller
(`RouteRaises`, `SubscribeRaises`, the second disjunct of `Unsubscribe`,
`EndServe` during a flush). Acks that were sent before the drop can still be
read. A drop cancels the read loop together with the command it waits for; the
app's coroutine may do one more step before it is cancelled, which is the order
`TakeEffect`, `Drop`. `forgot` collects the commands whose run or answer the
client lost that way or by a restart: for those the code promises nothing.

Abstractions: sequence numbers spent on dead connections are skipped, as only
their order matters; a broadcast to a dead and a live connection is one step
with both outcomes; queued rows are a set, as each is a different request;
`failed` stands for every error of a command.

`RemoteCommand` is what the phone may count on: one answer per request, one run
per command unless it is forgotten, `ok` means it ran, `disabled` that it did
not and will not, and a request that was given up (`machine_offline`, `error`)
may still run. `RelayLink` maps `outcome` and `forgot` to its `out` and `lost`.

### Runs

| run | instance | shows |
|---|---|---|
| `relay_commands` | 2 requests, 2 dials, restarts | `AnswerStands`, `ReplayNeedsRestart`, `KeepsPromise` |
| `relay_presence` | 1 request, 2 dials, 2 visits, restarts | `OnlineIsConnected`, `WatchedStreams` |

`KeepsPromise` includes that a command runs once; `AtMostOnce` and
`AnsweredStaysUnsent` are proved and have no run of their own.

Two dials give a dead connection next to a live one and a redelivery; two
requests are what a false replay takes (one raises the last number, the other
is refused); two visits reach both edges of the count twice. Commands and
presence share only the connections, so each run keeps the other's part small;
the proofs have no bounds. Deadlock is not checked: when the bounds are spent
and nobody acts the link is idle. Nothing is said of progress: an answer may
always be lost, and the code's only guarantee in time is the timeout itself.

### What the violations say

* `FreshIsNoReplay`: the client keeps the last sequence number over connections
  and the server forgets its counter on a restart. Fresh commands are then
  refused as replays until the counter has caught up. The protocol calls the
  number per-connection. `ReplayNeedsRestart` says that nothing but a restart
  of the server brings this about while the process stays with one relay and one
  key; after either is changed (`CloudLink` has the change, not the numbers) the
  counter may be another's, with the same effect.
* `QuietUntilTold`: the client keeps `_subscribed` over connections and the
  server tells a new connection only that somebody watches, never that nobody
  does. A process whose last watcher leaves while the line is down streams to
  nobody. `WatchedStreams` is the other half, which holds.

### Proofs (`RelayLink_proofs`)

For any set of requests, any number of dials and visits, with restarts:
`TypeCorrect`, `OnlineMeansConnected`, `AnsweredIsNotSent`, `RunsAtMostOnce`,
`AnswersAreTrue`, `ReplaysNeedARestart`, `WatchedIsStreamed`, and
`PromiseIsKept`, the refinement of `RemoteCommand`. The assumptions are the
ASSUMEs of `RelayLink`.

* `OnceInv`: whatever took effect is in the cache, is running, or is forgotten,
  and a command that runs has no cached answer. `AtMostOnce` alone is not
  inductive: it needs to know why a second run cannot start.
* `AnswerInv` extends `AnswerStands` to the acks on every connection and to the
  cache. A step only adds to what the client remembers (`Remembered`), so an
  answer that stands goes on standing (`StandsOn`); the four steps that send an
  answer send one that stands.
* `SeqInv`: while the server lives, the numbers under way ascend, lie above the
  client's last and not above the server's counter (`Ascending`), and no answer
  on the way says `replay`.
* `WatchInv`: a greeted process that is watched will hear of it (`Hears`): the
  last presence frame under way is a subscribe, or none is and it streams.

All properties of the passing runs are proved; the two violated ones are only
model-checked.

### Left out

Notices over the outgoing queue (see `Approvals`), snapshots (same path as
commands, but read-only and uncached), notifications and push, the access-key
handshake and the MAC, rate limits, heartbeats (they repeat `online`), eviction
of the answer cache at 512 entries, other machines of the account.

## 5. `DecisionCards` and `Timeline`

The proposals of one session, the cards that ask the owner about them, the
checkpoints and undos of its workspace, and the questions its PM asks. In the
program as it is wired, actions come from the workflow engine's gates and from
`DecisionLoop.observe`, which only tests and integrations call; checkpoints and
undos come from cards and from the PM's tools. The model has them all.

| state | code |
|---|---|
| `kind`, `status`, `anchor` | `Action.kind`, `.status`, the tree of `.checkpoint_id` |
| `card` | the action has a `DecisionCard` |
| `job`, `tapped` | what each proposal or each call of `record_choice` waits for, and on which action |
| `told` | actions that were sent to a coding agent as an instruction |
| `worktree` | the files, as the set of changes they hold |
| `refs`, `rows` | the shadow refs of `CheckpointManager`; the steps with a row in `checkpoints` |
| `restoring` | between the redo snapshot and the restore of `undo_to` |
| `waiting`, `fut`, `chosen` | `CardService.ask_question`, its future, `DecisionCard.chosen` |
| `mustAsk`, `approved`, `runs`, `first` | history for the properties |

Proposals: `Propose`, `WorkflowGate`, `AuditRaises`, `Audited` (verdict, dial
and the five ways on), `NotesSent`. Runs: `Execute` (checkpoint, then the
command) and `Ran`. Taps: `TapApprove`, `TapRevise`, `TapNothing`, `TapUndo`.
The workspace: `Restore`, `RestoreFails`, `PmCheckpoint`, `PmUndo`,
`FilesWritten`. Questions: `Ask`, `TapOption`, `Hear`, `GiveUp`. And `Restart`.

Git and shell commands are synchronous calls, so the event loop stands still
while one is under way (`Blocked`); the coding agent and the user are other
processes and may write at any moment, which is why an undo is two steps. A
failing git command lets the action run without a checkpoint, as the code does;
a failing or interrupted undo leaves any mixture of the two trees (`Halfway`).
The audit, the gate's class, the operator's hint and the dial are free inputs
of `Audited`.

`Timeline` is what undo promises: files may be written at any time, snapshots
are kept for ever, and nothing is taken out of the workspace unless the state
that goes was kept. `DecisionCards` maps the workspace to its `files` and the
contents of the shadow refs to its `kept`.

`QuietUndo` (nobody writes between the redo snapshot and the restore) is what
`KeepsTimeline` needs and the code does not enforce: nothing stops the agent
before an undo, and what it writes in that moment is in neither the snapshot
nor the workspace. All other properties hold without it, and their proofs do
not use it.

### Run

`cards`: 2 actions of any kind, 2 taps, 3 snapshots, 1 question with 2 options,
restarts: `NothingRunsUnasked`, `CheckpointPrecedesRun`, `SnapshotsStay`,
`KeepsTimeline`, `OpenCardHasAWaiter`. Two actions are needed for an undo that takes out what
another one did; two taps for approve after approve and undo after approve;
three snapshots for checkpoint, redo snapshot and one more after it. `Edits` is
empty: an agent with an instruction writes unasked as well. `Apart` keeps the
questions and the actions of a behaviour apart, as they share only the event
loop; the proofs do without it. Deadlock is not checked, for a session may be
done.

What the properties do not say, because the code does not: an action may be
approved twice, and its checkpoint is then from between the two runs
(`CheckpointPrecedesRun` speaks of the first); undoing a card restores the whole
workspace from before it, so later changes of others go with it, though none is
lost; a PM that gives up in the moment of a tap goes on without the answer its
card shows; after a restart the cards of open questions stay open for nobody.

### Proofs (`DecisionCards_proofs`)

For any actions, edits, taps, questions and options, any number of snapshots,
with restarts: `TypeCorrect`, `SnapshotsAreKept`, `RedLine`,
`CheckpointGoesFirst`, `FirstTapHeard`, `OpenCardsAwaited`, `ClosedForGood`,
and, with `QuietUndo`, `NothingIsLost`, the refinement of `Timeline`. The
assumptions are the ASSUMEs of `DecisionCards`. `Steps` groups the actions, so
that each invariant handles only the groups that disturb it.

* `TapsKnown` completes the types: a tap under way has its action.
* `AskInv`: an action without an audit behind it has no card and has not run,
  and a tap only reaches an action with a card. `AuditOutcome` reduces the
  verdict and the dial to what matters: an execution means nobody had to ask.
* `RunInv`: the change of an action that has not begun to run is in no file,
  snapshot, checkpoint or instruction (`Untouched`). `CheckpointPrecedesRun`
  alone says nothing of the workspace the next checkpoint is taken from.
* `UndoInv`: while an undo is under way the workspace is what the undo kept, as
  no shell command and no second undo can be.
* `QuestionInv`: while the PM waits, its future holds the first option tapped
  and the card shows an option exactly if the future does.

All properties of the run are proved.

### Left out

The gate's text
patterns, the operator's prompt, diffs and step detail pages, ignored files, and
the events a tap publishes.

## 6. Worktrees: `WorktreeLeases`, `WorktreeReview`, `Workspaces`

**`WorktreeLeases`** is `WorktreeManager` against git and the store. Every git
command and store call is synchronous, so a tool call is one step unless git
overruns its time (`CreateTimesOut`), its result is not accepted or the process
dies (`CreateUnleased`, `CleanupCut`, `ProcessDies`). `reg`, `dirs`, `dirt`,
`branches` and `ahead` are what git and the disk have; `lease` is the table;
`bound` is `Session.workspace`. Users add and remove worktrees at any time.
A worktree is named by its session and its slug, which is also its branch.

**`WorktreeReview`** is what the PM is told: the diff of a lease (which writes a
patch file into the worktree), the risk of merging two sessions, a promotion.
A risk check is eight git commands on trees that agents go on changing, so each
command is a step (`CheckBegins`, `CheckReads`, `CheckAnswers`). A command that
fails ends the check with an error (`CheckFails`), save `git ls-files`, whose
failure reads as no untracked files (`Listed`). A file is
whose content it has: that of a file of the base, another, or none; that is
what tells a rename from a deletion and an addition.

**`Workspaces`** is where everybody is. The workspace is kept in four places:
the session's row (`home`), the turn (`turn`), the tools of a PM call (`tools`)
and the agents' launches. A plan that names another workspace writes it into the
row. `Dispatch`, `PlanEnds`, `CallBegins`, `CallEnds`,
`StepLaunch`, `TurnEnds` are the dispatch service's; `FileTool`, `ReadArtifact`,
`LookAt`, `CreateWorktree`, `BindTool`, `CleanupTool` the tools'; users delete
directories. Leases are reduced to who holds which.

In the run: two sessions, three lease rows, two turns each (a lease outlives a
turn, a path changes hands and comes back); two worktrees, a file of the base and
one that is not, three changes (a clash takes two, hiding it one more); two
owners and two worktrees next to one configured workspace.

* `LeaseHasWorktree`, `UncommittedStays` (a cleanup is decided by the row and may
  meet another worktree at its path), `NothingOverlooked` (a path both had
  changed before the check began, and nobody touched during it, makes the risk
  high, unless it is untracked where a `git ls-files` of the check failed), `OnlyOwnPlaces`.
* What does not hold: `EveryClashIsTold` (that failed `git ls-files`), `SoleWriter` (a workspace stays bound after its lease was
  released, and the next session may be given that path), `CleanIsReady` (a
  promotion's own patch file makes the tree dirty), `BoundIsReachable` (file
  tools refuse the session's own worktree in every later call),
  `LaunchWhereBound`, `FallbackIsExplicit`, `ReadersShare`.

## 7. Files for agents and workflows: `InjectedFiles`, `WorkflowRuns`

**`InjectedFiles`** holds what `WorkspaceInjector` writes: marked blocks, one
native directory per skill which tasks share, per-task skill files, a manifest,
and exclude sections; `Inject` and `Clear` are its two calls. **`WorkflowRuns`**
extends it with the engine: `StartRun`, `BeginStep`, `Submit`, `Resume`, reviews
that wait for the model between reading the run and submitting their verdict,
and the dispatched tasks, which inject into the same workspaces and are cleared
in the one they were launched in. All runs of workflows share the key
`default`; a restart forgets tasks and reviews and keeps the files.

Two workflows of two steps (a gate then a rubric, two rubrics), one task, one
review at a time, two places. `TaskFilesStay`: nobody takes a task's files;
`NothingLeftBehind`: whatever lies in a workspace is there for a task at work or
a run under way, or was `forgotten`, by a process that died under its task or by
a clear that failed (`ClearFails`, at its first file; the dispatcher and the
engine go on as if it had not), and nothing takes that away later. Once some key
was cleared elsewhere than it was injected, or given other skills on the way
(`strayed`), nothing is promised; `GatesHold`. An injection or a clear that fails
halfway, after some of its files, is not modelled.
Not so: `ClearedIsClean` (a task is cleared where it was launched, not where its
plan put its files), `PassedByItsReview`, as a verdict is applied to the step the
run has reached.

## 8. A call of the PM: `PmCall`, `LlmCall`, `ContextLedger`, `ContextPacks`, `WorkModes`

**`PmCall`** is `PMAgent.plan/review/recover`, the tool loop and the runtime.
Tools are grouped by what the loop tells apart (search, fetch, browse, read,
command, test, other). `taint`, `leads` and `granted` are the loop's and the
runtime's own; `results` is the history the properties look at. Stop
(`CancelCall`) may come at any wait. `alive` is the shell of the tool at hand and
`strays` those that outlived their tool. A command that is cancelled, or a test
whose time is up, is ended in steps: SIGTERM, which a shell may be deaf to, up
to three seconds for it to exit (`Exits`), SIGKILL, and the wait for it; a second
Stop may come in between and cuts that short.
`CommandAfterWebIsAsked` and `PlanRestsOnEvidence` relate a step to any earlier
one of the call. The first is about `run_command` only: `test_run` looks
at no taint and starts any command the gate does not want approved
(`ShellAfterWebIsAsked` does not hold).
`CommandDiesWithCall` excludes (`excused`) a log that cannot be written and a Stop
during the ending of a process; processes a shell has started in groups of their
own are not modelled. Not so: `NoStrayProcess`, as a cancelled test goes on, and
`StopEndsTheCall`, as a log that cannot be written takes the place of the
cancellation.

**`LlmCall`** is one turn, over the socket with its watchdog, its repetition
detector and the retry without the previous response, or over HTTP. Time is in
ticks, the provider sends what and when it likes. `TurnEnds` needs
`LlmFairness`: the clock goes on, and the event loop wakes a receive whose time
is up. That is the loop's job and nothing is assumed of the provider, which may
send noise for ever. Frames name their call and may come in any order, with arguments
that are partial, final, empty or no JSON; a turn with tools ends with the first
call that is ready. That every call of an answer taken so early is whole
(`EarlyAnswerIsWhole`) is not so.

**`ContextLedger`** is the event log, the frames derived from it, the cursor,
and checkpoints. A compaction snapshots, awaits its summary and installs; two
may be under way (the PM's and the API's), and events of one tick sort by a
random id. `FramesAccounted`: the cursor passes over no event except one of the
same tick (the store makes the times of a session's events increase, so that
the exception is wider than its own writers need), and each visible frame is shown by a restore or is in the checkpoint
it starts from. `forgotten` shows that a third compaction drops anchors
(`AnchorsStay`).

**`ContextPacks`** is how a pack is made to fit. Sizes are tokens per item and
per entry of the list of omissions, so evicting may make a pack longer.
`EvictionIsHonest`: the core stays, what goes is told or the list says it is
cut, and nothing goes before something less important of its section. (That no
more goes than the room calls for is not claimed: where an entry of the list is
longer than the item it tells of, evicting one item makes room for less.) Not so: `PackIsBounded`, `NothingIsHidden`, `StoredIsAPack`.

**`WorkModes`** is the selection of definitions for a dispatch: snapshot, ranking
by words or by vectors that are awaited, the cut, the fit into the prompt, pulls
of bodies; plannings share a cache and definitions are edited meanwhile.
Ranks are given per text as numbers. `FunnelKeepsFaith` excuses `skewed` vectors
(those another planning wrote during the wait, or another embedder made); not so:
`ScoresAreOwn`, `BodyIsIndexed`, `CutIsTold`.

Bounds: two rounds of two calls each (web and command in one answer, a search
after a fetch across rounds); two tool calls of an answer, a wall of 4 ticks with
a stall of 2 and two requests (the second continues the first); two compactors,
two ticks and two events; seven items of four sections with three sizes, one
shorter than its entry in the list of omissions (size 2); two plannings of
three definitions and an edit.

## 9. Beside the sessions: the eight modules of `MCUpkeep`

| module | state and steps | property | bounds | does not hold |
|---|---|---|---|---|
| `Accounts` | the three tables, `_login_failures`, a clock; a handler is one step, `RedeemCut` stops between its commits | `AnAdminRemains`, `GuessesAreSpaced` | 2 users, 3 ticks, 2 codes, 2 sessions; a cap of 1 record | `LockoutsLast` |
| `Updater` | what each file holds, running images, the worker's phase, the helper's; every rename may fail and the helper may die | `AProgramRemains` | 2 launches of the program | `CancelIsKept` (`uncancelled`) |
| `Definitions` | rows, links, kept bundles; `ImportCut` stops between rows | `OneLiveVersion` | 3 ids, 1 name, 3 versions, a foreign bundle with two live ones | |
| `Approvals` | a held call from the hook through gate, push, event pump and outgoing queue to the server's inbox and back; a decision is two commits, of the row and of the event | `DecidedOnce` | 1 call, 1 phone, 2 results, queue of 1, inbox of 2 | `RequestComesFirst`, `AckedWasSeen`, `DecisionsAreTold` |
| `AgentRunner` | handles, pumps, processes, sends that await their spawn, the context's board | `EventsTellTheirAttempt` | 2 handles, 3 attempts | `NoUnreadAgent`, `StopReachesReaders`, `AgentsStayHome`, `RunningIsRead`, `ReadIsRunning` |
| `SchemaMigrations` | tables, columns, indexes, ledger; the driver begins a transaction with the first UPDATE or INSERT, so a CREATE, ALTER or DROP before it is a step; a table's declared indexes are made after it | `UpgradeIsWhole` | 2 programs of releases 0, 6, 7, 8, 2 leases of a path | `CrashKeepsVersion`, `GuardOutlivesRace`, `IndexesAreMade` |
| `Watchdog` | the pool, its records as objects, the sweep and the judge it awaits | `SweepTellsOfAll` | 2 agents, 2 registrations in all, 1 restart | `DoneStaysDone`, `DeathsMakeACard`, `DeadIsToldDead` |
| `CloudLink` | saved settings, loop and task fields, where each dialling thread is | `LinkIsCurrent` | 2 dialers, 2 settings | the same without `slipped`; status() may say offline while the link is up |

Two attempts of one handle and one of another show a stop or a send that meets
the wrong one; two programs, a cut upgrade and a later release. Releases 0 and
6–8 are those whose upgrades do more than add columns; the property speaks of
each release's own tables, columns and versions. Two dialers are an old
and a new one; a third would only be older. `UpgradeIsWhole` excludes databases
that were `crossed`: opened beside an upgrade, beside a program of another
release, or by an older release after an upgrade that was cut short; and it
leaves out the indexes that `create_all` makes with a table, which a crash may
part from it for good (`IndexesAreMade`). `LinkIsCurrent` excludes a stop before
the thread has left its task: those are the findings. In `SchemaMigrations` what earlier releases did
with the leases is read off the migrations, as their code is not in the
repository.

What runs at once in these modules is what the code runs at once: threads of
the dialer and the updater, processes of agents and programs, and the event
loop between two awaits. None of them assumes fairness.

`Accounts` has two parts in `MCUpkeep`, to keep each small: in `accounts` there are
codes, sessions and statuses while only one name is guessed, in `throttle` no codes,
and two names are guessed with a cap of one record, so that each pushes the other
out. The proofs know no such parts. `GuessesAreSpaced` holds as long as the throttle remembers the name:
a success, a restart or an eviction begins anew. That an eviction spares a lockout
(`LockoutsLast`) is not so. `DecidedOnce` says of a decided row that its event is
there, is about to be written or was cut off by a restart; that the last does not
happen (`DecisionsAreTold`) is not so.

## 10. Proofs about sections 6 to 9

Every invariant and action property the passing runs check is also a theorem,
for every value of the constants under the modules' ASSUMEs; liveness is not. As
the runs of `MCWorktrees`, `MCPmCall` and `MCUpkeep` follow one module per
behaviour, a module's own specification is what its part of the run checks.
What a run checks is rarely inductive; below is what each inductive invariant
adds. A part states its types and its invariant, then a lemma for each action or
kind of action, then the theorems. (Two theorems have no run: `OneLiveCode` and `LinksResolve` follow from
the same invariants.)

**`Worktrees_proofs`**

* `LeasesAreBacked`, `UncommittedIsKept`. What a run
  checks says nothing of released leases, yet a cleanup goes by one and could take
  the worktree from under an active lease. `HeldStands` therefore says of active
  and released leases alike that they have their worktree and share it with no
  other, while nobody meddles; `FreePath` then gives that a new worktree is no
  old lease's. `OneActive` is kept apart, as it survives meddling. The types need
  `RegIsRight`: what has a directory is registered on a branch that exists.
* `OwnPlacesOnly`. A place that is bound is copied to the
  row, the turn and the tools at different moments, so `PlacesInv` says of all
  three copies, and of the roots the tools may read, that they are configured or
  were the session's (`RowIsRight`, `TurnIsRight`, `ToolsAreRight`).
* `ReviewsOverlookNothing`. `CheckMissesNone` follows a path both have changed
  through the commands of a check: it is still changed, and is in what has been
  read of either lease or will be found among the untracked files. That one
  command's output leaves nothing out, renames included, is `ChangedIsSaid`.
* `RunsStopAtGates` needs that a blocked run has its card (`BlockedHasCard`), as
  the tap names no card. `TasksKeepTheirFiles` and `LeftoversAreForgotten` rest on
  `FilesInv`: a task's skills are in its manifest, so that another's clearing
  sees that they are shared (`ManifestCovers`), and unless somebody strayed
  whatever lies in a workspace has an owner that needs it (`AllOwned`), and
  that owner is at work or forgotten (`NeedyAreKnown`).

**`PmCall_proofs`**

* `WebCommandsAreAsked` needs that web content seen is web content
  noted (`WebIsNoted`) and that whoever is past the owner was approved for it if
  the note was set (`PastTheOwner`), through the audit and the gate's own card.
  `PlansAreBacked` needs that leads which are closed were followed up in the
  results so far (`OpenLeads`; `OneMore` is the step that adds a result) and that
  a call at work has no outcome yet. `CommandsDieWithTheirCall` needs that a
  shell which is alive is that of the call at hand, which is waiting for it or
  ending it (`OwnShell`).
* `LlmTypeCorrect` needs that a lost response is asked for again only once
  (`RetriedOnce`). It uses no fairness.

**`Context_proofs`**

These modules CHOOSE the newest, the least important, the longest that fits, or
a sequence in some order, so the proofs begin with what makes such choices
exist. Induction over numbers takes an operator as a parameter; it is replaced
by the least number of a set (`LeastOf`, from the well-foundedness of <) applied
to the counterexamples. So `GreatestOf`, and `RankedBy`: the members of a finite
set can be put in any strict order (`InOrderIs` is the form the models use).

* `OneVersionIsLive`, `LinksStayResolved`: `LibraryInv`. One activation leaves one
  live version (`ActivatedOne`), one per row of a bundle likewise (`ActivatedAll`).
* `FramesAreAccounted`. The cursor stands at an event no frame is after
  (`CursorStands`), no event is passed over (`PassesOver`), and every compaction
  under way, not only the checkpoint that stands, accounts for each visible frame
  up to where it will end (`AccountsFor`): it is covered, or comes after. That is
  what lets two compactions install in either order.
* `PacksAreHonest`. `PackInv` says at every step, not only at the end, that what
  has gone came before what stays (`LeastGoFirst`, by `VictimIs`) and that what
  has gone is told until the list is cut.
* `FunnelsKeepFaith`. While a planning waits for a batch, a vector that will not
  be renewed is of the planning's own text or is known to be skewed
  (`WaitIsKnown`), and only a planning that has come to its tools has an answer
  (`AnswerIsKept`). `CutIsFaithful` is about any strict order; `LexicalKeeps` and
  `SemanticKeeps` show that the two rankings are such orders and say what they
  are supposed to say.

**`Upkeep_proofs`**

* `AProgramStays`. `ImagesStand` and `HelperStands`: whatever runs
  is a file of the folder, as a file in use is neither deleted nor overwritten;
  `WorkerIsOwned`: a deletion still owed belongs to a process that serves, whose
  image remains; `ExeUnlessTorn` and `FileLeft` are what the run checks. A deletion
  always has such a witness (the process that boots, the owner, the helper).
* `LinkStaysCurrent`. `LinkInv` adds that the fields show
  how far a dialer has come that may still dial (`FieldsKnow`), that there is at most
  one and none once a caller has stopped it (`OneDials`), and that it has what is
  saved (`DialsWhatIsSaved`), unless a stop has slipped.
* `UpgradesAreWhole`. `Ladder`: as long as the database is not `crossed`, one
  program upgrades at a time and whatever has it open is of one release
  (`OneUpgrades`), the ledger is 1 to the level, each program's
  place follows from it (`ReadsLedger`, `Upgrades`, `IsOpened`), what a version
  added stays (`AddedStays`), and between upgrades the lease table has the unique
  index of its version (`HasGuard`), so that the rows are what the next index
  admits (`RowsFit`); a program that dies in between, be it between a table and
  its indexes, leaves the ladder at a rung.
* `AnAdminStays` needs that sessions are of accounts with a password
  (`SessionsAreEarned`), as the caller of a disabling call is the witness.
  `GuessesStaySpaced`: a record counts the latest of the wrong passwords, the one
  before those it counts lies a lockout back, and a lapsed record means the last
  one does (`RecordTells`), through the trimming of other names' records. A record
  that the cap evicts forgets the guesses as well: with it ends what is claimed.

**`Agents_proofs`**

* `EventsAreTrue`. A pump that reads is its handle's last and no other process is
  registered there (`PumpIsCurrent`); a send that awaits its spawn has an attempt
  of its own without a process yet (`SendsAhead`, `NothingAhead`). The list of the
  handles is left out of the types (`SelectSeq`).
* `SweepsTellOfAll`. Of a key's records only the newest is in the pool, the record
  being judged is as new as any the sweep began with (`JudgedIsKnown`), and what has
  not been assessed is still to come or need not be (`SweepMissesNone`).
* `CallsAreDecidedOnce`. `RowsMatchEvents`: an undecided call has no decision in the
  timeline; a decided one has exactly one, its row's, or is between the two
  commits (`deciding`), where no second decision can come in, as the row is
  decided by then, or was cut there (`untold`).

What the proofs assume of the constants is what the code or the data it ships
give: a foreign bundle consists of definitions (`Foreign`), the watched keys are
finitely many, a workflow has a step (`WorkflowAssumption`), an item of a pack
has a known section and an importance of 0 to 100 as `_as_int` clamps it
(`PackItem`), a definition has for every text a row of numbers (`RowType`).

Only model-checked: liveness (`TurnEnds`, `AbortedUnwinds`, `QueuedStarts`), which
rests on fairness and is beyond the prover, and that certain properties do not
hold, which a counterexample shows. What a fold or `SelectSeq` computes (the
tokens of a list, the history of a checkpoint, the runner's list of handles)
would need induction over data, and no theorem says anything of it.

## 11. Not modelled

* What only converts: encryption and access keys, JSON scanning, protocol framing,
  how adapters and providers format their streams, how replies become plans and
  reviews, texts of prompts and reports, patterns of the gate, translations,
  tokens counted from a text. Where a property turns on the outcome, the outcome
  is a free input of the step.
* I/O without state of its own: the browser, computer use, the monitors of
  processes and files, snapshots for the phone and the read-only requests, tracing,
  briefings and their delivery.
* SQL. A store call is the row it changes; what a crash leaves of several is
  modelled where the code commits in several pieces.
* The local window's live feed (`shared/events.py`, the `/ws` route): a window gets
  a backlog and then the events, and reloads; nothing else rests on it. Heartbeats
  and rate limits of the relay, which repeat or refuse what is modelled.
* Cache synchronisation and the backfill of descriptions, which write files and
  texts nobody else changes; the release feed and the digests of an update.
* The window, the splash screen, configuration, the command line, the web front end,
  and stubs that have no behaviour yet.
