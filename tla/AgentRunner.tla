----------------------------- MODULE AgentRunner -----------------------------
(***************************************************************************)
(* The agents of one session: src/foreman/client/agents/runner.py, the     *)
(* adapters under it, and what core/context_v2.py makes of their events.   *)
(* A process is named by the attempt that spawned it, and so is the pump   *)
(* (a task) that reads it into the store.  A send has two steps, the call  *)
(* and the return of the spawn it awaits; it may come at any time, from    *)
(* the PM's loop or from an approved instruction card.                     *)
(*                                                                         *)
(* The runner's own stop() has no caller and is left out; what an adapter  *)
(* does to stop an agent happens when a pump fails.                        *)
(***************************************************************************)
EXTENDS Naturals, Sequences, FiniteSets

CONSTANTS
    Handles,            \* handles the session's launches may create
    MaxAttempts         \* launches and sends of a behaviour, a bound

ASSUME RunnerAssumption == MaxAttempts \in Nat

Attempts == 1 .. MaxAttempts

VARIABLES
    attempts,           \* launches and sends so far
    handles,            \* handles of the session, in the order of their launch
    newest,             \* the one an instruction card is sent to, or none
    procs,              \* adapter: the process registered under a handle, or 0
    placed,             \* adapter: handles whose workspace is remembered
    stamp,              \* the handle's attempt id; 0 before its launch
    current,            \* the last pump of a handle, or 0
    pump,               \* the pumps
    process,            \* the processes
    sends,              \* sends that await their spawn
    status,             \* the handle's own status
    log,                \* what the pumps have persisted
    said,               \* context frames: the last status they give a handle
    astray              \* history: attempts started outside their workspace

runnerVars == <<attempts, handles, newest, procs, placed, stamp, current, pump, process, sends, status, log, said, astray>>

Nobody == "nobody"
Pumping == {"fresh", "reading", "failing"}
Alive == {"live", "told"}
Statuses == {"unknown", "started", "running", "completed", "failed", "cancelled"}
NoPump == [handle |-> Nobody, reads |-> 0, state |-> "none"]
Listed == {handles[i] : i \in DOMAIN handles}

RunnerTypeOK ==
    /\ attempts \in 0 .. MaxAttempts
    /\ handles \in Seq(Handles) /\ \A i, j \in DOMAIN handles : handles[i] = handles[j] => i = j
    /\ IF handles = <<>> THEN newest = Nobody ELSE newest \in Listed
    /\ procs \in [Handles -> 0 .. MaxAttempts]
    /\ placed \subseteq Handles
    /\ stamp \in [Handles -> 0 .. MaxAttempts]
    /\ current \in [Handles -> 0 .. MaxAttempts]
    /\ pump \in [Attempts -> [handle : Handles \cup {Nobody}, reads : 0 .. MaxAttempts,
                              state : {"none", "done", "unwinding"} \cup Pumping]]
    /\ process \in [Attempts -> {"none", "ok", "failed"} \cup Alive]
    /\ sends \subseteq [handle : Handles, attempt : Attempts, home : BOOLEAN]
    /\ status \in [Handles -> Statuses] /\ said \in [Handles -> Statuses]
    /\ log \subseteq [process : Attempts, attempt : Attempts,
                      status : Statuses]
    /\ astray \subseteq Attempts

RunnerInit ==
    /\ attempts = 0 /\ handles = <<>> /\ newest = Nobody
    /\ procs = [h \in Handles |-> 0] /\ placed = {}
    /\ stamp = [h \in Handles |-> 0] /\ current = [h \in Handles |-> 0]
    /\ pump = [a \in Attempts |-> NoPump]
    /\ process = [a \in Attempts |-> "none"]
    /\ sends = {} /\ log = {} /\ astray = {}
    /\ status = [h \in Handles |-> "unknown"] /\ said = [h \in Handles |-> "unknown"]

-----------------------------------------------------------------------------
Event(p, a, st) == [process |-> p, attempt |-> a, status |-> st]

Without(h) == SelectSeq(handles, LAMBDA k : k # h)

Forget(h) ==
    /\ handles' = Without(h)
    /\ newest' = IF newest # h THEN newest
                 ELSE IF Without(h) = <<>> THEN Nobody ELSE Without(h)[Len(Without(h))]

\* A cancelled pump ends where it waits; in the adapter's stop it still has
\* its handle to forget.
CancelledPump(a) ==
    [pump EXCEPT ![a].state = IF @ = "failing" THEN "unwinding" ELSE IF @ \in Pumping THEN "done" ELSE @]

\* adapter.start: the process and the workspace of a new handle.
Registered(h, a) ==
    /\ process' = [process EXCEPT ![a] = "live"]
    /\ procs' = [procs EXCEPT ![h] = a]
    /\ placed' = placed \cup {h}

Launch(h) ==
    LET a == attempts + 1 IN
    /\ stamp[h] = 0 /\ attempts < MaxAttempts
    /\ Registered(h, a)
    /\ attempts' = a
    /\ handles' = Append(handles, h) /\ newest' = h
    /\ stamp' = [stamp EXCEPT ![h] = a]
    /\ current' = [current EXCEPT ![h] = a]
    /\ pump' = [pump EXCEPT ![a] = [handle |-> h, reads |-> 0, state |-> "fresh"]]
    /\ status' = [status EXCEPT ![h] = "running"]
    /\ UNCHANGED <<sends, log, said, astray>>

LaunchFails ==
    /\ attempts < MaxAttempts
    /\ attempts' = attempts + 1
    /\ log' = log \cup {Event(attempts + 1, attempts + 1, "failed")}
    /\ UNCHANGED <<handles, newest, procs, placed, stamp, current, pump, process, sends, status, said, astray>>

\* Where the new process will run is settled before its spawn is awaited.
BeginSend(h) ==
    LET a == attempts + 1 IN
    /\ h \in Listed /\ attempts < MaxAttempts
    /\ attempts' = a
    /\ stamp' = [stamp EXCEPT ![h] = a]
    /\ sends' = sends \cup {[handle |-> h, attempt |-> a, home |-> h \in placed]}
    /\ UNCHANGED <<handles, newest, procs, placed, current, pump, process, status, log, said, astray>>

\* adapter.send: the new process takes the handle, whatever ran under it.
Resumed(s) ==
    /\ process' = [process EXCEPT ![s.attempt] = "live"]
    /\ procs' = [procs EXCEPT ![s.handle] = s.attempt]
    /\ status' = [status EXCEPT ![s.handle] = "running"]
    /\ astray' = IF s.home THEN astray ELSE astray \cup {s.attempt}

FreshPump(s) == [handle |-> s.handle, reads |-> 0, state |-> "fresh"]

\* The handle may have been forgotten meanwhile; nobody looks.
SendReturns(s) ==
    /\ s \in sends
    /\ Resumed(s)
    /\ sends' = sends \ {s}
    /\ pump' = [CancelledPump(current[s.handle]) EXCEPT ![s.attempt] = FreshPump(s)]
    /\ current' = [current EXCEPT ![s.handle] = s.attempt]
    /\ UNCHANGED <<attempts, handles, newest, placed, stamp, log, said>>

SendFails(s) ==
    /\ s \in sends
    /\ sends' = sends \ {s}
    /\ log' = log \cup {Event(s.attempt, s.attempt, "failed")}
    /\ said' = [said EXCEPT ![s.handle] = "failed"]
    /\ UNCHANGED <<attempts, handles, newest, procs, placed, stamp, current, pump, process, status, astray>>

-----------------------------------------------------------------------------
(* The pumps.                                                              *)

\* A pump reads what its handle's process is when it first runs.
PumpStarts(a) ==
    LET h == pump[a].handle IN
    /\ pump[a].state = "fresh"
    /\ IF procs[h] = 0 THEN pump' = [pump EXCEPT ![a].state = "done"] /\ UNCHANGED <<log, status, said>>
       ELSE /\ pump' = [pump EXCEPT ![a].reads = procs[h], ![a].state = "reading"]
            /\ log' = log \cup {Event(procs[h], a, "started")}
            /\ status' = [status EXCEPT ![h] = "running"]
            /\ said' = [said EXCEPT ![h] = "running"]
    /\ UNCHANGED <<attempts, handles, newest, procs, placed, stamp, current, process, sends, astray>>

PumpReads_HandleStamp(a) ==
    /\ pump[a].state = "reading"
    /\ log' = log \cup {Event(pump[a].reads, stamp[pump[a].handle], "running")}
    /\ UNCHANGED <<attempts, handles, newest, procs, placed, stamp, current, pump, process, sends, status, said, astray>>

PumpReads(a) ==
    /\ pump[a].state = "reading"
    /\ log' = log \cup {Event(pump[a].reads, a, "running")}
    /\ UNCHANGED <<attempts, handles, newest, procs, placed, stamp, current, pump, process, sends, status, said, astray>>

\* _finalize_stop_event: what the CLI said of itself, its own code and the
\* process's, which goes first.
FinalStatus(word, cliFailed, failed) ==
    IF word = "cancelled" THEN "cancelled"
    ELSE IF failed \/ cliFailed THEN "failed"
    ELSE IF word \in {"", "running"} THEN "completed" ELSE word

\* The last event of a process that has ended, with a result line or without.
LastEvents(failed) ==
    {o \in Statuses :
        \/ o = IF failed THEN "failed" ELSE "completed"
        \/ \E word \in {"", "running", "completed", "failed", "cancelled"}, cliFailed \in BOOLEAN :
              o = FinalStatus(word, cliFailed, failed)}

\* _stop_status: what a context frame makes of a last event.
StopStatus(o, failed) ==
    IF o = "cancelled" THEN o ELSE IF o = "failed" \/ failed THEN "failed" ELSE "completed"

PumpEnds(a) ==
    /\ pump[a].state = "reading" /\ process[pump[a].reads] \in {"ok", "failed"}
    /\ \E o \in LastEvents(process[pump[a].reads] = "failed") :
        /\ log' = log \cup {Event(pump[a].reads, a, o)}
        /\ status' = [status EXCEPT ![pump[a].handle] = o]
        /\ said' = [said EXCEPT ![pump[a].handle] = StopStatus(o, process[pump[a].reads] = "failed")]
    /\ pump' = [pump EXCEPT ![a].state = "done"]
    /\ UNCHANGED <<attempts, handles, newest, procs, placed, stamp, current, process, sends, astray>>

\* The stream or the store raises, an error that names no handle: the adapter stops the agent, which takes
\* a while if it still runs, and then the handle is forgotten.
PumpFails(a) ==
    LET h == pump[a].handle
        running == procs[h] # 0 /\ process[procs[h]] \in Alive
    IN
    /\ pump[a].state = "reading"
    /\ log' = log \cup {Event(pump[a].reads, a, "failed")}
    /\ procs' = [procs EXCEPT ![h] = 0]
    /\ placed' = placed \ {h}
    /\ pump' = [pump EXCEPT ![a].state = IF running THEN "failing" ELSE "done"]
    /\ IF running
       THEN process' = [process EXCEPT ![procs[h]] = "told"] /\ UNCHANGED <<handles, newest>>
       ELSE Forget(h) /\ UNCHANGED process
    /\ UNCHANGED <<attempts, stamp, current, sends, status, said, astray>>

\* The process has ended, or is killed after five seconds.
PumpStopped(a) ==
    /\ pump[a].state = "failing"
    /\ process' = [process EXCEPT ![pump[a].reads] = IF @ \in Alive THEN "failed" ELSE @]
    /\ Forget(pump[a].handle)
    /\ pump' = [pump EXCEPT ![a].state = "done"]
    /\ UNCHANGED <<attempts, procs, placed, stamp, current, sends, status, log, said, astray>>

\* The adapter's stop was cancelled: nobody waits for the process any more.
PumpUnwinds(a) ==
    /\ pump[a].state = "unwinding"
    /\ Forget(pump[a].handle)
    /\ pump' = [pump EXCEPT ![a].state = "done"]
    /\ UNCHANGED <<attempts, procs, placed, stamp, current, process, sends, status, log, said, astray>>

-----------------------------------------------------------------------------
ProcessExits(p) ==
    /\ process[p] \in Alive
    /\ \E code \in {"ok", "failed"} : process' = [process EXCEPT ![p] = code]
    /\ UNCHANGED <<attempts, handles, newest, procs, placed, stamp, current, pump, sends, status, log, said, astray>>

\* The handles a stop of the session reaches.
Reached == {h \in Listed : current[h] # 0 /\ pump[current[h]].state \in Pumping}

\* handles_for_session, and interrupt of each.
Interrupt ==
    /\ Reached # {}
    /\ process' = [p \in Attempts |->
           IF process[p] = "live" /\ \E h \in Reached : procs[h] = p THEN "told" ELSE process[p]]
    /\ pump' = [a \in Attempts |->
           IF \E h \in Reached : current[h] = a THEN CancelledPump(a)[a] ELSE pump[a]]
    /\ UNCHANGED <<attempts, handles, newest, procs, placed, stamp, current, sends, status, log, said, astray>>

-----------------------------------------------------------------------------
(* What the context tells the PM of an agent (extract_runtime_state).       *)

\* How final a status is.
Rank(s) == CASE s = "completed" -> 1 [] s = "cancelled" -> 2 [] s = "failed" -> 3 [] OTHER -> 0

\* _choose_agent_status: the more final of the two; of two that are not, the
\* candidate.
Chosen(now, candidate) ==
    IF Rank(candidate) > Rank(now) THEN candidate
    ELSE IF Rank(now) > 0 THEN now ELSE candidate

\* The frames' word, and the handle's where the runner still has it; nothing
\* polls the process.
Board(h) == IF h \in Listed THEN Chosen(said[h], status[h]) ELSE said[h]

RunnerNext ==
    \/ \E h \in Handles : Launch(h) \/ BeginSend(h)
    \/ LaunchFails
    \/ \E s \in sends : SendReturns(s) \/ SendFails(s)
    \/ \E a \in Attempts :
        \/ PumpStarts(a) \/ PumpReads(a) \/ PumpEnds(a)
        \/ PumpFails(a) \/ PumpStopped(a) \/ PumpUnwinds(a)
    \/ \E p \in Attempts : ProcessExits(p)
    \/ Interrupt

RunnerSpec == RunnerInit /\ [][RunnerNext]_runnerVars

-----------------------------------------------------------------------------
(* Properties.                                                             *)

\* An event bears the attempt whose process it tells of, while a later one is
\* already being spawned under the same handle, and a process that failed is
\* never said to have completed; and no two pumps read under one handle, or
\* events would tell of either (Runner._pump, send, _finalize_stop_event).
EventsTellTheirAttempt ==
    /\ \A a, b \in Attempts :
          pump[a].state \in {"fresh", "reading"} /\ pump[b].state \in {"fresh", "reading"}
          /\ pump[a].handle = pump[b].handle => a = b
    /\ \A e \in log :
          /\ e.attempt = e.process
          /\ e.status = "completed" => process[e.process] = "ok"

\* An agent whose output is being read is running for the PM, whatever an
\* earlier attempt of its handle came to. It is not so: a follow-up that
\* cannot be spawned says failed of the agent that still works.
ReadIsRunning ==
    \A a \in Attempts : pump[a].state = "reading" /\ pump[a].handle \in Listed => Board(pump[a].handle) = "running"

\* An agent that runs for the PM is one the program still reads. It is not
\* so: a stop of the session, and a stream that fails, leave no last event
\* under the handle's name.
RunningIsRead ==
    \A h \in Handles : Board(h) = "running" =>
        \E a \in Attempts : pump[a].handle = h /\ pump[a].state \in Pumping

\* A running agent that nobody has told to end is read by a pump. It is not
\* so: a send to a handle whose agent still works leaves that agent running.
NoUnreadAgent ==
    \A p \in Attempts : process[p] = "live" =>
        \E a \in Attempts : pump[a].state \in {"fresh", "reading"} /\ procs[pump[a].handle] = p

\* What a pump reads, a stop of the session reaches. It is not so: a send
\* that returns while a failed pump stops its agent takes over a handle that
\* is forgotten next.
StopReachesReaders ==
    \A a \in Attempts : pump[a].state = "reading" => pump[a].handle \in Reached

\* Every agent runs in its session's workspace. It is not so, in the same
\* race: the workspace is dropped before the handle is.
AgentsStayHome == astray = {}
=============================================================================
