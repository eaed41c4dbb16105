------------------------------ MODULE Watchdog ------------------------------
(***************************************************************************)
(* The Supervisor: one coroutine that sweeps every agent in its pool,      *)
(* classifies each by cheap signals, asks a judge about the suspicious     *)
(* ones, and reports what changed. The pool changes while it waits for the *)
(* judge.                                                                  *)
(*                                                                         *)
(* A record of the pool is an object: the sweep goes on with the one it    *)
(* has when its key is registered again or unregistered meanwhile.         *)
(***************************************************************************)
EXTENDS Naturals, FiniteSets

CONSTANTS
    Watched,        \* keys of agents
    MaxRecords,     \* a bound on the registrations
    MaxRestarts     \* deaths in a row before a card is due

ASSUME WatchdogAssumption ==
    IsFiniteSet(Watched) /\ MaxRecords \in Nat \ {0} /\ MaxRestarts \in Nat

VARIABLES
    made,       \* number of records made for a key
    pool,       \* the records in the pool: of each key its newest, or none
    record,     \* the records: state and fail_count
    sweep,      \* keys the sweep has still to look at, and the one being judged
    told,       \* state and action of the last events about a record
    looked      \* history: records the sweep began with, and those it assessed

watchVars == <<made, pool, record, sweep, told, looked>>

BadStates == {"stalled", "errored", "dead"}
Suspicious == BadStates \cup {"idle", "waiting_input"}
JudgeAllowed == {"running", "waiting_input", "stalled", "errored"}

Records == Watched \X (1 .. MaxRecords)
Fresh == [state |-> "starting", fails |-> 0]
NotJudged == [key |-> {}, number |-> 0, prev |-> "starting", found |-> "starting"]
NoSweep == [on |-> FALSE, left |-> {}, judged |-> NotJudged]

\* What the seams may say of an agent at a look: whether its process lives,
\* what the end of its output is like, how long it has made no progress.
Signals == [alive : BOOLEAN, tail : {"none", "waiting_input", "errored"},
            idle : {"untouched", "fresh", "idle", "stalled"}]

WatchInit ==
    /\ made = [k \in Watched |-> 0] /\ pool = {}
    /\ record = [r \in Records |-> Fresh]
    /\ sweep = NoSweep
    /\ told = [r \in Records |-> [state |-> "starting", action |-> "none"]]
    /\ looked = [start |-> {}, seen |-> {}]

Current(k) == <<k, made[k]>>

-----------------------------------------------------------------------------
(* The pool.                                                               *)

\* A new record, in place of the key's last one if that is still there.
Register(k) ==
    /\ Cardinality({r \in Records : r[2] <= made[r[1]]}) < MaxRecords
    /\ made' = [made EXCEPT ![k] = @ + 1]
    /\ pool' = (pool \ {Current(k)}) \cup {<<k, made[k] + 1>>}
    /\ UNCHANGED <<record, sweep, told, looked>>

MarkDone(k) ==
    /\ Current(k) \in pool
    /\ record' = [record EXCEPT ![Current(k)].state = "done"]
    /\ UNCHANGED <<made, pool, sweep, told, looked>>

Unregister(k) ==
    /\ Current(k) \in pool
    /\ pool' = pool \ {Current(k)}
    /\ UNCHANGED <<made, record, sweep, told, looked>>

-----------------------------------------------------------------------------
(* The sweep.                                                              *)

\* A dead process first, then the output, then the time without progress.
Classified(signal) ==
    IF ~signal.alive THEN "dead"
    ELSE IF signal.tail # "none" THEN signal.tail
    ELSE IF signal.idle = "untouched" THEN "starting"
    ELSE IF signal.idle = "fresh" THEN "running"
    ELSE signal.idle

\* What is to be done about a state after so many deaths in a row.
PlanRecovery(state, fails) ==
    CASE state = "dead" ->
            IF fails <= MaxRestarts THEN "restart_from_checkpoint" ELSE "escalate_card"
      [] state = "stalled"       -> "nudge"
      [] state = "waiting_input" -> "answer_or_card"
      [] state = "errored"       -> "backoff_or_card"
      [] OTHER                   -> "none"

\* (Sweeps are followed up to the death that is one too many.)
BeginSweep ==
    /\ ~sweep.on /\ pool # {}
    /\ \A r \in Records : record[r].fails <= MaxRestarts
    /\ sweep' = [on |-> TRUE, left |-> {r[1] : r \in pool}, judged |-> NotJudged]
    /\ looked' = [start |-> pool, seen |-> {}]
    /\ UNCHANGED <<made, pool, record, told>>

Onward(k) == [sweep EXCEPT !.left = @ \ {k}, !.judged = NotJudged]
Idle == sweep.on /\ sweep.judged = NotJudged
Assessable(k) == Current(k) \in pool /\ record[Current(k)].state # "done"

Skip(k) ==
    /\ Idle /\ k \in sweep.left /\ ~Assessable(k)
    /\ sweep' = Onward(k)
    /\ UNCHANGED <<made, pool, record, told, looked>>

\* The end of an assessment: the record's state, and events if it is a change.
Settle(r, prev, state) ==
    LET fails == IF state = "dead" THEN record[r].fails + 1 ELSE 0 IN
    /\ record' = [record EXCEPT ![r] = [state |-> state, fails |-> fails]]
    /\ told' = IF state = prev THEN told
               ELSE [told EXCEPT ![r] = [state |-> state, action |-> PlanRecovery(state, fails)]]
    /\ looked' = [looked EXCEPT !.seen = @ \cup {r}]

Assess(k, signal) ==
    /\ Idle /\ k \in sweep.left /\ Assessable(k) /\ Classified(signal) \notin Suspicious
    /\ Settle(Current(k), record[Current(k)].state, Classified(signal))
    /\ sweep' = Onward(k)
    /\ UNCHANGED <<made, pool>>

AskJudge(k, signal) ==
    /\ Idle /\ k \in sweep.left /\ Assessable(k) /\ Classified(signal) \in Suspicious
    /\ sweep' = [sweep EXCEPT !.judged =
          [key |-> {k}, number |-> made[k], prev |-> record[Current(k)].state,
           found |-> Classified(signal)]]
    /\ UNCHANGED <<made, pool, record, told, looked>>

\* The judge refines what was found, or leaves it.
Judged(k, state) ==
    /\ sweep.judged.key = {k}
    /\ state \in JudgeAllowed \cup {sweep.judged.found}
    /\ Settle(<<k, sweep.judged.number>>, sweep.judged.prev, state)
    /\ sweep' = Onward(k)
    /\ UNCHANGED <<made, pool>>

JudgeFails_EndsSweep(k) ==
    /\ sweep.judged.key = {k}
    /\ looked' = [looked EXCEPT !.seen = @ \cup {<<k, sweep.judged.number>>}]
    /\ sweep' = [Onward(k) EXCEPT !.left = {}]
    /\ UNCHANGED <<made, pool, record, told>>

\* It raises: an error event, and the sweep goes on.
JudgeFails(k) ==
    /\ sweep.judged.key = {k}
    /\ looked' = [looked EXCEPT !.seen = @ \cup {<<k, sweep.judged.number>>}]
    /\ sweep' = Onward(k)
    /\ UNCHANGED <<made, pool, record, told>>

EndSweep ==
    /\ Idle /\ sweep.left = {}
    /\ sweep' = NoSweep
    /\ UNCHANGED <<made, pool, record, told, looked>>

WatchNext ==
    \/ BeginSweep \/ EndSweep
    \/ \E k \in Watched :
          \/ Register(k) \/ MarkDone(k) \/ Unregister(k) \/ Skip(k) \/ JudgeFails(k)
          \/ \E signal \in Signals : Assess(k, signal) \/ AskJudge(k, signal)
          \/ \E state \in JudgeAllowed \cup Suspicious : Judged(k, state)

WatchSpec == WatchInit /\ [][WatchNext]_watchVars

-----------------------------------------------------------------------------
(* Properties.                                                             *)

\* When a sweep ends, each agent it began with has been assessed, or is gone,
\* replaced or done, however the judge failed on others; and the timeline's last
\* word on each record is the state it is in, whatever came during the wait.
SweepTellsOfAll ==
    /\ Idle /\ sweep.left = {} =>
          \A r \in looked.start \ looked.seen : r \notin pool \/ record[r].state = "done"
    /\ \A r \in Records : record[r].state \in {told[r].state, "done"}

\* An agent marked as done stays so (not so: the sweep that waits for the
\* judge writes what it found over it).
DoneStaysDone ==
    [][\A r \in Records : record[r].state = "done" => record'[r].state = "done"]_watchVars

\* Deaths in a row lead to a card (not so: events go out on a change of state,
\* and the count is one by then).
DeathsMakeACard ==
    \A r \in Records :
        record[r].fails > MaxRestarts => told[r].action = "escalate_card"

\* An agent whose process has exited is told dead (not so: the judge may have
\* it running).
DeadIsToldDead ==
    [][\A k \in Watched, state \in JudgeAllowed :
          Judged(k, state) => sweep.judged.found # "dead"]_watchVars
=============================================================================
