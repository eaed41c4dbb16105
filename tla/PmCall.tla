------------------------------- MODULE PmCall -------------------------------
(***************************************************************************)
(* The calls of a session's PM: PMAgent.plan, review and recover, the tool *)
(* loop they run and the tool runtime that carries out what the model asks *)
(* for. The model's answers (see LlmCall), the owner's taps, the auditor   *)
(* and the commands are the environment.                                   *)
(*                                                                         *)
(* Tools are grouped by what the loop tells apart: a search gives leads, a *)
(* fetch and a read verify them, search, fetch and browse bring web        *)
(* content into the transcript, command and test start a process, and any  *)
(* other tool is "other". Rounds without tools, when they are switched     *)
(* off, are left out: they keep nothing between the model's answers.       *)
(***************************************************************************)
EXTENDS Naturals, Sequences

CONSTANTS
    Tools,          \* groups of tools that are enabled
    MaxRounds,      \* pm_tools.max_rounds
    MaxBatch,       \* tool calls of one answer, a bound
    MaxCalls        \* PM calls of a behaviour, a bound

AllTools == {"search", "fetch", "browse", "read", "command", "test", "other"}

ASSUME PmAssumption ==
    /\ Tools \subseteq AllTools
    /\ MaxRounds \in Nat \ {0} /\ MaxBatch \in Nat /\ MaxCalls \in Nat

VARIABLES
    mode,       \* plan, or the text of a review or recovery
    pc,         \* what the call waits for
    round,
    batch,      \* tool calls of this round still to carry out
    taint,      \* the transcript holds web content
    leads,      \* search results nobody has verified
    granted,    \* reasons for which the owner approved the current command
    outcome,
    results,    \* history: the tools of this PM call and whether each was ok
    alive,      \* the shell of the command or test at hand, if it has not exited
    strays,     \* shells that outlived the tool call that started them
    excused,    \* history: a command's output could not be logged, or Stop came
                \* again while a shell was being ended
    calls       \* PM calls so far

procVars == <<alive, strays, excused>>
pmVars == <<mode, pc, round, batch, taint, leads, granted, outcome, results, calls, procVars>>

Idle == {"idle"}
Asking == {"askWeb", "askGate"}
Running == {"command", "test"}
Ending == {"endCommand", "endTest"}
Waits == {"model", "tool", "audit"} \cup Asking \cup Running \cup Ending
Outcomes == {"none", "plan", "fallback", "text", "incomplete", "raised"}
Results == [tool : AllTools, ok : BOOLEAN]

PmTypeOK ==
    /\ mode \in {"plan", "text"}
    /\ pc \in Idle \cup Waits
    /\ round \in 1 .. MaxRounds
    /\ batch \in Seq(Tools) /\ Len(batch) <= MaxBatch
    /\ taint \in BOOLEAN /\ leads \in BOOLEAN
    /\ granted \subseteq {"web", "gate"}
    /\ outcome \in Outcomes
    /\ results \in Seq(Results)
    /\ alive \subseteq Running /\ strays \subseteq Running
    /\ excused \in BOOLEAN
    /\ calls \in 0 .. MaxCalls

PmInit ==
    /\ mode = "plan" /\ pc = "idle" /\ round = 1 /\ batch = <<>>
    /\ taint = FALSE /\ leads = FALSE /\ granted = {}
    /\ outcome = "none" /\ results = <<>> /\ calls = 0
    /\ alive = {} /\ strays = {} /\ excused = FALSE

-----------------------------------------------------------------------------
(* The call and its rounds.                                                *)

\* A shell that is still alive outlives its tool call.
Leave ==
    /\ strays' = strays \cup alive
    /\ alive' = {}

EndWith(o) ==
    /\ outcome' = o
    /\ pc' = "idle" /\ batch' = <<>> /\ granted' = {} /\ Leave
    /\ UNCHANGED <<mode, round, taint, leads, results, calls>>

BeginCall(m) ==
    /\ pc = "idle" /\ calls < MaxCalls
    /\ mode' = m /\ pc' = "model" /\ round' = 1
    /\ taint' = FALSE /\ leads' = FALSE /\ results' = <<>>
    /\ outcome' = "none" /\ calls' = calls + 1
    /\ UNCHANGED <<batch, granted, procVars>>

\* A greeting is answered without the model.
SimpleReply ==
    /\ pc = "idle" /\ calls < MaxCalls
    /\ mode' = "plan" /\ outcome' = "plan"
    /\ taint' = FALSE /\ leads' = FALSE /\ results' = <<>>
    /\ calls' = calls + 1
    /\ UNCHANGED <<pc, round, batch, granted, procVars>>

\* The round ends without a result; the last one ends the call.
NextRound ==
    IF round < MaxRounds
    THEN /\ round' = round + 1 /\ pc' = "model"
         /\ outcome' = outcome
    ELSE /\ round' = round /\ pc' = "idle"
         /\ outcome' = IF mode = "plan" THEN "fallback" ELSE "incomplete"

\* The model's call fails, stalls or is refused: the PM call raises.
ModelRaises ==
    /\ pc = "model"
    /\ EndWith("raised")
    /\ UNCHANGED excused

\* An answer without a tool call, or a plan the contract refuses.
NoUse ==
    /\ pc = "model"
    /\ NextRound
    /\ UNCHANGED <<mode, batch, taint, leads, granted, results, calls, procVars>>

SubmitPlan_LeadsAllowed ==
    /\ pc = "model" /\ mode = "plan"
    /\ EndWith("plan")
    /\ UNCHANGED excused

\* A valid plan, in whatever round, and whatever else the answer asks for;
\* unverified leads send it back.
SubmitPlan ==
    /\ pc = "model" /\ mode = "plan"
    /\ IF leads
       THEN NextRound /\ UNCHANGED <<mode, batch, taint, leads, granted, results, calls, alive, strays>>
       ELSE EndWith("plan")
    /\ UNCHANGED excused

\* The JSON of a review or a recovery.
FinalText ==
    /\ pc = "model" /\ mode = "text"
    /\ EndWith("text")
    /\ UNCHANGED excused

Evidence ==
    /\ pc = "model"
    /\ \E n \in 1 .. MaxBatch : batch' \in [1 .. n -> Tools]
    /\ pc' = "tool"
    /\ UNCHANGED <<mode, round, taint, leads, granted, outcome, results, calls, procVars>>

-----------------------------------------------------------------------------
(* Carrying out the calls of a round, one after the other.                 *)

Web == {"search", "fetch", "browse"}
Verifying == {"fetch", "read", "command"}

\* A browser call that fails may have shown its page.
BringsWeb(tool, ok) == ok /\ tool \in Web
MayBringWeb(tool, ok) == BringsWeb(tool, ok) \/ tool = "browse"

Leads(tool, ok, before) ==
    IF tool = "search" /\ ok THEN TRUE
    ELSE before /\ ~(ok /\ tool \in Verifying)

GoOn ==
    /\ batch' = Tail(batch)
    /\ granted' = {}
    /\ IF Tail(batch) = <<>> THEN NextRound
       ELSE pc' = "tool" /\ UNCHANGED <<round, outcome>>

\* What web content a round brought is noted when the round ends.
Note_AtEndOfRound(ok) ==
    /\ results' = Append(results, [tool |-> Head(batch), ok |-> ok])
    /\ taint' = IF Len(batch) > 1 THEN taint
                ELSE taint \/ \E i \in 1 .. Len(results) : results[i].tool \in Web
    /\ leads' = (mode = "plan" /\ Leads(Head(batch), ok, leads))
    /\ GoOn

\* The result of the call at hand.
Note(ok) ==
    /\ results' = Append(results, [tool |-> Head(batch), ok |-> ok])
    /\ taint' \in {taint \/ BringsWeb(Head(batch), ok), taint \/ MayBringWeb(Head(batch), ok)}
    /\ leads' = (mode = "plan" /\ Leads(Head(batch), ok, leads))
    /\ GoOn

PlainTool ==
    /\ pc = "tool" /\ Head(batch) \notin Running
    /\ \E ok \in BOOLEAN : Note(ok)
    /\ UNCHANGED <<mode, calls, procVars>>

\* Invalid arguments or a tool that is disabled.
Refused ==
    /\ pc = "tool" /\ Head(batch) \in Running
    /\ Note(FALSE)
    /\ UNCHANGED <<mode, calls, procVars>>

CallKeeps == UNCHANGED <<mode, round, batch, taint, leads, outcome, results, strays, excused, calls>>

WaitFor(what) == pc' = what /\ CallKeeps /\ UNCHANGED alive

StartProcess(tool) == pc' = tool /\ alive' = {tool} /\ CallKeeps

\* The gate takes a command for safe, grey or in need of approval.
Classified ==
    \/ StartProcess("command")
    \/ WaitFor("audit")
    \/ WaitFor("askGate")

RunCommand ==
    /\ pc = "tool" /\ Head(batch) = "command"
    /\ IF taint THEN WaitFor("askWeb") ELSE Classified
    /\ granted' = {}

Approved ==
    /\ pc \in Asking
    /\ IF pc = "askWeb" THEN granted' = granted \cup {"web"} /\ Classified
       ELSE granted' = granted \cup {"gate"} /\ StartProcess("command")

\* Rejected, not answered in time, or no card could be sent.
NotApproved ==
    /\ pc \in Asking
    /\ Note(FALSE)
    /\ UNCHANGED <<mode, calls, procVars>>

AuditPasses ==
    /\ pc = "audit"
    /\ StartProcess("command") /\ UNCHANGED granted

AuditBlocks ==
    /\ pc = "audit"
    /\ Note(FALSE)
    /\ UNCHANGED <<mode, calls, procVars>>

\* A test is refused when it would need approval, and starts at once otherwise.
RunTest ==
    /\ pc = "tool" /\ Head(batch) = "test"
    /\ StartProcess("test") /\ UNCHANGED granted

\* The shell has exited and the output is at its end.
CommandEnds ==
    /\ pc = "command"
    /\ \E ok \in BOOLEAN : Note(ok)
    /\ alive' = {} /\ UNCHANGED <<mode, calls, strays, excused>>

\* Its output cannot be logged: the call fails and the process goes on.
CommandLogFails ==
    /\ pc = "command"
    /\ excused' = TRUE
    /\ Note(FALSE) /\ Leave
    /\ UNCHANGED <<mode, calls>>

\* Its log is written last.
TestEnds ==
    /\ pc = "test"
    /\ \E ok \in BOOLEAN : Note(ok)
    /\ alive' = {} /\ UNCHANGED <<mode, calls, strays, excused>>

-----------------------------------------------------------------------------
(* Ending a process: SIGTERM to its group, three seconds for the shell to  *)
(* exit, SIGKILL to the group.                                             *)

Terminate(where) ==
    /\ pc' = where
    /\ alive' \in {alive, {}}
    /\ UNCHANGED <<mode, round, batch, taint, leads, granted, outcome, results,
                   strays, excused, calls>>

TestTimesOut == pc = "test" /\ Terminate("endTest")

\* The shell is not waited for.
Ended_AtOnce ==
    /\ pc \in Ending
    /\ IF pc = "endTest" THEN Note(TRUE) /\ Leave /\ UNCHANGED <<mode, calls>>
       ELSE EndWith("raised")
    /\ UNCHANGED excused

\* The shell exits late of SIGTERM, or of SIGKILL when the three seconds are over.
Exits ==
    /\ pc \in Ending /\ alive # {}
    /\ alive' = {}
    /\ UNCHANGED <<mode, pc, round, batch, taint, leads, granted, outcome, results,
                   strays, excused, calls>>

\* The shell is gone: the test is over, or the call ends as cancelled.
Ended ==
    /\ pc \in Ending /\ alive = {}
    /\ IF pc = "endTest"
       THEN \E ok \in BOOLEAN : Note(ok) /\ UNCHANGED <<mode, calls, alive, strays>>
       ELSE EndWith("raised")
    /\ UNCHANGED excused

\* The log of the cancelled command cannot be written: the error takes the place
\* of the cancellation, and the call goes on with a failed tool.
EndedUnlogged ==
    /\ pc = "endCommand" /\ alive = {}
    /\ Note(FALSE)
    /\ UNCHANGED <<mode, calls, procVars>>

\* Stop or an interrupt cancels the call at any await. A command is ended first,
\* which a second one cuts short; a test goes on.
CancelCall ==
    /\ pc # "idle"
    /\ IF pc = "command" THEN Terminate("endCommand")
       ELSE /\ excused' = (excused \/ pc \in Ending)
            /\ EndWith("raised")

PmWork ==
    \/ ModelRaises \/ NoUse \/ SubmitPlan \/ FinalText \/ Evidence
    \/ PlainTool \/ Refused \/ RunCommand \/ Approved \/ NotApproved
    \/ AuditPasses \/ AuditBlocks \/ CommandEnds \/ CommandLogFails
    \/ RunTest \/ TestEnds \/ TestTimesOut
    \/ Exits \/ Ended \/ EndedUnlogged

PmNext ==
    \/ \E m \in {"plan", "text"} : BeginCall(m)
    \/ SimpleReply \/ PmWork \/ CancelCall

PmSpec == PmInit /\ [][PmNext]_pmVars

-----------------------------------------------------------------------------
(* Properties.                                                             *)

\* run_command starts no command unasked once the transcript holds web content,
\* be it from an earlier call of the same answer.
CommandAfterWebIsAsked ==
    pc = "command" /\ (\E i \in 1 .. Len(results) : BringsWeb(results[i].tool, results[i].ok))
        => "web" \in granted

\* Nor does any other tool start a shell: test_run does.
ShellAfterWebIsAsked ==
    pc \in Running /\ (\E i \in 1 .. Len(results) : BringsWeb(results[i].tool, results[i].ok))
        => "web" \in granted

\* A plan that leaves the tool loop rests on no search nobody followed up: after
\* the last search some local evidence or a fetched source was read.
PlanRestsOnEvidence ==
    outcome = "plan" =>
        \A i \in 1 .. Len(results) : results[i] = [tool |-> "search", ok |-> TRUE] =>
            \E j \in (i + 1) .. Len(results) : results[j].ok /\ results[j].tool \in Verifying

\* The shell of a command does not outlive the PM call, deaf to SIGTERM or not,
\* unless its output could not be logged or Stop came again while it was ended.
CommandDiesWithCall == "command" \in strays => excused

\* No process outlives the command or test that started it.
NoStrayProcess == strays = {}

\* Stop ends the call: what it was ending is not followed by another round.
StopEndsTheCall == [][pc = "endCommand" => pc' \in {"endCommand", "idle"}]_pmVars
=============================================================================
