---------------------------- MODULE PmCall_proofs -----------------------------
(***************************************************************************)
(* Proofs about a call of the PM, for any tools, rounds, answers and       *)
(* calls, and about a call of the model, for any messages of the line:     *)
(* their types and their safety properties.                                *)
(***************************************************************************)
EXTENDS PmCall, LlmCall, SequenceTheorems, TLAPS

-----------------------------------------------------------------------------
(* The PM's tool loop.                                                     *)

\* There is a tool call at hand whenever the call waits for one.
HasCall == pc \notin {"idle", "model"} => batch # <<>>

TypeInv == PmTypeOK /\ HasCall

(* The steps of a tool call that has come to its result, and the others.   *)
Results1 == PlainTool \/ Refused \/ NotApproved \/ AuditBlocks \/ CommandEnds
            \/ CommandLogFails \/ TestEnds \/ EndedUnlogged \/ (pc = "endTest" /\ Ended)

(* The steps of the signals.                                               *)
Signals == (pc \in Running /\ \E where \in Ending : Terminate(where)) \/ Exits

LEMMA ResultIsNoted ==
    ASSUME Results1
    PROVE  /\ pc \notin {"idle", "model"} /\ mode' = mode /\ calls' = calls
           /\ alive' \in {alive, {}} /\ strays' \in {strays, strays \cup alive}
           /\ excused' \in {excused, TRUE}
           /\ \E ok \in BOOLEAN : Note(ok)
BY DEF Results1, PlainTool, Refused, NotApproved, AuditBlocks, CommandEnds, CommandLogFails,
       TestEnds, EndedUnlogged, Ended, Leave, Asking, Ending, procVars

(* The calls of a batch that is not empty.                                 *)
LEMMA AtHand ==
    ASSUME TypeInv, pc \notin {"idle", "model"}
    PROVE  /\ Head(batch) \in Tools
           /\ Tail(batch) \in Seq(Tools) /\ Len(Tail(batch)) <= MaxBatch
BY PmAssumption DEF TypeInv, PmTypeOK, HasCall

-----------------------------------------------------------------------------
(* Types.                                                                  *)

LEMMA Beginnings ==
    /\ 1 \in 1 .. MaxRounds /\ 0 \in 0 .. MaxCalls
    /\ <<>> \in Seq(Tools) /\ Len(<<>>) = 0 /\ 0 <= MaxBatch /\ <<>> \in Seq(Results)
BY PmAssumption

LEMMA PmTypeInit == PmInit => TypeInv
<1> SUFFICES ASSUME PmInit PROVE TypeInv
  OBVIOUS
<1>1. batch \in Seq(Tools) /\ Len(batch) <= MaxBatch /\ results \in Seq(Results)
  BY Beginnings DEF PmInit
<1>2. round \in 1 .. MaxRounds /\ calls \in 0 .. MaxCalls
  BY Beginnings DEF PmInit
<1>3. mode \in {"plan", "text"} /\ pc \in Idle \cup Waits /\ outcome \in Outcomes /\ HasCall
  BY DEF PmInit, Idle, Outcomes, HasCall
<1>4. taint \in BOOLEAN /\ leads \in BOOLEAN /\ granted \subseteq {"web", "gate"}
      /\ alive \subseteq Running /\ strays \subseteq Running /\ excused \in BOOLEAN
  BY DEF PmInit
<1> QED BY <1>1, <1>2, <1>3, <1>4 DEF TypeInv, PmTypeOK

LEMMA RoundIsTyped ==
    ASSUME TypeInv, NextRound
    PROVE  round' \in 1 .. MaxRounds /\ pc' \in {"idle", "model"} /\ outcome' \in Outcomes
BY PmAssumption DEF TypeInv, PmTypeOK, NextRound, Outcomes

LEMMA PmTypeNext == TypeInv /\ [PmNext]_pmVars => TypeInv'
<1> SUFFICES ASSUME TypeInv, [PmNext]_pmVars PROVE TypeInv'
  OBVIOUS
<1> USE PmAssumption
<1>a. ASSUME calls < MaxCalls PROVE calls + 1 \in 0 .. MaxCalls
  BY <1>a DEF TypeInv, PmTypeOK
<1>1. ASSUME NEW m \in {"plan", "text"}, BeginCall(m) PROVE TypeInv'
  <2>1. results' \in Seq(Results) /\ round' \in 1 .. MaxRounds /\ calls' \in 0 .. MaxCalls
    BY <1>1, <1>a, Beginnings DEF BeginCall
  <2>2. pc' \in Idle \cup Waits /\ outcome' \in Outcomes /\ HasCall'
    BY <1>1 DEF BeginCall, Waits, Outcomes, HasCall
  <2>3. batch' = batch /\ granted' = granted /\ UNCHANGED procVars /\ mode' \in {"plan", "text"}
        /\ taint' \in BOOLEAN /\ leads' \in BOOLEAN
    BY <1>1 DEF BeginCall
  <2> QED BY <2>1, <2>2, <2>3 DEF TypeInv, PmTypeOK, procVars
<1>2. ASSUME SimpleReply PROVE TypeInv'
  <2>1. results' \in Seq(Results) /\ calls' \in 0 .. MaxCalls
    BY <1>2, <1>a, Beginnings DEF SimpleReply
  <2>2. outcome' \in Outcomes /\ mode' \in {"plan", "text"}
    BY <1>2 DEF SimpleReply, Outcomes
  <2>3. taint' \in BOOLEAN /\ leads' \in BOOLEAN /\ pc' = pc
        /\ UNCHANGED <<round, batch, granted, procVars>>
    BY <1>2 DEF SimpleReply
  <2> QED BY <2>1, <2>2, <2>3 DEF TypeInv, PmTypeOK, HasCall, procVars
<1>3. ASSUME NEW o \in Outcomes, EndWith(o), excused' \in BOOLEAN PROVE TypeInv'
  BY <1>3 DEF EndWith, Leave, TypeInv, PmTypeOK, HasCall, Idle, Running
<1>4. ASSUME NextRound, UNCHANGED <<mode, batch, taint, leads, granted, results, calls, procVars>>
      PROVE  TypeInv'
  BY <1>4, RoundIsTyped DEF procVars, TypeInv, PmTypeOK, HasCall, Idle, Waits
<1>5. ASSUME Evidence PROVE TypeInv'
  <2>1. PICK n \in 1 .. MaxBatch : batch' \in [1 .. n -> Tools]
    BY <1>5 DEF Evidence
  <2>2. batch' \in Seq(Tools) /\ Len(batch') = n /\ batch' # <<>>
    BY <2>1
  <2> QED BY <1>5, <2>2 DEF Evidence, procVars, TypeInv, PmTypeOK, HasCall, Idle, Waits
<1>6. ASSUME Results1 PROVE TypeInv'
  <2>1. PICK ok \in BOOLEAN : Note(ok)
    BY <1>6, ResultIsNoted
  <2>2. Head(batch) \in Tools /\ Tail(batch) \in Seq(Tools) /\ Len(Tail(batch)) <= MaxBatch
    BY <1>6, AtHand, ResultIsNoted
  <2>3. results' \in Seq(Results)
    <3>1. [tool |-> Head(batch), ok |-> ok] \in Results
      BY <2>2 DEF Results
    <3> QED BY <2>1, <3>1 DEF Note, TypeInv, PmTypeOK
  <2>4. taint' \in BOOLEAN /\ leads' \in BOOLEAN
    BY <2>1 DEF Note, TypeInv, PmTypeOK, BringsWeb, MayBringWeb, Leads
  <2>5. batch' = Tail(batch) /\ granted' = {}
    BY <2>1 DEF Note, GoOn
  <2>6. /\ pc' \in Idle \cup Waits /\ round' \in 1 .. MaxRounds /\ outcome' \in Outcomes
        /\ pc' \notin {"idle", "model"} => Tail(batch) # <<>>
    <3>1. CASE Tail(batch) = <<>>
      BY <2>1, <3>1, RoundIsTyped DEF Note, GoOn, Idle, Waits
    <3>2. CASE Tail(batch) # <<>>
      BY <2>1, <3>2 DEF Note, GoOn, TypeInv, PmTypeOK, Waits
    <3> QED BY <3>1, <3>2
  <2> QED BY <1>6, <2>2, <2>3, <2>4, <2>5, <2>6, ResultIsNoted
          DEF TypeInv, PmTypeOK, HasCall, Running
<1>7. ASSUME NEW what \in Waits \ {"model", "tool"}, pc' = what, CallKeeps,
             alive' \subseteq Running, granted' \subseteq granted \cup {"web", "gate"}, pc \notin {"idle", "model"}
      PROVE  TypeInv'
  BY <1>7 DEF CallKeeps, TypeInv, PmTypeOK, HasCall, Idle
<1>8. ASSUME RunCommand \/ Approved \/ AuditPasses \/ RunTest PROVE TypeInv'
  <2>3. ASSUME NEW what \in {"askWeb", "askGate", "audit"}, WaitFor(what)
        PROVE  /\ pc' \in Waits \ {"model", "tool"} /\ CallKeeps /\ alive' \subseteq Running
    BY <2>3 DEF WaitFor, Waits, Asking, TypeInv, PmTypeOK
  <2>4. ASSUME NEW tool \in Running, StartProcess(tool)
        PROVE  /\ pc' \in Waits \ {"model", "tool"} /\ CallKeeps /\ alive' \subseteq Running
    BY <2>4 DEF StartProcess, Waits, Running
  <2>1. pc' \in Waits \ {"model", "tool"} /\ CallKeeps /\ alive' \subseteq Running
    BY <1>8, <2>3, <2>4 DEF RunCommand, Approved, AuditPasses, RunTest, Classified, Running
  <2>2. granted' \subseteq granted \cup {"web", "gate"} /\ pc \notin {"idle", "model"}
    BY <1>8 DEF RunCommand, Approved, AuditPasses, RunTest, Asking
  <2> QED BY <1>7, <2>1, <2>2
<1>9. ASSUME UNCHANGED pmVars PROVE TypeInv'
  BY <1>9 DEF pmVars, procVars, TypeInv, PmTypeOK, HasCall
<1>10. ASSUME Signals PROVE TypeInv'
  <2>1. /\ alive' \in {alive, {}} /\ pc' \in Ending \cup {pc} /\ pc \in Running \cup Ending
        /\ UNCHANGED <<mode, round, batch, taint, leads, granted, outcome, results, strays, excused, calls>>
    BY <1>10 DEF Signals, Terminate, Exits
  <2> QED BY <2>1 DEF TypeInv, PmTypeOK, HasCall, Waits, Running, Ending
<1>11. ASSUME ModelRaises \/ SubmitPlan \/ FinalText \/ NoUse PROVE TypeInv'
  <2>1. CASE NoUse
    BY <2>1, <1>4 DEF NoUse
  <2>2. excused' = excused \/ NoUse
    BY <1>11 DEF ModelRaises, SubmitPlan, FinalText
  <2>3. \/ \E o \in Outcomes : EndWith(o)
        \/ NextRound /\ UNCHANGED <<mode, batch, taint, leads, granted, results, calls, alive, strays>>
        \/ NoUse
    BY <1>11 DEF ModelRaises, SubmitPlan, FinalText, Outcomes
  <2> QED BY <2>1, <2>2, <2>3, <1>3, <1>4 DEF procVars, TypeInv, PmTypeOK
<1>12. ASSUME CancelCall \/ Ended PROVE TypeInv' \/ Signals \/ Results1
  <2>1. ASSUME CancelCall, pc = "command" PROVE Signals
    BY <2>1 DEF CancelCall, Signals, Running, Ending
  <2>2. ASSUME CancelCall, pc # "command" PROVE TypeInv'
    <3>1. excused' \in BOOLEAN /\ EndWith("raised")
      BY <2>2 DEF CancelCall, TypeInv, PmTypeOK
    <3> QED BY <3>1, <1>3 DEF Outcomes
  <2>3. ASSUME Ended, pc # "endTest" PROVE TypeInv'
    BY <2>3, <1>3 DEF Ended, TypeInv, PmTypeOK, Outcomes
  <2> QED BY <1>12, <2>1, <2>2, <2>3 DEF Results1
<1>13. ASSUME PmNext
       PROVE  \/ \E m \in {"plan", "text"} : BeginCall(m)
              \/ SimpleReply \/ Evidence \/ Results1
              \/ RunCommand \/ Approved \/ AuditPasses \/ RunTest
              \/ Signals \/ ModelRaises \/ SubmitPlan \/ FinalText \/ NoUse
              \/ CancelCall \/ Ended
  BY <1>13 DEF PmNext, PmWork, Results1, Signals, TestTimesOut, Running, Ending
<1> QED BY <1>1, <1>2, <1>5, <1>6, <1>8, <1>9, <1>10, <1>11, <1>12, <1>13

\* PmTypeOK (the model's types; mode, pc, round, batch and outcome are the code's
\* locals) holds for any tools, rounds, batches and calls.
THEOREM PmTypeCorrect == PmSpec => []PmTypeOK
<1>1. TypeInv => PmTypeOK
  BY DEF TypeInv
<1> QED BY PmTypeInit, PmTypeNext, <1>1, PTL DEF PmSpec

-----------------------------------------------------------------------------
(* Web content and the owner's word.                                       *)

WebIsNoted ==
    (\E i \in 1 .. Len(results) : BringsWeb(results[i].tool, results[i].ok)) => taint
PastTheOwner == pc \in {"audit", "askGate", "command"} /\ taint => "web" \in granted

WebInv == TypeInv /\ WebIsNoted /\ PastTheOwner

LEMMA WebInit == PmInit => WebInv
<1> SUFFICES ASSUME PmInit PROVE WebInv
  OBVIOUS
<1>1. WebIsNoted
  BY DEF PmInit, WebIsNoted
<1>2. PastTheOwner
  BY DEF PmInit, PastTheOwner
<1> QED BY <1>1, <1>2, PmTypeInit DEF WebInv

(* A result leaves web content noted, and waits for no command.            *)
LEMMA NoteKeepsWeb ==
    ASSUME WebInv, pc \notin {"idle", "model"}, NEW ok \in BOOLEAN, Note(ok)
    PROVE  WebIsNoted' /\ PastTheOwner'
<1>1. results \in Seq(Results) /\ taint \in BOOLEAN
  BY DEF WebInv, TypeInv, PmTypeOK
<1>2. [tool |-> Head(batch), ok |-> ok] \in Results
  <2>1. Head(batch) \in Tools
    BY AtHand DEF WebInv
  <2> QED BY <2>1, PmAssumption DEF Results
<1>3. WebIsNoted'
  <2> SUFFICES ASSUME NEW i \in 1 .. Len(results'),
                      BringsWeb(results'[i].tool, results'[i].ok)
               PROVE  taint'
    BY DEF WebIsNoted, BringsWeb
  <2>1. results' = Append(results, [tool |-> Head(batch), ok |-> ok])
    BY DEF Note
  <2>2. CASE i = Len(results) + 1
    <3>1. results'[i] = [tool |-> Head(batch), ok |-> ok]
      BY <1>1, <2>1, <2>2
    <3>2. BringsWeb(Head(batch), ok)
      BY <3>1
    <3> QED BY <3>2, <1>1 DEF Note, MayBringWeb
  <2>3. CASE i # Len(results) + 1
    <3>1. i \in 1 .. Len(results) /\ results'[i] = results[i]
      BY <1>1, <1>2, <2>1, <2>3
    <3>2. taint
      BY <3>1 DEF WebInv, WebIsNoted
    <3> QED BY <3>2, <1>1 DEF Note
  <2> QED BY <2>2, <2>3
<1>4. pc' \in {"idle", "model", "tool"}
  BY DEF Note, GoOn, NextRound
<1> QED BY <1>3, <1>4 DEF PastTheOwner

LEMMA WebNext == WebInv /\ [PmNext]_pmVars => WebInv'
<1> SUFFICES ASSUME WebInv, [PmNext]_pmVars PROVE WebIsNoted' /\ PastTheOwner'
  BY PmTypeNext DEF WebInv
<1>1. ASSUME NEW m \in {"plan", "text"}, BeginCall(m) PROVE WebIsNoted' /\ PastTheOwner'
  BY <1>1 DEF BeginCall, WebIsNoted, PastTheOwner
<1>2. ASSUME SimpleReply PROVE WebIsNoted' /\ PastTheOwner'
  BY <1>2 DEF SimpleReply, WebIsNoted, PastTheOwner
<1>3. ASSUME UNCHANGED <<taint, results>>,
             pc' \in {"idle", "model", "tool", "test", "askWeb"} \cup Ending
      PROVE  WebIsNoted' /\ PastTheOwner'
  BY <1>3 DEF WebInv, WebIsNoted, PastTheOwner, BringsWeb, Ending
<1>4. ASSUME ModelRaises \/ NoUse \/ SubmitPlan \/ FinalText \/ Evidence \/ RunTest \/ CancelCall
             \/ TestTimesOut \/ Exits \/ (pc # "endTest" /\ Ended)
      PROVE  WebIsNoted' /\ PastTheOwner'
  <2>1. UNCHANGED <<taint, results>>
        /\ pc' \in {"idle", "model", "tool", "test", "askWeb"} \cup Ending
    BY <1>4 DEF ModelRaises, NoUse, SubmitPlan, FinalText, Evidence, RunTest, CancelCall,
                TestTimesOut, Terminate, Exits, Ended, Ending,
                EndWith, NextRound, StartProcess, CallKeeps
  <2> QED BY <2>1, <1>3
<1>5. ASSUME Results1 PROVE WebIsNoted' /\ PastTheOwner'
  BY <1>5, ResultIsNoted, NoteKeepsWeb
<1>6. ASSUME RunCommand PROVE WebIsNoted' /\ PastTheOwner'
  <2>1. CASE taint
    <3>1. UNCHANGED <<taint, results>> /\ pc' = "askWeb"
      BY <1>6, <2>1 DEF RunCommand, WaitFor, CallKeeps
    <3> QED BY <3>1, <1>3
  <2>2. CASE ~taint
    BY <1>6, <2>2 DEF RunCommand, Classified, WaitFor, StartProcess, CallKeeps, WebInv, WebIsNoted, PastTheOwner, BringsWeb
  <2> QED BY <2>1, <2>2
<1>7. ASSUME Approved PROVE WebIsNoted' /\ PastTheOwner'
  <2>1. UNCHANGED <<taint, results>>
    BY <1>7 DEF Approved, Classified, WaitFor, StartProcess, CallKeeps
  <2>2. CASE pc = "askWeb"
    <3>1. "web" \in granted'
      BY <1>7, <2>2 DEF Approved
    <3> QED BY <2>1, <3>1 DEF WebInv, WebIsNoted, PastTheOwner, BringsWeb
  <2>3. CASE pc = "askGate"
    <3>1. granted' = granted \cup {"gate"} /\ (taint => "web" \in granted)
      BY <1>7, <2>3 DEF Approved, WebInv, PastTheOwner
    <3> QED BY <2>1, <3>1 DEF WebInv, WebIsNoted, PastTheOwner, BringsWeb
  <2> QED BY <1>7, <2>2, <2>3 DEF Approved, Asking
<1>8. ASSUME AuditPasses PROVE WebIsNoted' /\ PastTheOwner'
  BY <1>8 DEF AuditPasses, StartProcess, CallKeeps, WebInv, WebIsNoted, PastTheOwner, BringsWeb
<1>9. ASSUME UNCHANGED pmVars PROVE WebIsNoted' /\ PastTheOwner'
  BY <1>9 DEF pmVars, WebInv, WebIsNoted, PastTheOwner, BringsWeb
<1> QED BY <1>1, <1>2, <1>4, <1>5, <1>6, <1>7, <1>8, <1>9 DEF PmNext, PmWork, Results1

\* CommandAfterWebIsAsked (the taint check of PMToolRuntime._run_command, which
\* _test_run has not), for any tools, rounds, batches and calls: what brought web
\* content was noted before the next tool call is looked at, and no way to a
\* command of run_command that starts with the note set avoids the owner.
THEOREM WebCommandsAreAsked == PmSpec => []CommandAfterWebIsAsked
<1>1. WebInv => CommandAfterWebIsAsked
  BY DEF WebInv, WebIsNoted, PastTheOwner, CommandAfterWebIsAsked
<1> QED BY WebInit, WebNext, <1>1, PTL DEF PmSpec

-----------------------------------------------------------------------------
(* Plans and the leads they rest on.                                       *)

\* Every successful search was followed by something that verifies it.
FollowedUp(s) ==
    \A i \in 1 .. Len(s) : s[i] = [tool |-> "search", ok |-> TRUE] =>
        \E j \in (i + 1) .. Len(s) : s[j].ok /\ s[j].tool \in Verifying

OpenLeads == mode = "plan" /\ ~leads => FollowedUp(results)
NotYet == pc # "idle" => outcome = "none"
PlanIsBacked == outcome = "plan" => FollowedUp(results)

LeadsInv == TypeInv /\ OpenLeads /\ NotYet /\ PlanIsBacked

(* What one more result does to the leads.                                 *)
LEMMA OneMore ==
    ASSUME NEW s \in Seq(Results), NEW e \in Results, NEW before \in BOOLEAN,
           ~before => FollowedUp(s), ~Leads(e.tool, e.ok, before)
    PROVE  FollowedUp(Append(s, e))
<1> DEFINE t == Append(s, e)
           n == Len(s) + 1
<1>1. t \in Seq(Results) /\ Len(t) = n /\ t[n] = e /\ \A i \in 1 .. Len(s) : t[i] = s[i]
  OBVIOUS
<1>2. e # [tool |-> "search", ok |-> TRUE]
  BY DEF Leads
<1>3. CASE e.ok /\ e.tool \in Verifying
  <2>1. \A i \in 1 .. n : t[i] = [tool |-> "search", ok |-> TRUE] => i < n
    BY <1>1, <1>2
  <2> QED BY <1>1, <1>3, <2>1 DEF FollowedUp
<1>4. CASE ~(e.ok /\ e.tool \in Verifying)
  <2>1. FollowedUp(s)
    BY <1>4 DEF Leads
  <2> SUFFICES ASSUME NEW i \in 1 .. n, t[i] = [tool |-> "search", ok |-> TRUE]
               PROVE  \E j \in (i + 1) .. n : t[j].ok /\ t[j].tool \in Verifying
    BY <1>1 DEF FollowedUp
  <2>2. i \in 1 .. Len(s) /\ s[i] = [tool |-> "search", ok |-> TRUE]
    BY <1>1, <1>2
  <2>3. PICK j \in (i + 1) .. Len(s) : s[j].ok /\ s[j].tool \in Verifying
    BY <2>1, <2>2 DEF FollowedUp
  <2>4. j \in (i + 1) .. n /\ t[j] = s[j]
    BY <1>1, <2>2
  <2> QED BY <2>3, <2>4
<1> QED BY <1>3, <1>4

LEMMA LeadsInit == PmInit => LeadsInv
<1> SUFFICES ASSUME PmInit PROVE LeadsInv
  OBVIOUS
<1>1. OpenLeads /\ NotYet /\ PlanIsBacked
  BY DEF PmInit, OpenLeads, NotYet, PlanIsBacked, FollowedUp
<1> QED BY <1>1, PmTypeInit DEF LeadsInv

LEMMA NoteKeepsLeads ==
    ASSUME LeadsInv, pc \notin {"idle", "model"}, mode' = mode, NEW ok \in BOOLEAN, Note(ok)
    PROVE  OpenLeads' /\ NotYet' /\ PlanIsBacked'
<1> DEFINE e == [tool |-> Head(batch), ok |-> ok]
<1>1. results \in Seq(Results) /\ leads \in BOOLEAN /\ e \in Results
  <2>1. Head(batch) \in Tools
    BY AtHand DEF LeadsInv
  <2> QED BY <2>1, PmAssumption DEF LeadsInv, TypeInv, PmTypeOK, Results
<1>2. results' = Append(results, e) /\ e.tool = Head(batch) /\ e.ok = ok
  BY DEF Note
<1>3. OpenLeads'
  <2> SUFFICES ASSUME mode' = "plan", ~leads' PROVE FollowedUp(results')
    BY DEF OpenLeads, FollowedUp
  <2>1. ~Leads(e.tool, e.ok, leads)
    BY <1>2 DEF Note
  <2>2. ~leads => FollowedUp(results)
    BY DEF LeadsInv, OpenLeads
  <2> QED BY <1>1, <1>2, <2>1, <2>2, OneMore
<1>4. outcome = "none"
  BY DEF LeadsInv, NotYet
<1> QED BY <1>3, <1>4 DEF Note, GoOn, NextRound, NotYet, PlanIsBacked

LEMMA LeadsNext == LeadsInv /\ [PmNext]_pmVars => LeadsInv'
<1> SUFFICES ASSUME LeadsInv, [PmNext]_pmVars PROVE OpenLeads' /\ NotYet' /\ PlanIsBacked'
  BY PmTypeNext DEF LeadsInv
<1>1. ASSUME NEW m \in {"plan", "text"}, BeginCall(m)
      PROVE  OpenLeads' /\ NotYet' /\ PlanIsBacked'
  BY <1>1 DEF BeginCall, OpenLeads, NotYet, PlanIsBacked, FollowedUp
<1>2. ASSUME SimpleReply PROVE OpenLeads' /\ NotYet' /\ PlanIsBacked'
  BY <1>2 DEF SimpleReply, OpenLeads, NotYet, PlanIsBacked, FollowedUp, LeadsInv
<1>3. ASSUME UNCHANGED <<mode, leads, results>>, pc # "idle",
             \/ outcome' = outcome
             \/ pc' = "idle" /\ outcome' # "plan"
             \/ pc' = "idle" /\ mode = "plan" /\ ~leads
      PROVE  OpenLeads' /\ NotYet' /\ PlanIsBacked'
  BY <1>3 DEF LeadsInv, OpenLeads, NotYet, PlanIsBacked, FollowedUp
<1>4. ASSUME ModelRaises \/ NoUse \/ SubmitPlan \/ FinalText \/ Evidence \/ RunTest \/ CancelCall
             \/ RunCommand \/ Approved \/ AuditPasses
             \/ TestTimesOut \/ Exits \/ (pc # "endTest" /\ Ended)
      PROVE  OpenLeads' /\ NotYet' /\ PlanIsBacked'
  <2>1. UNCHANGED <<mode, leads, results>> /\ pc # "idle"
    BY <1>4 DEF ModelRaises, NoUse, SubmitPlan, FinalText, Evidence, RunTest, CancelCall,
                RunCommand, Approved, AuditPasses, EndWith, Classified, WaitFor, StartProcess,
                CallKeeps, TestTimesOut, Terminate, Exits, Ended, Asking, Ending
  <2>2. \/ outcome' = outcome
        \/ pc' = "idle" /\ outcome' # "plan"
        \/ pc' = "idle" /\ mode = "plan" /\ ~leads
    BY <1>4 DEF ModelRaises, NoUse, SubmitPlan, FinalText, Evidence, RunTest, CancelCall,
                RunCommand, Approved, AuditPasses, EndWith, NextRound, Classified, WaitFor,
                StartProcess, CallKeeps, TestTimesOut, Terminate, Exits, Ended
  <2> QED BY <1>3, <2>1, <2>2
<1>5. ASSUME Results1 PROVE OpenLeads' /\ NotYet' /\ PlanIsBacked'
  BY <1>5, ResultIsNoted, NoteKeepsLeads
<1>6. ASSUME UNCHANGED pmVars PROVE OpenLeads' /\ NotYet' /\ PlanIsBacked'
  BY <1>6 DEF pmVars, LeadsInv, OpenLeads, NotYet, PlanIsBacked, FollowedUp
<1> QED BY <1>1, <1>2, <1>4, <1>5, <1>6 DEF PmNext, PmWork, Results1

\* PlanRestsOnEvidence (_run_pm_tool_loop refuses a plan while leads are open),
\* for any tools, rounds, batches and calls.
THEOREM PlansAreBacked == PmSpec => []PlanRestsOnEvidence
<1>1. LeadsInv => PlanRestsOnEvidence
  BY DEF LeadsInv, PlanIsBacked, FollowedUp, PlanRestsOnEvidence
<1> QED BY LeadsInit, LeadsNext, <1>1, PTL DEF PmSpec

-----------------------------------------------------------------------------
(* Processes and the calls that started them.                              *)

\* A shell is alive only while its own tool call waits for it or ends it.
OwnShell ==
    /\ alive \subseteq {"command"} \cup {"test"}
    /\ "command" \in alive => pc \in {"command", "endCommand"}

ProcessInv == TypeInv /\ OwnShell /\ CommandDiesWithCall

LEMMA ProcessInit == PmInit => ProcessInv
<1> SUFFICES ASSUME PmInit PROVE ProcessInv
  OBVIOUS
<1>1. OwnShell /\ CommandDiesWithCall
  BY DEF PmInit, OwnShell, CommandDiesWithCall
<1> QED BY <1>1, PmTypeInit DEF ProcessInv

LEMMA ProcessNext == ProcessInv /\ [PmNext]_pmVars => ProcessInv'
<1> SUFFICES ASSUME ProcessInv, [PmNext]_pmVars PROVE OwnShell' /\ CommandDiesWithCall'
  BY PmTypeNext DEF ProcessInv
<1>0. excused \in BOOLEAN /\ OwnShell /\ CommandDiesWithCall
  BY DEF ProcessInv, TypeInv, PmTypeOK
<1>1. ASSUME UNCHANGED procVars, pc' = pc \/ pc \notin {"command", "endCommand"}
      PROVE  OwnShell' /\ CommandDiesWithCall'
  BY <1>0, <1>1 DEF procVars, OwnShell, CommandDiesWithCall
<1>2. ASSUME alive' = {}, strays' = strays \/ (strays' = strays \cup alive /\ (excused' \/ "command" \notin alive)),
             excused => excused'
      PROVE  OwnShell' /\ CommandDiesWithCall'
  BY <1>0, <1>2 DEF OwnShell, CommandDiesWithCall
<1>3. ASSUME NEW tool \in Running, StartProcess(tool) PROVE OwnShell' /\ CommandDiesWithCall'
  BY <1>0, <1>3 DEF StartProcess, CallKeeps, Running, OwnShell, CommandDiesWithCall
<1>4. ASSUME NEW m \in {"plan", "text"}, BeginCall(m) PROVE OwnShell' /\ CommandDiesWithCall'
  BY <1>4, <1>1 DEF BeginCall
<1>5. ASSUME SimpleReply \/ NoUse \/ Evidence \/ PlainTool \/ Refused \/ NotApproved \/ AuditBlocks
      PROVE  OwnShell' /\ CommandDiesWithCall'
  <2>1. UNCHANGED procVars /\ (pc' = pc \/ pc \notin {"command", "endCommand"})
    BY <1>5 DEF SimpleReply, NoUse, Evidence, PlainTool, Refused, NotApproved, AuditBlocks, Asking
  <2> QED BY <2>1, <1>1
<1>6. ASSUME ModelRaises \/ SubmitPlan \/ FinalText PROVE OwnShell' /\ CommandDiesWithCall'
  <2>1. /\ "command" \notin alive /\ excused' = excused /\ pc = "model"
        /\ (Leave \/ (UNCHANGED <<alive, strays>>))
    BY <1>0, <1>6 DEF ModelRaises, SubmitPlan, FinalText, EndWith, OwnShell
  <2> QED BY <2>1, <1>1, <1>2 DEF Leave, procVars
<1>7. ASSUME RunCommand \/ Approved \/ AuditPasses \/ RunTest PROVE OwnShell' /\ CommandDiesWithCall'
  <2>1. \/ \E tool \in Running : StartProcess(tool)
        \/ UNCHANGED procVars /\ pc \notin {"command", "endCommand"}
    BY <1>7 DEF RunCommand, Approved, AuditPasses, RunTest, Classified, WaitFor, CallKeeps,
                procVars, Running, Asking
  <2> QED BY <2>1, <1>1, <1>3
<1>8. ASSUME CommandEnds \/ TestEnds PROVE OwnShell' /\ CommandDiesWithCall'
  BY <1>2, <1>8 DEF CommandEnds, TestEnds
<1>9. ASSUME CommandLogFails PROVE OwnShell' /\ CommandDiesWithCall'
  BY <1>2, <1>9 DEF CommandLogFails, Leave
<1>10. ASSUME TestTimesOut \/ Exits \/ (CancelCall /\ pc = "command")
       PROVE  OwnShell' /\ CommandDiesWithCall'
  <2>1. alive' \in {alive, {}} /\ strays' = strays /\ excused' = excused
    BY <1>10 DEF TestTimesOut, Exits, CancelCall, Terminate
  <2>2. pc' = pc \/ pc' = "endCommand" \/ (pc = "test" /\ pc' = "endTest")
    BY <1>10 DEF TestTimesOut, Exits, CancelCall, Terminate
  <2> QED BY <1>0, <2>1, <2>2 DEF OwnShell, CommandDiesWithCall
<1>11. ASSUME Ended \/ EndedUnlogged PROVE OwnShell' /\ CommandDiesWithCall'
  <2>1. alive = {} /\ alive' = {} /\ strays' = strays /\ excused' = excused
    BY <1>11 DEF Ended, EndedUnlogged, EndWith, Leave, procVars
  <2> QED BY <2>1, <1>2
<1>12. ASSUME CancelCall, pc # "command" PROVE OwnShell' /\ CommandDiesWithCall'
  <2>1. /\ alive' = {} /\ strays' = strays \cup alive
        /\ excused' = (excused \/ pc \in Ending)
    BY <1>12 DEF CancelCall, EndWith, Leave
  <2>2. "command" \in alive => pc \in Ending
    BY <1>0, <1>12 DEF OwnShell, Ending
  <2> QED BY <1>0, <2>1, <2>2, <1>2
<1>13. ASSUME UNCHANGED pmVars PROVE OwnShell' /\ CommandDiesWithCall'
  BY <1>1, <1>13 DEF pmVars
<1> QED BY <1>4, <1>5, <1>6, <1>7, <1>8, <1>9, <1>10, <1>11, <1>12, <1>13 DEF PmNext, PmWork

\* CommandDiesWithCall (_run_streaming_command and _terminate_process): a shell
\* that Stop finds at work is waited for until it has exited, of SIGTERM or of
\* SIGKILL, for any tools, rounds, answers and calls.
THEOREM CommandsDieWithTheirCall == PmSpec => []CommandDiesWithCall
<1>1. ProcessInv => CommandDiesWithCall
  BY DEF ProcessInv
<1> QED BY ProcessInit, ProcessNext, <1>1, PTL DEF PmSpec

-----------------------------------------------------------------------------
(* A call of the model.                                                    *)

\* A response that is lost is asked for again once.
RetriedOnce == turns \in 0 .. 2 /\ (sentKnown => turns \in 0 .. 1)

\* What was taken early stays as it was taken until the next request.
EarlyIsOver == early => line = "idle"

LlmInv == LlmTypeOK /\ EarlyIsOver /\ RetriedOnce

-----------------------------------------------------------------------------
(* The calls of an answer.                                                 *)

LEMMA Widened ==
    ASSUME NEW A, NEW B, NEW C, B \subseteq C, NEW f \in [A -> B]
    PROVE  f \in [A -> C]
OBVIOUS

LEMMA CallIsTyped ==
    ASSUME LlmTypeOK, NEW i \in Mentioned
    PROVE  Call(i) \in Calls
<1>1. NoCall \in Calls
  BY DEF NoCall, Calls, Arguments
<1> HIDE DEF Calls, NoCall
<1>2. items \in Seq(Calls) /\ Len(items) \in Nat /\ i \in Nat /\ 1 <= i
  BY CallAssumption DEF LlmTypeOK, Mentioned
<1>3. CASE i <= Len(items)
  BY <1>2, <1>3 DEF Call
<1>4. CASE ~(i <= Len(items))
  BY <1>1, <1>4 DEF Call
<1> QED BY <1>3, <1>4

LEMMA PutIsTyped ==
    ASSUME LlmTypeOK, NEW i \in Mentioned, NEW call \in Calls, Put(i, call)
    PROVE  items' \in Seq(Calls) /\ Len(items') <= MaxItems
<1> HIDE DEF Calls
<1>1. /\ items \in Seq(Calls) /\ Len(items) \in Nat /\ Len(items) <= MaxItems
      /\ i \in 1 .. MaxItems /\ i <= Len(items) + 1 /\ MaxItems \in Nat
  BY CallAssumption DEF LlmTypeOK, Mentioned
<1>2. CASE i <= Len(items)
  BY <1>1, <1>2 DEF Put
<1>3. CASE ~(i <= Len(items))
  BY <1>1, <1>3 DEF Put
<1> QED BY <1>2, <1>3

LEMMA TellIsTyped ==
    ASSUME LlmTypeOK, NEW i \in Mentioned, Tell(i)
    PROVE  items' \in Seq(Calls) /\ Len(items') <= MaxItems
<1> PICK named \in BOOLEAN, a \in {"none", "wrong", "empty", "whole"} :
       Put(i, [named |-> Call(i).named \/ named, args |-> IF a = "none" THEN Call(i).args ELSE a])
  BY DEF Tell
<1>1. [named |-> Call(i).named \/ named, args |-> IF a = "none" THEN Call(i).args ELSE a] \in Calls
  <2>1. Call(i).named \in BOOLEAN /\ Call(i).args \in Arguments
    BY CallIsTyped DEF Calls
  <2>2. (Call(i).named \/ named) \in BOOLEAN
    BY <2>1
  <2>3. (IF a = "none" THEN Call(i).args ELSE a) \in Arguments
    BY <2>1 DEF Arguments
  <2> HIDE DEF Arguments
  <2> QED BY <2>2, <2>3 DEF Calls
<1> QED BY <1>1, PutIsTyped

-----------------------------------------------------------------------------
(* The steps.                                                              *)

LEMMA LlmInitial == LlmInit => LlmInv
<1> SUFFICES ASSUME LlmInit PROVE LlmInv
  OBVIOUS
<1>1. /\ line = "idle" /\ now = 0 /\ quietSince = 0 /\ items = <<>> /\ objects = "none"
      /\ known = FALSE /\ sentKnown = FALSE /\ answer = "none" /\ turns = 0 /\ requests = 0 /\ early = FALSE
  BY DEF LlmInit
<1>2. LlmTypeOK
  <2>1. items \in Seq(Calls) /\ Len(items) = 0 /\ 0 <= MaxItems
    BY <1>1, CallAssumption
  <2>2. quietSince \in 0 .. now /\ now \in Nat /\ requests \in 0 .. MaxRequests /\ turns \in 0 .. 2
    BY <1>1, CallAssumption
  <2> QED BY <1>1, <2>1, <2>2 DEF LlmTypeOK, Lines, Answers
<1>3. EarlyIsOver /\ RetriedOnce
  BY <1>1 DEF EarlyIsOver, RetriedOnce, OnSocket
<1> QED BY <1>2, <1>3 DEF LlmInv

\* A request begins with nothing.
LEMMA AskKeeps ==
    ASSUME LlmInv, AskText \/ AskTools \/ AskRefused \/ AskHttp(TRUE) \/ AskHttp(FALSE)
    PROVE  LlmInv'
<1>1. /\ now' = 0 /\ quietSince' = 0 /\ items' = <<>> /\ objects' = "none"
      /\ early' = FALSE /\ turns' = 1 /\ sentKnown' \in BOOLEAN /\ known' = known
      /\ line' \in Lines /\ answer' \in Answers
      /\ requests' = requests + 1 /\ requests < MaxRequests
  <2>1. known \in BOOLEAN
    BY DEF LlmInv, LlmTypeOK
  <2>2. CASE AskText
    BY <2>1, <2>2 DEF AskText, Fresh, Lines, Answers
  <2>3. CASE AskTools
    BY <2>3 DEF AskTools, Fresh, Lines, Answers
  <2>4. CASE AskRefused
    BY <2>4 DEF AskRefused, Fresh, Return, Lines, Answers
  <2>5. ASSUME NEW streamed \in BOOLEAN, AskHttp(streamed)
        PROVE  /\ Fresh /\ early' = FALSE /\ turns' = 1 /\ sentKnown' = FALSE /\ known' = known
               /\ line' \in Lines /\ answer' \in Answers
               /\ requests' = requests + 1 /\ requests < MaxRequests
    BY <2>5 DEF AskHttp, Lines, Answers
  <2> QED BY <2>2, <2>3, <2>4, <2>5 DEF Fresh
<1>2. LlmTypeOK'
  <2>1. items' \in Seq(Calls) /\ Len(items') = 0 /\ 0 <= MaxItems
    BY <1>1, CallAssumption
  <2>2. quietSince' \in 0 .. now' /\ now' \in Nat /\ requests' \in 0 .. MaxRequests /\ turns' \in 0 .. 2
    BY <1>1, CallAssumption DEF LlmInv, LlmTypeOK
  <2> QED BY <1>1, <2>1, <2>2 DEF LlmInv, LlmTypeOK
<1>3. EarlyIsOver' /\ RetriedOnce'
  BY <1>1 DEF EarlyIsOver, RetriedOnce
<1> QED BY <1>2, <1>3 DEF LlmInv

\* A frame that says nothing of a call.
LEMMA TimeKeeps ==
    ASSUME LlmInv, Tick \/ Created \/ TextDelta \/ Noise
    PROVE  LlmInv'
<1>1. /\ UNCHANGED <<line, items, known, sentKnown, answer, turns, requests, early>>
      /\ objects' \in {"none", "open", "one"}
      /\ now' \in Nat /\ quietSince' \in 0 .. now'
  BY DEF Tick, Created, TextDelta, Noise, FrameKeeps, Progress, LlmInv, LlmTypeOK
<1>2. LlmTypeOK'
  BY <1>1 DEF LlmInv, LlmTypeOK
<1>3. EarlyIsOver' /\ RetriedOnce'
  BY <1>1 DEF LlmInv, EarlyIsOver, RetriedOnce, OnSocket
<1> QED BY <1>2, <1>3 DEF LlmInv

\* The end of a request leaves what has come as it is.
LEMMA ReturnKeeps ==
    ASSUME LlmInv, GiveUp \/ TextRepeats \/ Completed \/ SocketFails \/ StreamEnds \/ HttpFails
    PROVE  LlmInv'
<1>1. /\ UNCHANGED <<now, quietSince, items, objects, sentKnown, turns, requests, early>>
      /\ line' = "idle" /\ line # "idle" /\ answer' \in Answers /\ known' \in BOOLEAN
  BY DEF GiveUp, TextRepeats, Completed, SocketFails, StreamEnds, HttpFails, Return, Answers,
         Receiving, OnSocket, LlmInv, LlmTypeOK
<1>2. LlmTypeOK'
  BY <1>1 DEF LlmInv, LlmTypeOK, Lines
<1>3. EarlyIsOver' /\ RetriedOnce'
  BY <1>1 DEF LlmInv, EarlyIsOver, RetriedOnce, OnSocket
<1> QED BY <1>2, <1>3 DEF LlmInv

LEMMA CallsKeep ==
    ASSUME LlmInv, CallBegins \/ ArgumentsDelta
    PROVE  LlmInv'
<1>0. /\ UNCHANGED <<line, now, known, sentKnown, answer, turns, requests, early, objects>>
      /\ quietSince' = now
  BY DEF CallBegins, ArgumentsDelta, Progress, FrameKeeps
<1>1. items' \in Seq(Calls) /\ Len(items') <= MaxItems
  <2>1. CASE CallBegins
    BY <2>1, TellIsTyped DEF CallBegins, LlmInv
  <2>2. CASE ArgumentsDelta
    <3>1. PICK i \in Mentioned, a \in {"part", "empty", "whole"} : Put(i, [Call(i) EXCEPT !.args = a])
      BY <2>2 DEF ArgumentsDelta
    <3>2. [Call(i) EXCEPT !.args = a] \in Calls
      BY CallIsTyped DEF Calls, Arguments, LlmInv
    <3> QED BY <3>1, <3>2, PutIsTyped DEF LlmInv
  <2> QED BY <2>1, <2>2
<1>2. LlmTypeOK'
  BY <1>0, <1>1 DEF LlmInv, LlmTypeOK
<1>3. EarlyIsOver' /\ RetriedOnce'
  BY <1>0 DEF LlmInv, EarlyIsOver, RetriedOnce
<1> QED BY <1>2, <1>3 DEF LlmInv

LEMMA DoneKeeps ==
    ASSUME LlmInv, CallDone
    PROVE  LlmInv'
<1>0. UNCHANGED <<now, objects, known, sentKnown, turns, requests>> /\ ~early
  BY DEF CallDone, Receiving, OnSocket, LlmInv, EarlyIsOver
<1>1. items' \in Seq(Calls) /\ Len(items') <= MaxItems
  BY TellIsTyped DEF CallDone, LlmInv
<1>2. CASE line = "tools" /\ Ready(items')
  <2>1. line' = "idle" /\ answer' = "calls" /\ early' = TRUE /\ quietSince' = quietSince
    BY <1>2 DEF CallDone, Return
  <2>2. LlmTypeOK'
    BY <1>0, <1>1, <2>1 DEF LlmInv, LlmTypeOK, Lines, Answers
  <2> QED BY <1>0, <2>1, <2>2 DEF LlmInv, EarlyIsOver, RetriedOnce
<1>3. CASE ~(line = "tools" /\ Ready(items'))
  <2>1. UNCHANGED <<line, answer, early>> /\ quietSince' = now
    BY <1>3 DEF CallDone, Progress
  <2>2. LlmTypeOK'
    BY <1>0, <1>1, <2>1 DEF LlmInv, LlmTypeOK
  <2> QED BY <1>0, <2>1, <2>2 DEF LlmInv, EarlyIsOver, RetriedOnce
<1> QED BY <1>2, <1>3

LEMMA LostKeeps ==
    ASSUME LlmInv, PreviousLost
    PROVE  LlmInv'
<1>1. /\ now' = 0 /\ quietSince' = 0 /\ items' = <<>> /\ objects' = "none"
      /\ known' = FALSE /\ sentKnown' = FALSE /\ turns' = turns + 1
      /\ UNCHANGED <<line, answer, requests, early>> /\ OnSocket /\ sentKnown
  BY DEF PreviousLost, Fresh, Receiving
<1>2. turns' \in 0 .. 2 /\ ~early
  BY <1>1 DEF LlmInv, EarlyIsOver, RetriedOnce, OnSocket
<1>3. LlmTypeOK'
  <2>1. items' \in Seq(Calls) /\ Len(items') = 0 /\ 0 <= MaxItems
    BY <1>1, CallAssumption
  <2>2. quietSince' \in 0 .. now' /\ now' \in Nat
    BY <1>1
  <2> QED BY <1>1, <1>2, <2>1, <2>2 DEF LlmInv, LlmTypeOK
<1>4. EarlyIsOver' /\ RetriedOnce'
  BY <1>1, <1>2 DEF EarlyIsOver, RetriedOnce
<1> QED BY <1>3, <1>4 DEF LlmInv

LEMMA HttpKeeps ==
    ASSUME LlmInv, HttpAnswer \/ StreamDelta
    PROVE  LlmInv'
<1>1. ~OnSocket /\ ~early /\ line \in Lines /\ MaxItems \in Nat
  BY CallAssumption DEF HttpAnswer, StreamDelta, LlmInv, EarlyIsOver, OnSocket, LlmTypeOK
<1>2. UNCHANGED <<now, quietSince, objects, known, sentKnown, turns, requests, early>> /\ line' \in {"idle", "stream"}
      /\ answer' \in Answers
  <2>1. CASE HttpAnswer
    BY <2>1 DEF HttpAnswer, Return, Answers
  <2>2. CASE StreamDelta
    BY <2>2 DEF StreamDelta, LlmInv, LlmTypeOK
  <2> QED BY <2>1, <2>2
<1>3. items' \in Seq(Calls) /\ Len(items') <= MaxItems
  <2>1. CASE HttpAnswer
    <3>1. PICK n \in 0 .. MaxItems : items' \in [1 .. n -> [named : {TRUE}, args : {"empty", "whole"}]]
      BY <2>1 DEF HttpAnswer
    <3>2. [named : {TRUE}, args : {"empty", "whole"}] \subseteq Calls
      BY DEF Calls, Arguments
    <3> HIDE DEF Calls
    <3>3. n \in Nat /\ n <= MaxItems
      BY <1>1, <3>1
    <3>5. items' \in [1 .. n -> Calls]
      BY <3>1, <3>2, Widened
    <3>4. items' \in Seq(Calls) /\ Len(items') = n
      BY <3>3, <3>5
    <3> QED BY <3>3, <3>4
  <2>2. CASE StreamDelta
    <3>1. PICK i \in Mentioned, named \in BOOLEAN, a \in {"none", "part", "empty", "whole"} :
             Put(i, [named |-> Call(i).named \/ named,
                     args |-> IF a = "none" THEN Call(i).args ELSE a])
      BY <2>2 DEF StreamDelta
    <3>2. [named |-> Call(i).named \/ named, args |-> IF a = "none" THEN Call(i).args ELSE a] \in Calls
      <4>1. Call(i).named \in BOOLEAN /\ Call(i).args \in Arguments
        BY CallIsTyped DEF Calls, LlmInv
      <4>2. (Call(i).named \/ named) \in BOOLEAN
        BY <4>1
      <4>3. (IF a = "none" THEN Call(i).args ELSE a) \in Arguments
        BY <4>1 DEF Arguments
      <4> HIDE DEF Arguments
      <4> QED BY <4>2, <4>3 DEF Calls
    <3> QED BY <3>1, <3>2, PutIsTyped DEF LlmInv
  <2> QED BY <2>1, <2>2
<1>4. LlmTypeOK'
  BY <1>2, <1>3 DEF LlmInv, LlmTypeOK, Lines
<1>5. EarlyIsOver' /\ RetriedOnce'
  BY <1>1, <1>2 DEF LlmInv, EarlyIsOver, RetriedOnce, OnSocket
<1> QED BY <1>4, <1>5 DEF LlmInv

LEMMA LlmNextKeeps == LlmInv /\ [LlmNext]_callVars => LlmInv'
<1> SUFFICES ASSUME LlmInv, [LlmNext]_callVars PROVE LlmInv'
  OBVIOUS
<1>1. CASE LlmNext
  BY <1>1, AskKeeps, TimeKeeps, ReturnKeeps, CallsKeep, DoneKeeps, LostKeeps, HttpKeeps DEF LlmNext
<1>2. CASE UNCHANGED callVars
  BY <1>2 DEF callVars, LlmInv, LlmTypeOK, EarlyIsOver, RetriedOnce, OnSocket
<1> QED BY <1>1, <1>2

LEMMA LlmHolds == LlmInit /\ [][LlmNext]_callVars => []LlmInv
BY LlmInitial, LlmNextKeeps, PTL

\* A call of the model keeps its types, and opens at most two turns.
THEOREM LlmTypeCorrect == LlmInit /\ [][LlmNext]_callVars => []LlmTypeOK
<1>1. LlmInv => LlmTypeOK
  BY DEF LlmInv
<1> QED BY <1>1, LlmHolds, PTL
===============================================================================
