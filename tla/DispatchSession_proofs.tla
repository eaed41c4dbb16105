----------------------- MODULE DispatchSession_proofs -----------------------
(***************************************************************************)
(* What DispatchSession guarantees for any number of launches, agents and  *)
(* runs.                                                                   *)
(***************************************************************************)
EXTENDS DispatchSession, TLAPS

(***************************************************************************)
(* The type invariant.  The bound on runs needs to be strengthened: a      *)
(* follow-up is only sent while a run is left.                             *)
(***************************************************************************)
RunLeft == \A t \in Launches : pc[t] = "send" => runs[t] < MaxRuns

TypeInv == TypeOK /\ RunLeft

LEMMA TypeInit == Init => TypeInv
  BY LaunchesAssumption, BoundsAssumption
     DEF Init, TypeInv, TypeOK, RunLeft, Pcs, Terminal

LEMMA TypeNext == TypeInv /\ [Next]_vars => TypeInv'
<1> SUFFICES ASSUME TypeInv, [Next]_vars PROVE TypeInv'
  OBVIOUS
<1> USE LaunchesAssumption, BoundsAssumption
        DEF TypeInv, TypeOK, RunLeft, Pcs, Working, Terminal,
            sessionVars, queueVars, turnVars
<1>1. ASSUME NEW t \in Launches, NEW k \in {"pm", "direct"}, Create(t, k)
      PROVE  TypeInv'
  BY <1>1 DEF Create, AddTask, MarkTask
<1>2. ASSUME NEW t \in Launches, NEW k \in {"pm", "direct"}, Interrupt(t, k)
      PROVE  TypeInv'
  BY <1>2 DEF Interrupt, AddTask, MarkTask, AbortAll, AbortedPc
<1>3. ASSUME NEW t \in Launches, Queue(t) PROVE TypeInv'
  BY <1>3 DEF Queue, AddTask, MarkTask, ReserveQueueWait, Live
<1>4. ASSUME NEW t \in Launches, Direct(t) PROVE TypeInv'
  BY <1>4 DEF Direct, AddTask, MarkTask
<1>5. CASE InterruptRefused
  BY <1>5 DEF InterruptRefused, AbortAll, AbortedPc
<1>6. CASE Cancel
  BY <1>6 DEF Cancel, MarkSession, Released, AbortAll, AbortedPc
<1>7. CASE Delete
  BY <1>7 DEF Delete, Released
<1>8. ASSUME NEW t \in Launches, Start(t) PROVE TypeInv'
  BY <1>8 DEF Start
<1>9. ASSUME NEW t \in Launches, WakeQueued(t) PROVE TypeInv'
  BY <1>9 DEF WakeQueued, MarkUnlessTerminal, MarkSession, Released
<1>10. ASSUME NEW t \in Launches, Plan(t) PROVE TypeInv'
  BY <1>10 DEF Plan, Goto, Finish, Fail, MarkUnlessTerminal, MarkSession,
               Released, MarkTask, EndTask
<1>11. ASSUME NEW t \in Launches, Spawn(t) PROVE TypeInv'
  BY <1>11 DEF Spawn, Goto, Fail, MarkUnlessTerminal, MarkSession, Released,
               MarkTask, EndTask
<1>12. ASSUME NEW t \in Launches, AfterReply(t) PROVE TypeInv'
  BY <1>12 DEF AfterReply, Recoverable, StopAfterReply, Goto, Fail,
               MarkUnlessTerminal, MarkSession, Released, MarkTask, EndTask
<1>13. ASSUME NEW t \in Launches, Recover(t) PROVE TypeInv'
  BY <1>13 DEF Recover, Goto, Fail, MarkUnlessTerminal, MarkSession, Released,
               MarkTask, EndTask
<1>14. ASSUME NEW t \in Launches, Review(t) PROVE TypeInv'
  BY <1>14 DEF Review, StopAfterReply, Goto, Finish, Fail, MarkUnlessTerminal,
               MarkSession, Released, MarkTask, EndTask
<1>15. ASSUME NEW t \in Launches, SendFollowUp(t) PROVE TypeInv'
  BY <1>15 DEF SendFollowUp, Fail, MarkUnlessTerminal, MarkSession, Released,
               MarkTask, EndTask
<1>16. ASSUME NEW t \in Launches, DirectReply(t) PROVE TypeInv'
  BY <1>16 DEF DirectReply, Finish, Fail, MarkUnlessTerminal, MarkSession,
               Released, MarkTask, EndTask
<1>17. ASSUME NEW t \in Launches, Unwind(t) PROVE TypeInv'
  BY <1>17 DEF Unwind, EndTask
<1>18. ASSUME NEW t \in Launches, AgentExits(t) PROVE TypeInv'
  BY <1>18 DEF AgentExits
<1>19. ASSUME NEW t \in Launches, BindWorktree(t) PROVE TypeInv'
  BY <1>19 DEF BindWorktree
<1>20. CASE Restart
  BY <1>20 DEF Restart
<1>21. CASE UNCHANGED vars
  BY <1>21 DEF vars
<1>22. QED
  BY <1>1, <1>2, <1>3, <1>4, <1>5, <1>6, <1>7, <1>8, <1>9, <1>10, <1>11,
     <1>12, <1>13, <1>14, <1>15, <1>16, <1>17, <1>18, <1>19, <1>20, <1>21
     DEF Next, Request, LaunchStep

(* Every variable of the service keeps its type; in particular a PM loop   *)
(* never starts more than MaxRuns agent runs (`_pm_launch`).               *)
THEOREM TypeCorrect == Spec => []TypeOK
<1>1. Init => TypeInv
  BY TypeInit
<1>2. TypeInv /\ [Next]_vars => TypeInv'
  BY TypeNext
<1>3. TypeInv => TypeOK
  BY DEF TypeInv
<1>4. QED
  BY <1>1, <1>2, <1>3, PTL DEF Spec

-----------------------------------------------------------------------------
(***************************************************************************)
(* Stop, delete and task rows.  The four invariants are inductive          *)
(* together: that a cancelled or deleted session stays quiet needs every   *)
(* process to have a launch that waits for it.                             *)
(***************************************************************************)
FreshHasNoRow == \A t \in Launches : Fresh(t) => row[t] = "none"

SafetyInv ==
  TypeOK /\ CancelledIsQuiet /\ NoOrphanAgent /\ DeletedIsGone
         /\ OpenRowWhileWorking /\ FreshHasNoRow

LEMMA SafetyInit == Init => SafetyInv
  BY TypeInit
     DEF Init, TypeInv, SafetyInv, CancelledIsQuiet, NoOrphanAgent,
         DeletedIsGone, OpenRowWhileWorking, FreshHasNoRow, Fresh, Live,
         Aborting

LEMMA SafetyNext == SafetyInv /\ TypeOK' /\ [Next]_vars => SafetyInv'
<1> SUFFICES ASSUME SafetyInv, TypeOK', [Next]_vars PROVE SafetyInv'
  OBVIOUS
<1> USE DEF SafetyInv, TypeOK, CancelledIsQuiet, NoOrphanAgent, DeletedIsGone,
            OpenRowWhileWorking, FreshHasNoRow, Fresh, Live, Aborting, Exists,
            Terminal, Working, Pcs, sessionVars, queueVars, turnVars
<1>1. ASSUME NEW t \in Launches, NEW k \in {"pm", "direct"}, Create(t, k)
      PROVE  SafetyInv'
  BY <1>1 DEF Create, AddTask, MarkTask
<1>2. ASSUME NEW t \in Launches, NEW k \in {"pm", "direct"}, Interrupt(t, k)
      PROVE  SafetyInv'
  BY <1>2 DEF Interrupt, AddTask, MarkTask, AbortAll, AbortedPc
<1>3. ASSUME NEW t \in Launches, Queue(t) PROVE SafetyInv'
  BY <1>3 DEF Queue, AddTask, MarkTask, ReserveQueueWait
<1>4. ASSUME NEW t \in Launches, Direct(t) PROVE SafetyInv'
  BY <1>4 DEF Direct, AddTask, MarkTask
<1>5. CASE InterruptRefused
  BY <1>5 DEF InterruptRefused, AbortAll, AbortedPc
<1>6. CASE Cancel
  BY <1>6 DEF Cancel, MarkSession, Released, AbortAll, AbortedPc
<1>7. CASE Delete
  BY <1>7 DEF Delete, Released
<1>8. ASSUME NEW t \in Launches, Start(t) PROVE SafetyInv'
  BY <1>8 DEF Start
<1>9. ASSUME NEW t \in Launches, WakeQueued(t) PROVE SafetyInv'
  BY <1>9 DEF WakeQueued, MarkUnlessTerminal, MarkSession, Released
<1>10. ASSUME NEW t \in Launches, Plan(t) PROVE SafetyInv'
  BY <1>10 DEF Plan, Goto, Finish, Fail, MarkUnlessTerminal, MarkSession,
               Released, MarkTask, EndTask
<1>11. ASSUME NEW t \in Launches, Spawn(t) PROVE SafetyInv'
  BY <1>11 DEF Spawn, Goto, Fail, MarkUnlessTerminal, MarkSession, Released,
               MarkTask, EndTask
<1>12. ASSUME NEW t \in Launches, AfterReply(t) PROVE SafetyInv'
  BY <1>12 DEF AfterReply, Recoverable, StopAfterReply, Goto, Fail,
               MarkUnlessTerminal, MarkSession, Released, MarkTask, EndTask
<1>13. ASSUME NEW t \in Launches, Recover(t) PROVE SafetyInv'
  BY <1>13 DEF Recover, Goto, Fail, MarkUnlessTerminal, MarkSession, Released,
               MarkTask, EndTask
<1>14. ASSUME NEW t \in Launches, Review(t) PROVE SafetyInv'
  BY <1>14 DEF Review, StopAfterReply, Goto, Finish, Fail, MarkUnlessTerminal,
               MarkSession, Released, MarkTask, EndTask
<1>15. ASSUME NEW t \in Launches, SendFollowUp(t) PROVE SafetyInv'
  BY <1>15 DEF SendFollowUp, Fail, MarkUnlessTerminal, MarkSession, Released,
               MarkTask, EndTask
<1>16. ASSUME NEW t \in Launches, DirectReply(t) PROVE SafetyInv'
  BY <1>16 DEF DirectReply, Finish, Fail, MarkUnlessTerminal, MarkSession,
               Released, MarkTask, EndTask
<1>17. ASSUME NEW t \in Launches, Unwind(t) PROVE SafetyInv'
  BY <1>17 DEF Unwind, EndTask
<1>18. ASSUME NEW t \in Launches, AgentExits(t) PROVE SafetyInv'
  BY <1>18 DEF AgentExits
<1>19. ASSUME NEW t \in Launches, BindWorktree(t) PROVE SafetyInv'
  BY <1>19 DEF BindWorktree, InTurn
<1>20. CASE Restart
  BY <1>20 DEF Restart
<1>21. CASE UNCHANGED vars
  BY <1>21 DEF vars
<1>22. QED
  BY <1>1, <1>2, <1>3, <1>4, <1>5, <1>6, <1>7, <1>8, <1>9, <1>10, <1>11,
     <1>12, <1>13, <1>14, <1>15, <1>16, <1>17, <1>18, <1>19, <1>20, <1>21
     DEF Next, Request, LaunchStep

LEMMA Safety == Spec => []SafetyInv
<1>1. Init => SafetyInv
  BY SafetyInit
<1>2. SafetyInv /\ TypeOK' /\ [Next]_vars => SafetyInv'
  BY SafetyNext
<1>3. QED
  BY <1>1, <1>2, TypeCorrect, PTL DEF Spec

(* Stop leaves nothing running, however many launches and handles the      *)
(* session has (`cancel`, `_interrupt_runner_handle`).                     *)
THEOREM CancelIsQuiet == Spec => []CancelledIsQuiet
<1>1. SafetyInv => CancelledIsQuiet
  BY DEF SafetyInv
<1>2. QED
  BY <1>1, Safety, PTL

(* Every live agent process has a launch that waits for it.                *)
THEOREM AgentsAreAwaited == Spec => []NoOrphanAgent
<1>1. SafetyInv => NoOrphanAgent
  BY DEF SafetyInv
<1>2. QED
  BY <1>1, Safety, PTL

(* A deleted session has neither a launch nor a lease left (`delete`).     *)
THEOREM DeleteIsFinal == Spec => []DeletedIsGone
<1>1. SafetyInv => DeletedIsGone
  BY DEF SafetyInv
<1>2. QED
  BY <1>1, Safety, PTL

(* No row is closed under a launch that is still at work.                  *)
THEOREM RowsOpenAtWork == Spec => []OpenRowWhileWorking
<1>1. SafetyInv => OpenRowWhileWorking
  BY DEF SafetyInv
<1>2. QED
  BY <1>1, Safety, PTL

(* A failed, stalled or cancelled session is only revived by a request     *)
(* (`_mark_session_unless_terminal` guards every write of a launch).       *)
THEOREM TerminalIsSticky == Spec => TerminalSticks
<1> DEFINE A == ~Requested /\ status \in Terminal =>
                  status' \in Terminal \cup {"deleted"}
<1>1. SafetyInv /\ [Next]_vars => [A]_vars
  <2> SUFFICES ASSUME SafetyInv, Next, ~Requested, status \in Terminal
               PROVE  status' \in Terminal \cup {"deleted"}
    OBVIOUS
  <2> USE DEF SafetyInv, TypeOK, Requested, Fresh, sessionVars, queueVars
  <2>1. ~Request \/ InterruptRefused \/ Cancel \/ Delete
    BY DEF Request, Create, Interrupt, Queue, Direct, AbortedPc, Exists
  <2>2. CASE InterruptRefused \/ Cancel \/ Delete
    BY <2>2 DEF InterruptRefused, Cancel, Delete, MarkSession, Terminal
  <2>3. ASSUME NEW t \in Launches, LaunchStep(t)
        PROVE  status' = status
    BY <2>3 DEF LaunchStep, Start, WakeQueued, Plan, Spawn, AfterReply,
                Recoverable, Recover, Review, SendFollowUp, DirectReply,
                Unwind, StopAfterReply, Goto, Finish, Fail,
                MarkUnlessTerminal
  <2>4. CASE Restart \/ \E t \in Launches : AgentExits(t) \/ BindWorktree(t)
    BY <2>4 DEF Restart, AgentExits, BindWorktree
  <2>5. QED
    BY <2>1, <2>2, <2>3, <2>4 DEF Next
<1>2. QED
  BY <1>1, Safety, PTL DEF Spec, TerminalSticks

(* A task row is closed once (`cancel` marks running rows only, and no     *)
(* launch outlives its row).                                               *)
THEOREM RowsCloseOnce == Spec => ClosedRowsStay
<1> DEFINE Closed == {"done", "failed", "cancelled"}
           A == \A t \in Launches :
                  row[t] \in Closed /\ status' # "deleted" => row'[t] = row[t]
<1>1. SafetyInv /\ [Next]_vars => [A]_vars
  <2> SUFFICES ASSUME SafetyInv, Next, status' # "deleted",
                      NEW u \in Launches, row[u] \in Closed
               PROVE  row'[u] = row[u]
    BY DEF SafetyInv
  <2> USE DEF SafetyInv, TypeOK, FreshHasNoRow, OpenRowWhileWorking, Fresh,
              Live, Aborting, Working, MarkTask, AddTask
  <2>1. CASE Request
    BY <2>1 DEF Request, Create, Interrupt, Queue, Direct, InterruptRefused,
                Cancel, Delete
  <2>2. ASSUME NEW t \in Launches, LaunchStep(t)
        PROVE  row'[u] = row[u]
    BY <2>2 DEF LaunchStep, Start, WakeQueued, Plan, Spawn, AfterReply,
                Recoverable, Recover, Review, SendFollowUp, DirectReply,
                Unwind, StopAfterReply, Goto, Finish, Fail
  <2>3. CASE Restart \/ \E t \in Launches : AgentExits(t) \/ BindWorktree(t)
    BY <2>3 DEF Restart, AgentExits, BindWorktree
  <2>4. QED
    BY <2>1, <2>2, <2>3 DEF Next
<1>2. QED
  BY <1>1, Safety, PTL DEF Spec, ClosedRowsStay

-----------------------------------------------------------------------------
(***************************************************************************)
(* The order of turns, when aborted launches unwind before the next        *)
(* request.  A contender is a PM launch that has its turn or still expects *)
(* one.  Any two contenders are ordered by `ahead`, and each one waits,    *)
(* directly or through the tail of another, for all that is ahead of it.   *)
(***************************************************************************)
Contender(t) == kind[t] = "pm" /\ pc[t] \in {"queued", "wait"} \cup Working

Waiting(t) == waitFor[t] # {} \/ onTail[t] # NoTail

AheadOver(t) == \A u \in ahead[t] : pc[u] = "over"

(* A launch no request has used yet has left no trace, and before the      *)
(* session exists every launch is such.                                    *)
Untouched ==
  /\ \A t \in Launches : pc[t] = "new" =>
       /\ ahead[t] = {} /\ waitFor[t] = {} /\ onTail[t] = NoTail
       /\ t \notin tailOpen
       /\ \A u \in Launches : t \notin ahead[u]
  /\ status = "none" => \A t \in Launches : pc[t] = "new"

(* Open tails belong to queued PM launches, and nobody is behind the owner *)
(* of the newest tail.                                                     *)
TailsAreLive ==
  /\ \A p \in tailOpen : kind[p] = "pm" /\ pc[p] # "over"
  /\ \A u \in Launches : tail \notin ahead[u]

ContendersOrdered ==
  \A t, u \in Launches :
    Contender(t) /\ Contender(u) /\ t # u => t \in ahead[u] \/ u \in ahead[t]

TurnIsFree ==
  \A t \in Launches :
    Contender(t) /\ (pc[t] \in Working \/ ~Waiting(t)) => AheadOver(t)

WaitsForAllAhead ==
  \A t \in Launches : Contender(t) /\ waitFor[t] # {} =>
    ahead[t] \subseteq waitFor[t] /\ onTail[t] = NoTail

TailStandsForAhead ==
  \A t \in Launches : Contender(t) /\ onTail[t] # NoTail =>
    IF onTail[t] \in tailOpen
    THEN /\ Contender(onTail[t])
         /\ \A u \in ahead[t] :
              u = onTail[t] \/ u \in ahead[onTail[t]] \/ pc[u] = "over"
    ELSE AheadOver(t)

TurnInv ==
  /\ TypeOK /\ Untouched /\ TailsAreLive /\ ContendersOrdered
  /\ TurnIsFree /\ WaitsForAllAhead /\ TailStandsForAhead

LEMMA TurnInit == Init => TurnInv
  BY TypeInit, LaunchesAssumption
     DEF Init, TypeInv, TurnInv, Untouched, TailsAreLive, ContendersOrdered,
         TurnIsFree, WaitsForAllAhead, TailStandsForAhead, Contender, Waiting,
         AheadOver, Working

(* The invariant says nothing of what these variables do not show. *)
LEMMA TurnSame ==
  ASSUME TurnInv, TypeOK', status' = "none" => status = "none",
         UNCHANGED <<kind, pc, waitFor, onTail, tail, tailOpen, ahead>>
  PROVE  TurnInv'
  BY DEF TurnInv, Untouched, TailsAreLive, ContendersOrdered, TurnIsFree,
         WaitsForAllAhead, TailStandsForAhead, Contender, Waiting, AheadOver

(* A launch goes on within its turn. *)
LEMMA TurnMove ==
  ASSUME TurnInv, TypeOK', status' = "none" => status = "none",
         NEW t \in Launches, NEW label \in Working, pc[t] \in Working,
         pc' = [pc EXCEPT ![t] = label],
         UNCHANGED <<kind, waitFor, onTail, tail, tailOpen, ahead>>
  PROVE  TurnInv'
  BY DEF TurnInv, TypeOK, Untouched, TailsAreLive, ContendersOrdered,
         TurnIsFree, WaitsForAllAhead, TailStandsForAhead, Contender, Waiting,
         AheadOver, Working

(* A launch ends: its tail is resolved, and all that was ahead of it is    *)
(* over, so it stood for nobody else.                                      *)
LEMMA TurnEnd ==
  ASSUME TurnInv, TypeOK', status' = "none" => status = "none",
         NEW t \in Launches, pc[t] \in Working \cup {"abort"}, EndTask(t)
  PROVE  TurnInv'
  BY LaunchesAssumption
  DEF TurnInv, TypeOK, Untouched, TailsAreLive, ContendersOrdered,
         TurnIsFree, WaitsForAllAhead, TailStandsForAhead, Contender, Waiting,
         AheadOver, Working, EndTask

(* Everything is aborted: no contender is left. *)
LEMMA TurnAbort ==
  ASSUME TurnInv, TypeOK', status' = "none" => status = "none",
         AbortAll, pc' = AbortedPc, UNCHANGED kind
  PROVE  TurnInv'
  BY DEF TurnInv, TypeOK, Untouched, TailsAreLive, ContendersOrdered,
         TurnIsFree, WaitsForAllAhead, TailStandsForAhead, Contender, Waiting,
         AheadOver, Working, AbortAll, AbortedPc, Live

(* A new PM launch queues: behind the newest open tail, whose owner nobody *)
(* is ahead of, or behind everything live.                                 *)
LEMMA TurnQueue ==
  ASSUME TurnInv, TypeOK', NEW t \in Launches, Queue(t), Aborting = {}
  PROVE  TurnInv'
<1> USE LaunchesAssumption
    DEF TurnInv, TypeOK, Contender, AheadOver, Waiting, Working, Queue,
        AddTask, MarkTask, ReserveQueueWait, Fresh, Live, Aborting, Exists
<1>1. Untouched'
  BY DEF Untouched
<1>2. TailsAreLive'
  BY DEF Untouched, TailsAreLive, Pcs
<1>3. ContendersOrdered'
  BY DEF Untouched, ContendersOrdered
<1>4. TurnIsFree'
  BY DEF Untouched, TurnIsFree
<1>5. WaitsForAllAhead'
  BY DEF Untouched, WaitsForAllAhead
<1>6. TailStandsForAhead'
  BY DEF Untouched, TailsAreLive, ContendersOrdered, TailStandsForAhead, Pcs
<1>7. QED
  BY <1>1, <1>2, <1>3, <1>4, <1>5, <1>6

LEMMA TurnNext ==
  ASSUME PromptUnwind, TurnInv, TypeOK', [Next]_vars
  PROVE  TurnInv'
<1> USE DEF sessionVars, queueVars, turnVars
<1>1. ASSUME NEW t \in Launches, NEW k \in {"pm", "direct"}, Create(t, k)
      PROVE  TurnInv'
  BY <1>1 DEF Create, AddTask, Fresh, TurnInv, TypeOK, Untouched,
       TailsAreLive, ContendersOrdered, TurnIsFree, WaitsForAllAhead,
       TailStandsForAhead, Contender, Waiting, AheadOver, Working
<1>2. ASSUME NEW t \in Launches, NEW k \in {"pm", "direct"}, Interrupt(t, k)
      PROVE  TurnInv'
  BY <1>2 DEF Interrupt, AddTask, Fresh, Exists, AbortAll, AbortedPc, Live,
       TurnInv, TypeOK, Untouched, TailsAreLive, ContendersOrdered,
       TurnIsFree, WaitsForAllAhead, TailStandsForAhead, Contender, Waiting,
       AheadOver, Working
<1>3. ASSUME NEW t \in Launches, Queue(t) PROVE TurnInv'
  BY <1>3, TurnQueue DEF Queue, MayRequest
<1>4. ASSUME NEW t \in Launches, Direct(t) PROVE TurnInv'
  BY <1>4 DEF Direct, AddTask, Fresh, Exists, TurnInv, TypeOK, Untouched,
       TailsAreLive, ContendersOrdered, TurnIsFree, WaitsForAllAhead,
       TailStandsForAhead, Contender, Waiting, AheadOver, Working
<1>5. CASE InterruptRefused
  BY <1>5, TurnAbort DEF InterruptRefused
<1>6. CASE Cancel
  BY <1>6, TurnAbort DEF Cancel, MarkSession
<1>7. CASE Delete
  BY <1>7, TurnSame DEF Delete
<1>8. ASSUME NEW t \in Launches, Start(t) PROVE TurnInv'
  BY <1>8 DEF Start, TurnInv, TypeOK, Untouched, TailsAreLive,
       ContendersOrdered, TurnIsFree, WaitsForAllAhead, TailStandsForAhead,
       Contender, Waiting, AheadOver, Working
<1>9. ASSUME NEW t \in Launches, WakeQueued(t) PROVE TurnInv'
  <2>1. AheadOver(t) \/ kind[t] # "pm"
    BY <1>9 DEF WakeQueued, GatherDone, TurnInv, TypeOK, Untouched,
         TurnIsFree, WaitsForAllAhead, TailStandsForAhead, Contender, Waiting,
         AheadOver, Live
  <2>2. status' = "none" => status = "none"
    BY <1>9 DEF WakeQueued, MarkUnlessTerminal, MarkSession
  <2>3. QED
    BY <1>9, <2>1, <2>2, LaunchesAssumption
       DEF WakeQueued, TurnInv, TypeOK, Untouched, TailsAreLive,
       ContendersOrdered, TurnIsFree, WaitsForAllAhead, TailStandsForAhead,
       Contender, Waiting, AheadOver, Working
<1>10. ASSUME NEW t \in Launches, LaunchStep(t), ~Start(t), ~WakeQueued(t)
       PROVE  TurnInv'
  <2>1. status' = "none" => status = "none"
    BY <1>10 DEF LaunchStep, Plan, Spawn, AfterReply, Recoverable, Recover,
         Review, SendFollowUp, DirectReply, Unwind, StopAfterReply, Goto,
         Finish, Fail, MarkUnlessTerminal, MarkSession
  <2>2. \/ /\ pc[t] \in Working \cup {"abort"}
           /\ EndTask(t)
        \/ /\ pc[t] \in Working
           /\ \E label \in Working : pc' = [pc EXCEPT ![t] = label]
           /\ UNCHANGED <<kind, waitFor, onTail, tail, tailOpen, ahead>>
    BY <1>10 DEF LaunchStep, Plan, Spawn, AfterReply, Recoverable, Recover,
         Review, SendFollowUp, DirectReply, Unwind, StopAfterReply, Goto,
         Finish, Fail, Working
  <2>3. QED
    BY <2>1, <2>2, TurnEnd, TurnMove
<1>11. ASSUME NEW t \in Launches, AgentExits(t) \/ BindWorktree(t)
       PROVE  TurnInv'
  BY <1>11, TurnSame DEF AgentExits, BindWorktree
<1>12. CASE Restart
  BY <1>12, LaunchesAssumption
     DEF Restart, Live, TurnInv, TypeOK, Untouched, TailsAreLive,
       ContendersOrdered, TurnIsFree, WaitsForAllAhead, TailStandsForAhead,
       Contender, Waiting, AheadOver, Working
<1>13. CASE UNCHANGED vars
  BY <1>13, TurnSame DEF vars
<1>14. QED
  BY <1>1, <1>2, <1>3, <1>4, <1>5, <1>6, <1>7, <1>8, <1>9, <1>10, <1>11,
     <1>12, <1>13
     DEF Next, Request, LaunchStep

LEMMA Turns == ASSUME PromptUnwind PROVE Spec => []TurnInv
<1>1. Init => TurnInv
  BY TurnInit
<1>2. TurnInv /\ TypeOK' /\ [Next]_vars => TurnInv'
  BY TurnNext
<1>3. QED
  BY <1>1, <1>2, TypeCorrect, PTL DEF Spec

(* The turns of the PM loops are exclusive, and taken in the order of the  *)
(* requests, for any number of queued follow-ups, cancels, interrupts and  *)
(* restarts (`_reserve_queue_wait`, `_attach_queue_tail`), as long as no   *)
(* request arrives while aborted launches unwind.                          *)
THEOREM QueueKeepsOrder ==
  ASSUME PromptUnwind PROVE Spec => []QueuedWaitsItsTurn
<1>1. TurnInv => QueuedWaitsItsTurn
  BY DEF TurnInv, TurnIsFree, QueuedWaitsItsTurn, InTurn, Contender, AheadOver
<1>2. QED
  BY <1>1, Turns, PTL

THEOREM TurnsAreExclusive ==
  ASSUME PromptUnwind PROVE Spec => []OneTurnAtATime
<1>1. TurnInv => OneTurnAtATime
  BY DEF TurnInv, TurnIsFree, ContendersOrdered, OneTurnAtATime, InTurn,
         Contender, AheadOver, Working
<1>2. QED
  BY <1>1, Turns, PTL

=============================================================================
