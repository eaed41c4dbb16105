---------------------------- MODULE Agents_proofs -----------------------------
(***************************************************************************)
(* Proofs about the agents' processes, the watchdog over them and the      *)
(* approvals they ask for: their types, and that events, sweeps and        *)
(* decisions tell what happened, for any handles, sessions and calls.      *)
(***************************************************************************)
EXTENDS AgentRunner, Watchdog, Approvals, FiniteSetTheorems, TLAPS

-----------------------------------------------------------------------------
(* Processes and their pumps.                                              *)

Upto == 0 .. MaxAttempts
PumpRecords == [handle : Handles \cup {Nobody}, reads : Upto, state : {"none", "done", "unwinding"} \cup Pumping]
StatusEvents == [process : Attempts, attempt : Attempts, status : Statuses]
SendRecords == [handle : Handles, attempt : Attempts, home : BOOLEAN]
Ends == {"none", "ok", "failed"} \cup Alive
Attached == {"fresh", "reading"}

\* RunnerTypeOK without the list of the handles.
ProcessesTypeOK ==
    /\ attempts \in Upto
    /\ procs \in [Handles -> Upto] /\ stamp \in [Handles -> Upto] /\ current \in [Handles -> Upto]
    /\ pump \in [Attempts -> PumpRecords]
    /\ process \in [Attempts -> Ends]
    /\ sends \subseteq SendRecords
    /\ log \subseteq StatusEvents

\* A pump that is about to read, or reads, is its handle's last one, and no
\* process but its own is registered under the handle.
PumpIsCurrent ==
    \A a \in Attempts : pump[a].state \in Attached =>
        /\ pump[a].handle \in Handles /\ stamp[pump[a].handle] # 0
        /\ current[pump[a].handle] = a /\ procs[pump[a].handle] \in {0, a}
        /\ pump[a].state = "reading" => pump[a].reads = a

\* A send that awaits its spawn has an attempt of its own, without a process.
SendsAhead ==
    /\ \A s \in sends : s.attempt <= attempts /\ process[s.attempt] = "none" /\ stamp[s.handle] # 0
    /\ \A s, t \in sends : s.attempt = t.attempt => s = t

NothingAhead == \A p \in Attempts : p > attempts => process[p] = "none"

EventIsTrue(e) == e.attempt = e.process /\ (e.status = "completed" => process[e.process] = "ok")
LogIsTrue == \A e \in log : EventIsTrue(e)

RunnerInv == ProcessesTypeOK /\ PumpIsCurrent /\ SendsAhead /\ NothingAhead /\ LogIsTrue

-----------------------------------------------------------------------------
(* Attempts, pumps and events.                                             *)

LEMMA AttemptTyped ==
    /\ MaxAttempts \in Nat /\ 0 \in Upto /\ Attempts \subseteq Upto /\ 0 \notin Attempts
    /\ \A a \in Attempts : a \in Nat /\ a # 0
    /\ \A n \in Upto : n \in Nat /\ (n # 0 => n \in Attempts)
    /\ \A n \in Upto : n < MaxAttempts => n + 1 \in Attempts /\ n + 1 \in Upto /\ n + 1 > n
BY RunnerAssumption DEF Attempts, Upto

LEMMA CancelledIs ==
    ASSUME ProcessesTypeOK, NEW a \in Upto
    PROVE  /\ CancelledPump(a) \in [Attempts -> PumpRecords]
           /\ \A b \in Attempts : b # a => CancelledPump(a)[b] = pump[b]
           /\ a \in Attempts => CancelledPump(a)[a].state \notin Attached
<1>1. pump \in [Attempts -> PumpRecords]
  BY DEF ProcessesTypeOK
<1>2. CASE a \in Attempts
  <2> DEFINE next == IF pump[a].state = "failing" THEN "unwinding"
                     ELSE IF pump[a].state \in Pumping THEN "done" ELSE pump[a].state
  <2>1. CancelledPump(a) = [pump EXCEPT ![a].state = next]
    BY DEF CancelledPump
  <2>2. pump[a] \in PumpRecords
    BY <1>1, <1>2
  <2>3. next \in {"none", "done", "unwinding"} \cup Pumping /\ next \notin Attached
    BY <2>2 DEF PumpRecords, Pumping, Attached
  <2> HIDE DEF next
  <2>4. [pump[a] EXCEPT !.state = next] \in PumpRecords /\ [pump[a] EXCEPT !.state = next].state = next
    BY <2>2, <2>3 DEF PumpRecords
  <2>5. CancelledPump(a) = [pump EXCEPT ![a] = [pump[a] EXCEPT !.state = next]]
    BY <1>1, <1>2, <2>1
  <2> QED BY <1>1, <1>2, <2>3, <2>4, <2>5
<1>3. CASE a \notin Attempts
  <2>1. CancelledPump(a) = pump
    BY <1>1, <1>3 DEF CancelledPump
  <2> QED BY <1>1, <1>3, <2>1
<1> QED BY <1>2, <1>3

\* What is said of a process that failed is never that it completed.
LEMMA LastWordIsTrue ==
    ASSUME NEW failed \in BOOLEAN, NEW o \in LastEvents(failed)
    PROVE  o \in Statuses /\ (o = "completed" => ~failed)
<1>1. \A word, cliFailed : FinalStatus(word, cliFailed, failed) = "completed" => ~failed
  BY DEF FinalStatus
<1> QED BY <1>1 DEF LastEvents

\* Processes only go on: one that ended well stays so, and what was said of it
\* stays true.
LEMMA LogStays ==
    ASSUME ProcessesTypeOK, LogIsTrue, NEW news \in SUBSET StatusEvents, log' = log \cup news,
           \A p \in Attempts : process[p] = "ok" => process'[p] = "ok",
           \A e \in news : e.attempt = e.process /\ (e.status = "completed" => process'[e.process] = "ok")
    PROVE  log' \subseteq StatusEvents /\ LogIsTrue'
<1>1. \A e \in log :
          /\ e \in StatusEvents /\ e.process \in Attempts /\ e.attempt = e.process
          /\ e.status = "completed" => process[e.process] = "ok"
  BY DEF ProcessesTypeOK, LogIsTrue, EventIsTrue, StatusEvents
<1>0. \A e \in log' : e \in log \/ e \in news
  OBVIOUS
<1>2. ASSUME NEW e \in log'
      PROVE  e \in StatusEvents /\ e.attempt = e.process /\ (e.status = "completed" => process'[e.process] = "ok")
  <2>1. CASE e \in log
    <3>1. e \in StatusEvents /\ e.process \in Attempts /\ e.attempt = e.process
      BY <1>1, <2>1
    <3>2. ASSUME e.status = "completed" PROVE process'[e.process] = "ok"
      <4>1. process[e.process] = "ok"
        BY <1>1, <2>1, <3>2
      <4> QED BY <3>1, <4>1
    <3> QED BY <3>1, <3>2
  <2>2. CASE e \in news
    BY <2>2
  <2> QED BY <1>0, <1>2, <2>1, <2>2
<1>3. \A e \in log' : e \in StatusEvents
  BY <1>2
<1> QED BY <1>2, <1>3 DEF LogIsTrue, EventIsTrue

\* One more event, or none.
LEMMA OneEvent ==
    ASSUME RunnerInv, NEW e \in StatusEvents, log' \subseteq log \cup {e}, log \subseteq log',
           \A p \in Attempts : process[p] = "ok" => process'[p] = "ok",
           e.attempt = e.process, e.status = "completed" => process'[e.process] = "ok"
    PROVE  log' \subseteq StatusEvents /\ LogIsTrue'
<1>1. CASE log' = log
  <2>1. {} \in SUBSET StatusEvents /\ log' = log \cup {}
    BY <1>1
  <2> QED BY <2>1, LogStays DEF RunnerInv
<1>2. CASE log' = log \cup {e}
  <2>1. {e} \in SUBSET StatusEvents
    OBVIOUS
  <2> QED BY <1>2, <2>1, LogStays DEF RunnerInv
<1> QED BY <1>1, <1>2

LEMMA NoEvent ==
    ASSUME RunnerInv, log' = log,
           \A p \in Attempts : process[p] = "ok" => process'[p] = "ok"
    PROVE  log' \subseteq StatusEvents /\ LogIsTrue'
<1>1. {} \in SUBSET StatusEvents /\ log' = log \cup {}
  OBVIOUS
<1> QED BY <1>1, LogStays DEF RunnerInv

LEMMA EventTyped ==
    ASSUME NEW p \in Attempts, NEW a \in Attempts, NEW st \in Statuses
    PROVE  /\ Event(p, a, st) \in StatusEvents /\ Event(p, a, st).process = p
           /\ Event(p, a, st).attempt = a /\ Event(p, a, st).status = st
BY DEF Event, StatusEvents

LEMMA RunnerInitial == RunnerInit => RunnerInv
<1> SUFFICES ASSUME RunnerInit PROVE RunnerInv
  OBVIOUS
<1>1. NoPump \in PumpRecords /\ NoPump.state = "none"
  BY AttemptTyped DEF NoPump, PumpRecords, Pumping
<1>2. ProcessesTypeOK
  BY <1>1, AttemptTyped DEF RunnerInit, ProcessesTypeOK, Ends
<1>3. \A a \in Attempts : pump[a].state \notin Attached
  BY <1>1 DEF RunnerInit, Attached
<1> QED BY <1>2, <1>3 DEF RunnerInit, RunnerInv, PumpIsCurrent, SendsAhead, NothingAhead, LogIsTrue

\* What an action keeps that changes neither pumps nor sends.
LEMMA PumpsAlone ==
    ASSUME RunnerInv, UNCHANGED <<pump, procs, current>>, stamp' \in [Handles -> Upto],
           \A h \in Handles : stamp[h] # 0 => stamp'[h] # 0
    PROVE  PumpIsCurrent'
BY DEF RunnerInv, PumpIsCurrent, ProcessesTypeOK

\* What one keeps that changes a process that runs.
LEMMA ProcessesGoOn ==
    ASSUME RunnerInv, UNCHANGED <<attempts, sends, stamp>>, process' \in [Attempts -> Ends],
           \A p \in Attempts : process[p] \notin Alive => process'[p] = process[p]
    PROVE  SendsAhead' /\ NothingAhead' /\ \A p \in Attempts : process[p] = "ok" => process'[p] = "ok"
<1>1. \A p \in Attempts : process[p] \in {"none", "ok"} => process'[p] = process[p]
  BY DEF Alive
<1>2. \A s \in sends : s.attempt \in Attempts
  BY DEF RunnerInv, ProcessesTypeOK, SendRecords
<1>3. SendsAhead'
  BY <1>1, <1>2 DEF RunnerInv, SendsAhead
<1>4. NothingAhead'
  BY <1>1 DEF RunnerInv, NothingAhead
<1> QED BY <1>1, <1>3, <1>4

-----------------------------------------------------------------------------
(* Launches and sends.                                                     *)

LEMMA LaunchKeeps == ASSUME RunnerInv, NEW h \in Handles, Launch(h) PROVE RunnerInv'
<1> DEFINE a == attempts + 1
           new == [handle |-> h, reads |-> 0, state |-> "fresh"]
<1>1. /\ stamp[h] = 0 /\ attempts < MaxAttempts /\ attempts' = a
      /\ process' = [process EXCEPT ![a] = "live"] /\ procs' = [procs EXCEPT ![h] = a]
      /\ stamp' = [stamp EXCEPT ![h] = a] /\ current' = [current EXCEPT ![h] = a]
      /\ pump' = [pump EXCEPT ![a] = new] /\ UNCHANGED <<sends, log>>
  BY DEF Launch, Registered
<1>2. ProcessesTypeOK /\ attempts \in Nat /\ a \in Attempts /\ a \in Upto /\ a > attempts /\ a # 0
  BY <1>1, AttemptTyped DEF RunnerInv, ProcessesTypeOK
<1>3. new \in PumpRecords /\ new.handle = h /\ new.state = "fresh"
  BY AttemptTyped DEF PumpRecords, Pumping
<1> HIDE DEF a, new
<1>4. ProcessesTypeOK'
  BY <1>1, <1>2, <1>3 DEF ProcessesTypeOK, Ends, Alive
<1>5. pump'[a] = new /\ \A b \in Attempts : b # a => pump'[b] = pump[b]
  BY <1>1, <1>2 DEF ProcessesTypeOK
<1>6. /\ stamp'[h] = a /\ current'[h] = a /\ procs'[h] = a
      /\ \A k \in Handles : k # h => stamp'[k] = stamp[k] /\ current'[k] = current[k] /\ procs'[k] = procs[k]
  BY <1>1, <1>2 DEF ProcessesTypeOK
<1>7. PumpIsCurrent'
  <2> SUFFICES ASSUME NEW b \in Attempts, pump'[b].state \in Attached
               PROVE  /\ pump'[b].handle \in Handles /\ stamp'[pump'[b].handle] # 0
                      /\ current'[pump'[b].handle] = b /\ procs'[pump'[b].handle] \in {0, b}
                      /\ pump'[b].state = "reading" => pump'[b].reads = b
    BY DEF PumpIsCurrent
  <2>1. CASE b = a
    BY <1>2, <1>3, <1>5, <1>6, <2>1
  <2>2. CASE b # a
    <3>1. pump'[b] = pump[b] /\ pump[b].handle # h
      BY <1>1, <1>5, <2>2 DEF RunnerInv, PumpIsCurrent
    <3> QED BY <1>6, <3>1 DEF RunnerInv, PumpIsCurrent
  <2> QED BY <2>1, <2>2
<1>8. process[a] = "none" /\ process'[a] = "live" /\ \A p \in Attempts : p # a => process'[p] = process[p]
  BY <1>1, <1>2 DEF RunnerInv, NothingAhead, ProcessesTypeOK
<1>9. SendsAhead' /\ NothingAhead'
  <2>1. \A s \in sends : s.attempt \in Attempts /\ s.attempt \in Nat /\ s.handle \in Handles
                         /\ s.attempt <= attempts /\ process[s.attempt] = "none" /\ stamp[s.handle] # 0
    BY <1>2, AttemptTyped DEF RunnerInv, ProcessesTypeOK, SendRecords, SendsAhead
  <2>2. \A s \in sends : s.attempt # a /\ s.attempt <= attempts' /\ s.handle # h
    BY <1>1, <1>2, <2>1 DEF a
  <2>3. \A p \in Attempts : p > attempts' => p # a /\ p > attempts
    BY <1>1, <1>2, AttemptTyped DEF a
  <2>4. SendsAhead'
    BY <1>1, <1>6, <1>8, <2>1, <2>2 DEF RunnerInv, SendsAhead
  <2>5. NothingAhead'
    BY <1>8, <2>3 DEF RunnerInv, NothingAhead
  <2> QED BY <2>4, <2>5
<1>10. LogIsTrue'
  BY <1>1, <1>8, NoEvent
<1> QED BY <1>4, <1>7, <1>9, <1>10 DEF RunnerInv

LEMMA LaunchFailsKeeps == ASSUME RunnerInv, LaunchFails PROVE RunnerInv'
<1>1. /\ attempts < MaxAttempts /\ attempts' = attempts + 1
      /\ log' = log \cup {Event(attempts + 1, attempts + 1, "failed")}
      /\ UNCHANGED <<procs, stamp, current, pump, process, sends>>
  BY DEF LaunchFails
<1>2. ProcessesTypeOK /\ attempts \in Nat /\ attempts + 1 \in Attempts /\ attempts + 1 \in Upto
  BY <1>1, AttemptTyped DEF RunnerInv, ProcessesTypeOK
<1>3. log' \subseteq StatusEvents /\ LogIsTrue'
  <2>1. "failed" \in Statuses /\ "failed" # "completed"
    BY DEF Statuses
  <2> DEFINE e == Event(attempts + 1, attempts + 1, "failed")
  <2>2. e \in StatusEvents /\ e.process = e.attempt /\ e.status # "completed"
    BY <1>2, <2>1, EventTyped
  <2>3. log' = log \cup {e}
    BY <1>1
  <2> HIDE DEF e
  <2> QED BY <1>1, <2>2, <2>3, OneEvent
<1>4. ProcessesTypeOK'
  BY <1>1, <1>2, <1>3 DEF ProcessesTypeOK
<1>5. PumpIsCurrent'
  BY <1>1, <1>2, PumpsAlone DEF ProcessesTypeOK
<1>6. \A p \in Attempts : p \in Nat /\ (p > attempts' => p > attempts) /\ (p <= attempts => p <= attempts')
  BY <1>1, <1>2, AttemptTyped
<1>7. \A s \in sends : s.attempt \in Attempts
  BY <1>2 DEF ProcessesTypeOK, SendRecords
<1>8. SendsAhead'
  BY <1>1, <1>6, <1>7 DEF RunnerInv, SendsAhead
<1>9. NothingAhead'
  BY <1>1, <1>6 DEF RunnerInv, NothingAhead
<1> QED BY <1>3, <1>4, <1>5, <1>8, <1>9 DEF RunnerInv

LEMMA BeginSendKeeps == ASSUME RunnerInv, NEW h \in Handles, BeginSend(h) PROVE RunnerInv'
<1> DEFINE a == attempts + 1
           new == [handle |-> h, attempt |-> a, home |-> h \in placed]
<1>1. /\ attempts < MaxAttempts /\ attempts' = a
      /\ stamp' = [stamp EXCEPT ![h] = a] /\ sends' = sends \cup {new}
      /\ UNCHANGED <<procs, current, pump, process, log>>
  BY DEF BeginSend
<1>2. ProcessesTypeOK /\ attempts \in Nat /\ a \in Attempts /\ a \in Upto /\ a > attempts /\ a # 0
  BY <1>1, AttemptTyped DEF RunnerInv, ProcessesTypeOK
<1>3. new \in SendRecords /\ new.handle = h /\ new.attempt = a
  BY <1>2 DEF SendRecords
<1> HIDE DEF new
<1>4. ProcessesTypeOK'
  BY <1>1, <1>2, <1>3 DEF ProcessesTypeOK
<1>5. stamp'[h] = a /\ \A k \in Handles : k # h => stamp'[k] = stamp[k]
  BY <1>1, <1>2 DEF ProcessesTypeOK
<1>6. PumpIsCurrent'
  <2>1. \A k \in Handles : stamp[k] # 0 => stamp'[k] # 0
    BY <1>2, <1>5
  <2> QED BY <1>1, <1>4, <2>1, PumpsAlone DEF ProcessesTypeOK
<1>7. \A s \in sends : s.attempt \in Nat /\ s.handle \in Handles /\ s.attempt <= attempts
                       /\ process[s.attempt] = "none" /\ stamp[s.handle] # 0
  BY <1>2, AttemptTyped DEF RunnerInv, ProcessesTypeOK, SendRecords, SendsAhead
<1>8. \A s \in sends : s.attempt # a /\ s.attempt <= attempts' /\ stamp'[s.handle] # 0
  BY <1>1, <1>2, <1>5, <1>7
<1>9. process[a] = "none" /\ a <= attempts'
  BY <1>1, <1>2 DEF RunnerInv, NothingAhead
<1> HIDE DEF a
<1>10. SendsAhead'
  <2>1. \A s \in sends' : s \in sends \/ s = new
    BY <1>1
  <2>2. \A s \in sends' : s.attempt <= attempts' /\ process'[s.attempt] = "none" /\ stamp'[s.handle] # 0
    BY <1>1, <1>2, <1>3, <1>5, <1>7, <1>8, <1>9, <2>1
  <2>3. \A s, t \in sends' : s.attempt = t.attempt => s = t
    BY <1>3, <1>8, <2>1 DEF RunnerInv, SendsAhead
  <2> QED BY <2>2, <2>3 DEF SendsAhead
<1>11. NothingAhead'
  <2>1. \A p \in Attempts : p > attempts' => p > attempts
    BY <1>1, <1>2, AttemptTyped DEF a
  <2> QED BY <1>1, <2>1 DEF RunnerInv, NothingAhead
<1>12. LogIsTrue'
  BY <1>1 DEF RunnerInv, LogIsTrue, EventIsTrue
<1> QED BY <1>4, <1>6, <1>10, <1>11, <1>12 DEF RunnerInv

LEMMA SendReturnsKeeps == ASSUME RunnerInv, NEW s \in sends, SendReturns(s) PROVE RunnerInv'
<1> DEFINE a == s.attempt
           h == s.handle
           c == current[h]
           new == FreshPump(s)
<1>1. /\ process' = [process EXCEPT ![a] = "live"] /\ procs' = [procs EXCEPT ![h] = a]
      /\ sends' = sends \ {s} /\ current' = [current EXCEPT ![h] = a]
      /\ pump' = [CancelledPump(c) EXCEPT ![a] = new]
      /\ UNCHANGED <<attempts, stamp, log>>
  BY DEF SendReturns, Resumed
<1>2. ProcessesTypeOK /\ h \in Handles /\ a \in Attempts /\ a \in Upto /\ a # 0
  BY AttemptTyped DEF RunnerInv, ProcessesTypeOK, SendRecords
<1>3. a <= attempts /\ process[a] = "none" /\ stamp[h] # 0 /\ \A t \in sends : t # s => t.attempt # a
  BY DEF RunnerInv, SendsAhead
<1>4. new \in PumpRecords /\ new.handle = h /\ new.state = "fresh"
  BY <1>2, AttemptTyped DEF FreshPump, PumpRecords, Pumping
<1>5. c \in Upto
  BY <1>2 DEF ProcessesTypeOK
<1> HIDE DEF a, h, c, new
<1>6. /\ CancelledPump(c) \in [Attempts -> PumpRecords]
      /\ \A b \in Attempts : b # c => CancelledPump(c)[b] = pump[b]
      /\ c \in Attempts => CancelledPump(c)[c].state \notin Attached
  BY <1>2, <1>5, CancelledIs
<1>7. pump' \in [Attempts -> PumpRecords] /\ pump'[a] = new
      /\ \A b \in Attempts : b # a => pump'[b] = CancelledPump(c)[b]
  BY <1>1, <1>2, <1>4, <1>6
<1>8. /\ current'[h] = a /\ procs'[h] = a
      /\ \A k \in Handles : k # h => current'[k] = current[k] /\ procs'[k] = procs[k]
  BY <1>1, <1>2 DEF ProcessesTypeOK
<1>9. process' \in [Attempts -> Ends] /\ \A p \in Attempts : p # a => process'[p] = process[p]
  BY <1>1, <1>2 DEF ProcessesTypeOK, Ends, Alive
<1>10. ProcessesTypeOK'
  BY <1>1, <1>2, <1>7, <1>9 DEF ProcessesTypeOK
<1>11. PumpIsCurrent'
  <2> SUFFICES ASSUME NEW b \in Attempts, pump'[b].state \in Attached
               PROVE  /\ pump'[b].handle \in Handles /\ stamp'[pump'[b].handle] # 0
                      /\ current'[pump'[b].handle] = b /\ procs'[pump'[b].handle] \in {0, b}
                      /\ pump'[b].state = "reading" => pump'[b].reads = b
    BY DEF PumpIsCurrent
  <2>1. CASE b = a
    BY <1>1, <1>2, <1>3, <1>4, <1>7, <1>8, <2>1
  <2>2. CASE b # a
    <3>1. b # c /\ pump'[b] = pump[b]
      BY <1>6, <1>7, <2>2
    <3>2. pump[b].handle # h
      BY <3>1 DEF c, RunnerInv, PumpIsCurrent
    <3> QED BY <1>1, <1>8, <3>1, <3>2 DEF RunnerInv, PumpIsCurrent
  <2> QED BY <2>1, <2>2
<1>12. SendsAhead'
  <2>1. \A t \in sends' : t \in sends /\ t.attempt \in Attempts /\ t.attempt # a
    BY <1>1, <1>2, <1>3 DEF ProcessesTypeOK, SendRecords
  <2> QED BY <1>1, <1>9, <2>1 DEF RunnerInv, SendsAhead
<1>13. NothingAhead'
  <2>1. \A p \in Attempts : p > attempts => p # a
    BY <1>2, <1>3, AttemptTyped DEF ProcessesTypeOK
  <2> QED BY <1>1, <1>9, <2>1 DEF RunnerInv, NothingAhead
<1>14. LogIsTrue'
  BY <1>1, <1>3, <1>9, NoEvent
<1> QED BY <1>10, <1>11, <1>12, <1>13, <1>14 DEF RunnerInv

LEMMA SendFailsKeeps == ASSUME RunnerInv, NEW s \in sends, SendFails(s) PROVE RunnerInv'
<1> DEFINE e == Event(s.attempt, s.attempt, "failed")
<1>1. /\ sends' = sends \ {s} /\ log' = log \cup {e}
      /\ UNCHANGED <<attempts, procs, stamp, current, pump, process>>
  BY DEF SendFails
<1>2. ProcessesTypeOK /\ s.attempt \in Attempts
  BY DEF RunnerInv, ProcessesTypeOK, SendRecords
<1>3. e \in StatusEvents /\ e.process = e.attempt /\ e.status # "completed"
  <2>1. "failed" \in Statuses /\ "failed" # "completed"
    BY DEF Statuses
  <2> QED BY <1>2, <2>1, EventTyped
<1> HIDE DEF e
<1>4. log' \subseteq StatusEvents /\ LogIsTrue'
  BY <1>1, <1>3, OneEvent
<1>5. ProcessesTypeOK'
  BY <1>1, <1>2, <1>4 DEF ProcessesTypeOK
<1>6. PumpIsCurrent'
  BY <1>1, <1>2, PumpsAlone DEF ProcessesTypeOK
<1>7. SendsAhead' /\ NothingAhead'
  BY <1>1 DEF RunnerInv, SendsAhead, NothingAhead
<1> QED BY <1>4, <1>5, <1>6, <1>7 DEF RunnerInv

-----------------------------------------------------------------------------
(* The pumps.                                                              *)

\* One pump changes, and nobody else's place.
LEMMA PumpChanges ==
    ASSUME RunnerInv, NEW a \in Attempts, NEW new \in PumpRecords, pump' = [pump EXCEPT ![a] = new],
           UNCHANGED <<stamp, current>>,
           procs' \in [Handles -> Upto], \A h \in Handles : procs'[h] \in {0, procs[h]},
           new.state \in Attached =>
               new.handle = pump[a].handle /\ pump[a].state \in Attached /\ (new.state = "reading" => new.reads = a)
    PROVE  pump' \in [Attempts -> PumpRecords] /\ PumpIsCurrent'
<1>1. pump \in [Attempts -> PumpRecords]
  BY DEF RunnerInv, ProcessesTypeOK
<1>2. pump' \in [Attempts -> PumpRecords] /\ pump'[a] = new /\ \A b \in Attempts : b # a => pump'[b] = pump[b]
  BY <1>1
<1>3. ASSUME NEW b \in Attempts, pump'[b].state \in Attached
      PROVE  /\ pump'[b].handle \in Handles /\ stamp'[pump'[b].handle] # 0
             /\ current'[pump'[b].handle] = b /\ procs'[pump'[b].handle] \in {0, b}
             /\ pump'[b].state = "reading" => pump'[b].reads = b
  <2>1. pump[b].state \in Attached /\ pump'[b].handle = pump[b].handle
    BY <1>2, <1>3
  <2>2. /\ pump[b].handle \in Handles /\ stamp[pump[b].handle] # 0
        /\ current[pump[b].handle] = b /\ procs[pump[b].handle] \in {0, b}
        /\ pump[b].state = "reading" => pump[b].reads = b
    BY <2>1 DEF RunnerInv, PumpIsCurrent
  <2> QED BY <1>2, <1>3, <2>1, <2>2
<1> QED BY <1>2, <1>3 DEF PumpIsCurrent

\* A pump's new state.
LEMMA PumpSet ==
    ASSUME RunnerInv, NEW a \in Attempts, NEW st \in {"none", "done", "unwinding"} \cup Pumping
    PROVE  /\ [pump[a] EXCEPT !.state = st] \in PumpRecords
           /\ [pump[a] EXCEPT !.state = st].state = st
           /\ [pump EXCEPT ![a].state = st] = [pump EXCEPT ![a] = [pump[a] EXCEPT !.state = st]]
<1>1. pump \in [Attempts -> PumpRecords] /\ pump[a] \in PumpRecords
  BY DEF RunnerInv, ProcessesTypeOK
<1>2. [pump[a] EXCEPT !.state = st] \in PumpRecords /\ [pump[a] EXCEPT !.state = st].state = st
  BY <1>1 DEF PumpRecords
<1>3. [pump EXCEPT ![a].state = st] = [pump EXCEPT ![a] = [pump[a] EXCEPT !.state = st]]
  BY <1>1
<1> QED BY <1>1, <1>2, <1>3

\* A step that leaves the processes and sends alone keeps what is said of them.
LEMMA ProcessesAlone ==
    ASSUME RunnerInv, UNCHANGED <<attempts, sends, stamp, process>>
    PROVE  SendsAhead' /\ NothingAhead' /\ \A p \in Attempts : process[p] = "ok" => process'[p] = "ok"
BY DEF RunnerInv, SendsAhead, NothingAhead

LEMMA AttachedIs ==
    ASSUME RunnerInv, NEW a \in Attempts, pump[a].state \in Attached
    PROVE  /\ pump[a].handle \in Handles /\ procs[pump[a].handle] \in {0, a}
           /\ pump[a].state = "reading" => pump[a].reads = a
BY DEF RunnerInv, PumpIsCurrent

LEMMA PumpStartsKeeps == ASSUME RunnerInv, NEW a \in Attempts, PumpStarts(a) PROVE RunnerInv'
<1> DEFINE h == pump[a].handle
           e == Event(a, a, "started")
<1>1. /\ pump[a].state = "fresh" /\ UNCHANGED <<attempts, procs, stamp, current, process, sends>>
      /\ h \in Handles /\ procs[h] \in {0, a}
  <2>1. pump[a].state = "fresh" /\ UNCHANGED <<attempts, procs, stamp, current, process, sends>>
    BY DEF PumpStarts
  <2>2. pump[a].state \in Attached
    BY <2>1 DEF Attached
  <2> QED BY <2>1, <2>2, AttachedIs
<1>2. ProcessesTypeOK
  BY DEF RunnerInv
<1>3. SendsAhead' /\ NothingAhead' /\ \A p \in Attempts : process[p] = "ok" => process'[p] = "ok"
  BY <1>1, ProcessesAlone
<1>4. procs' \in [Handles -> Upto] /\ \A k \in Handles : procs'[k] \in {0, procs[k]}
  BY <1>1, <1>2 DEF ProcessesTypeOK
<1>5. CASE procs[h] = 0
  <2> DEFINE new == [pump[a] EXCEPT !.state = "done"]
  <2>1. pump' = [pump EXCEPT ![a].state = "done"] /\ log' = log
    BY <1>5 DEF PumpStarts
  <2>2. new \in PumpRecords /\ new.state \notin Attached /\ pump' = [pump EXCEPT ![a] = new]
    <3>1. "done" \in {"none", "done", "unwinding"} \cup Pumping
      OBVIOUS
    <3>2. new \in PumpRecords /\ new.state = "done"
      BY <3>1, PumpSet
    <3>3. [pump EXCEPT ![a].state = "done"] = [pump EXCEPT ![a] = new]
      BY <3>1, PumpSet
    <3> QED BY <2>1, <3>2, <3>3 DEF Attached
  <2> HIDE DEF new
  <2>3. pump' \in [Attempts -> PumpRecords] /\ PumpIsCurrent'
    BY <1>1, <1>4, <2>2, PumpChanges
  <2>4. log' \subseteq StatusEvents /\ LogIsTrue'
    BY <1>3, <2>1, NoEvent
  <2>5. ProcessesTypeOK'
    BY <1>1, <1>2, <2>3, <2>4 DEF ProcessesTypeOK
  <2> QED BY <1>3, <2>3, <2>4, <2>5 DEF RunnerInv
<1>6. CASE procs[h] # 0
  <2> DEFINE new == [pump[a] EXCEPT !.reads = a, !.state = "reading"]
  <2>1. pump' = [pump EXCEPT ![a].reads = a, ![a].state = "reading"] /\ log' = log \cup {e}
    BY <1>1, <1>6 DEF PumpStarts
  <2>2. /\ new \in PumpRecords /\ new.handle = h /\ new.state = "reading" /\ new.reads = a
        /\ pump' = [pump EXCEPT ![a] = new] /\ pump[a].state \in Attached
    <3>1. "reading" \in {"none", "done", "unwinding"} \cup Pumping /\ a \in Upto
      BY AttemptTyped DEF Pumping
    <3>2. pump \in [Attempts -> PumpRecords] /\ pump[a] \in PumpRecords
      BY <1>2 DEF ProcessesTypeOK
    <3>3. new \in PumpRecords /\ new.state = "reading" /\ new.handle = h /\ new.reads = a
      BY <3>1, <3>2 DEF PumpRecords
    <3>4. [pump EXCEPT ![a].reads = a, ![a].state = "reading"] = [pump EXCEPT ![a] = new]
      BY <3>2
    <3> QED BY <1>1, <2>1, <3>3, <3>4 DEF Attached
  <2>3. pump' \in [Attempts -> PumpRecords] /\ PumpIsCurrent'
    <3> HIDE DEF new
    <3> QED BY <1>1, <1>4, <2>2, PumpChanges
  <2>4. e \in StatusEvents /\ e.process = e.attempt /\ e.status # "completed"
    <3>1. "started" \in Statuses /\ "started" # "completed"
      BY DEF Statuses
    <3> QED BY <3>1, EventTyped
  <2>5. log' \subseteq StatusEvents /\ LogIsTrue'
    <3> HIDE DEF e
    <3> QED BY <1>3, <2>1, <2>4, OneEvent
  <2>6. ProcessesTypeOK'
    BY <1>1, <1>2, <2>3, <2>5 DEF ProcessesTypeOK
  <2> QED BY <1>3, <2>3, <2>5, <2>6 DEF RunnerInv
<1> QED BY <1>5, <1>6

LEMMA PumpReadsKeeps == ASSUME RunnerInv, NEW a \in Attempts, PumpReads(a) PROVE RunnerInv'
<1> DEFINE e == Event(a, a, "running")
<1>1. pump[a].state = "reading" /\ UNCHANGED <<attempts, procs, stamp, current, pump, process, sends>>
  BY DEF PumpReads
<1>2. ProcessesTypeOK /\ pump[a].reads = a
  BY <1>1, AttachedIs DEF Attached, RunnerInv
<1>3. log' = log \cup {e}
  BY <1>2 DEF PumpReads
<1>4. e \in StatusEvents /\ e.process = e.attempt /\ e.status # "completed"
  <2>1. "running" \in Statuses /\ "running" # "completed"
    BY DEF Statuses
  <2> QED BY <2>1, EventTyped
<1> HIDE DEF e
<1>5. SendsAhead' /\ NothingAhead' /\ \A p \in Attempts : process[p] = "ok" => process'[p] = "ok"
  BY <1>1, ProcessesAlone
<1>6. log' \subseteq StatusEvents /\ LogIsTrue'
  BY <1>3, <1>4, <1>5, OneEvent
<1>7. PumpIsCurrent'
  BY <1>1, <1>2, PumpsAlone DEF ProcessesTypeOK
<1>8. ProcessesTypeOK'
  BY <1>1, <1>2, <1>6 DEF ProcessesTypeOK
<1> QED BY <1>5, <1>6, <1>7, <1>8 DEF RunnerInv

\* A pump that ends, without its processes or with the one it stops.
LEMMA PumpSettles ==
    ASSUME RunnerInv, NEW a \in Attempts, NEW st \in {"done", "failing"},
           pump' = [pump EXCEPT ![a].state = st],
           UNCHANGED <<attempts, stamp, current, sends>>,
           procs' \in [Handles -> Upto], \A h \in Handles : procs'[h] \in {0, procs[h]},
           process' \in [Attempts -> Ends],
           \A p \in Attempts : process[p] \notin Alive => process'[p] = process[p],
           log' = log \/ \E e \in StatusEvents : /\ log' = log \cup {e} /\ e.attempt = e.process
                                          /\ (e.status = "completed" => process[e.process] = "ok")
    PROVE  RunnerInv'
<1> DEFINE new == [pump[a] EXCEPT !.state = st]
<1>1. new \in PumpRecords /\ new.state \notin Attached /\ pump' = [pump EXCEPT ![a] = new]
  <2>1. st \in {"none", "done", "unwinding"} \cup Pumping /\ st \notin Attached
    BY DEF Pumping, Attached
  <2> QED BY <2>1, PumpSet
<1> HIDE DEF new
<1>2. pump' \in [Attempts -> PumpRecords] /\ PumpIsCurrent'
  BY <1>1, PumpChanges
<1>3. SendsAhead' /\ NothingAhead' /\ \A p \in Attempts : process[p] = "ok" => process'[p] = "ok"
  BY ProcessesGoOn
<1>4. log' \subseteq StatusEvents /\ LogIsTrue'
  <2>1. CASE log' = log
    BY <1>3, <2>1, NoEvent
  <2>2. ASSUME NEW e \in StatusEvents, log' = log \cup {e}, e.attempt = e.process,
               e.status = "completed" => process[e.process] = "ok"
        PROVE  log' \subseteq StatusEvents /\ LogIsTrue'
    <3>1. e.process \in Attempts
      BY DEF StatusEvents
    <3>2. e.status = "completed" => process'[e.process] = "ok"
      BY <1>3, <2>2, <3>1
    <3> QED BY <1>3, <2>2, <3>2, OneEvent
  <2> QED BY <2>1, <2>2
<1>5. ProcessesTypeOK'
  BY <1>2, <1>4 DEF RunnerInv, ProcessesTypeOK
<1> QED BY <1>2, <1>3, <1>4, <1>5 DEF RunnerInv

LEMMA PumpEndsKeeps == ASSUME RunnerInv, NEW a \in Attempts, PumpEnds(a) PROVE RunnerInv'
<1>1. /\ pump[a].state = "reading" /\ process[pump[a].reads] \in {"ok", "failed"}
      /\ pump' = [pump EXCEPT ![a].state = "done"]
      /\ UNCHANGED <<attempts, procs, stamp, current, process, sends>>
  BY DEF PumpEnds
<1>2. ProcessesTypeOK /\ pump[a].reads = a
  BY <1>1, AttachedIs DEF Attached, RunnerInv
<1>3. PICK o \in LastEvents(process[a] = "failed") : log' = log \cup {Event(a, a, o)}
  BY <1>2 DEF PumpEnds
<1>4. o \in Statuses /\ (o = "completed" => process[a] # "failed")
  <2>1. (process[a] = "failed") \in BOOLEAN
    OBVIOUS
  <2> QED BY <1>3, <2>1, LastWordIsTrue
<1> DEFINE e == Event(a, a, o)
<1>5. e \in StatusEvents /\ e.attempt = e.process /\ (e.status = "completed" => process[e.process] = "ok")
  BY <1>1, <1>2, <1>4, EventTyped
<1>6. log' = log \cup {e}
  BY <1>3
<1> HIDE DEF e
<1>7. /\ procs' \in [Handles -> Upto] /\ \A h \in Handles : procs'[h] \in {0, procs[h]}
      /\ process' \in [Attempts -> Ends] /\ \A p \in Attempts : process'[p] = process[p]
  BY <1>1, <1>2 DEF ProcessesTypeOK
<1> QED BY <1>1, <1>5, <1>6, <1>7, PumpSettles

LEMMA PumpFailsKeeps == ASSUME RunnerInv, NEW a \in Attempts, PumpFails(a) PROVE RunnerInv'
<1> DEFINE h == pump[a].handle
           running == procs[h] # 0 /\ process[procs[h]] \in Alive
           st == IF running THEN "failing" ELSE "done"
           e == Event(a, a, "failed")
<1>1. /\ pump[a].state = "reading" /\ procs' = [procs EXCEPT ![h] = 0]
      /\ pump' = [pump EXCEPT ![a].state = st]
      /\ process' = IF running THEN [process EXCEPT ![procs[h]] = "told"] ELSE process
      /\ UNCHANGED <<attempts, stamp, current, sends>>
  BY DEF PumpFails
<1>2. ProcessesTypeOK /\ pump[a].reads = a /\ h \in Handles
  BY <1>1, AttachedIs DEF Attached, RunnerInv
<1>3. log' = log \cup {e}
  BY <1>2 DEF PumpFails
<1>4. e \in StatusEvents /\ e.attempt = e.process /\ e.status # "completed"
  <2>1. "failed" \in Statuses /\ "failed" # "completed"
    BY DEF Statuses
  <2> QED BY <2>1, EventTyped
<1>5. st \in {"done", "failing"}
  OBVIOUS
<1>6. procs' \in [Handles -> Upto] /\ \A k \in Handles : procs'[k] \in {0, procs[k]}
  BY <1>1, <1>2, AttemptTyped DEF ProcessesTypeOK
<1>7. process' \in [Attempts -> Ends] /\ \A p \in Attempts : process[p] \notin Alive => process'[p] = process[p]
  BY <1>1, <1>2 DEF ProcessesTypeOK, Ends, Alive
<1> HIDE DEF e, st
<1> QED BY <1>1, <1>3, <1>4, <1>5, <1>6, <1>7, PumpSettles

LEMMA PumpStoppedKeeps ==
    ASSUME RunnerInv, NEW a \in Attempts, PumpStopped(a) \/ PumpUnwinds(a)
    PROVE  RunnerInv'
<1>1. /\ pump' = [pump EXCEPT ![a].state = "done"]
      /\ UNCHANGED <<attempts, procs, stamp, current, sends, log>>
  BY DEF PumpStopped, PumpUnwinds
<1>2. ProcessesTypeOK
  BY DEF RunnerInv
<1>3. process' \in [Attempts -> Ends] /\ \A p \in Attempts : process[p] \notin Alive => process'[p] = process[p]
  <2> DEFINE r == pump[a].reads
  <2>1. \/ process' = process
        \/ process' = [process EXCEPT ![r] = IF process[r] \in Alive THEN "failed" ELSE process[r]]
    BY DEF PumpStopped, PumpUnwinds
  <2> HIDE DEF r
  <2> QED BY <1>2, <2>1 DEF ProcessesTypeOK, Ends
<1>4. procs' \in [Handles -> Upto] /\ \A h \in Handles : procs'[h] \in {0, procs[h]}
  BY <1>1, <1>2 DEF ProcessesTypeOK
<1> QED BY <1>1, <1>3, <1>4, PumpSettles

-----------------------------------------------------------------------------
LEMMA ProcessExitsKeeps == ASSUME RunnerInv, NEW p \in Attempts, ProcessExits(p) PROVE RunnerInv'
<1>1. process[p] \in Alive /\ UNCHANGED <<attempts, procs, stamp, current, pump, sends, log>>
  BY DEF ProcessExits
<1>2. ProcessesTypeOK
  BY DEF RunnerInv
<1>3. process' \in [Attempts -> Ends] /\ \A q \in Attempts : process[q] \notin Alive => process'[q] = process[q]
  <2>1. PICK code \in {"ok", "failed"} : process' = [process EXCEPT ![p] = code]
    BY DEF ProcessExits
  <2> QED BY <1>1, <1>2, <2>1 DEF ProcessesTypeOK, Ends
<1>4. SendsAhead' /\ NothingAhead' /\ \A q \in Attempts : process[q] = "ok" => process'[q] = "ok"
  BY <1>1, <1>3, ProcessesGoOn
<1>5. LogIsTrue'
  BY <1>1, <1>4, NoEvent
<1>6. PumpIsCurrent' /\ ProcessesTypeOK'
  BY <1>1, <1>2, <1>3, PumpsAlone DEF ProcessesTypeOK
<1> QED BY <1>4, <1>5, <1>6 DEF RunnerInv

LEMMA InterruptKeeps == ASSUME RunnerInv, Interrupt PROVE RunnerInv'
<1>1. /\ process' = [p \in Attempts |->
             IF process[p] = "live" /\ \E h \in Reached : procs[h] = p THEN "told" ELSE process[p]]
      /\ pump' = [a \in Attempts |->
             IF \E h \in Reached : current[h] = a THEN CancelledPump(a)[a] ELSE pump[a]]
      /\ UNCHANGED <<attempts, procs, stamp, current, sends, log>>
  BY DEF Interrupt
<1>2. ProcessesTypeOK
  BY DEF RunnerInv
<1>3. \A a \in Attempts : CancelledPump(a)[a] \in PumpRecords /\ CancelledPump(a)[a].state \notin Attached
  BY <1>2, CancelledIs, AttemptTyped
<1>4. pump' \in [Attempts -> PumpRecords]
      /\ \A a \in Attempts : pump'[a].state \in Attached => pump'[a] = pump[a]
  BY <1>1, <1>2, <1>3 DEF ProcessesTypeOK
<1>5. PumpIsCurrent'
  BY <1>1, <1>4 DEF RunnerInv, PumpIsCurrent
<1>6. process' \in [Attempts -> Ends] /\ \A q \in Attempts : process[q] \notin Alive => process'[q] = process[q]
  BY <1>1, <1>2 DEF ProcessesTypeOK, Ends, Alive
<1>7. SendsAhead' /\ NothingAhead' /\ \A q \in Attempts : process[q] = "ok" => process'[q] = "ok"
  BY <1>1, <1>6, ProcessesGoOn
<1>8. LogIsTrue'
  BY <1>1, <1>7, NoEvent
<1>9. ProcessesTypeOK'
  BY <1>1, <1>2, <1>4, <1>6 DEF ProcessesTypeOK
<1> QED BY <1>5, <1>7, <1>8, <1>9 DEF RunnerInv

LEMMA RunnerNextKeeps == RunnerInv /\ [RunnerNext]_runnerVars => RunnerInv'
<1> SUFFICES ASSUME RunnerInv, [RunnerNext]_runnerVars PROVE RunnerInv'
  OBVIOUS
<1>1. CASE RunnerNext
  <2>1. CASE \E h \in Handles : Launch(h) \/ BeginSend(h)
    BY <2>1, LaunchKeeps, BeginSendKeeps
  <2>2. CASE LaunchFails
    BY <2>2, LaunchFailsKeeps
  <2>3. CASE \E s \in sends : SendReturns(s) \/ SendFails(s)
    BY <2>3, SendReturnsKeeps, SendFailsKeeps
  <2>4. ASSUME NEW a \in Attempts,
               \/ PumpStarts(a) \/ PumpReads(a) \/ PumpEnds(a)
               \/ PumpFails(a) \/ PumpStopped(a) \/ PumpUnwinds(a)
        PROVE  RunnerInv'
    BY <2>4, PumpStartsKeeps, PumpReadsKeeps, PumpEndsKeeps, PumpFailsKeeps, PumpStoppedKeeps
  <2>5. CASE \E p \in Attempts : ProcessExits(p)
    BY <2>5, ProcessExitsKeeps
  <2>6. CASE Interrupt
    BY <2>6, InterruptKeeps
  <2> QED BY <1>1, <2>1, <2>2, <2>3, <2>4, <2>5, <2>6 DEF RunnerNext
<1>2. CASE UNCHANGED runnerVars
  <2>1. UNCHANGED <<attempts, procs, stamp, current, pump, process, sends, log>>
    BY <1>2 DEF runnerVars
  <2>2. ProcessesTypeOK' /\ PumpIsCurrent'
    BY <2>1 DEF RunnerInv, ProcessesTypeOK, PumpIsCurrent
  <2>3. SendsAhead' /\ NothingAhead' /\ LogIsTrue'
    BY <2>1 DEF RunnerInv, SendsAhead, NothingAhead, LogIsTrue, EventIsTrue
  <2> QED BY <2>2, <2>3 DEF RunnerInv
<1> QED BY <1>1, <1>2

LEMMA RunnerHolds == RunnerSpec => []RunnerInv
BY RunnerInitial, RunnerNextKeeps, PTL DEF RunnerSpec

\* Attempts, pumps, processes, sends and events keep their types.
THEOREM RunnerTypeCorrect == RunnerSpec => []ProcessesTypeOK
<1>1. RunnerInv => ProcessesTypeOK
  BY DEF RunnerInv
<1> QED BY <1>1, RunnerHolds, PTL

\* No two pumps read under one handle, and an event bears the attempt whose
\* process it tells of and says it completed only if it did, for any handles
\* and however launches, sends, failures and stops overlap.
THEOREM EventsAreTrue == RunnerSpec => []EventsTellTheirAttempt
<1>1. RunnerInv => EventsTellTheirAttempt
  <2> SUFFICES ASSUME RunnerInv PROVE EventsTellTheirAttempt
    OBVIOUS
  <2>1. \A e \in log : e.attempt = e.process /\ (e.status = "completed" => process[e.process] = "ok")
    BY DEF RunnerInv, LogIsTrue, EventIsTrue
  <2>2. ASSUME NEW a \in Attempts, NEW b \in Attempts,
               pump[a].state \in Attached, pump[b].state \in Attached, pump[a].handle = pump[b].handle
        PROVE  a = b
    BY <2>2 DEF RunnerInv, PumpIsCurrent
  <2> QED BY <2>1, <2>2 DEF EventsTellTheirAttempt, Attached
<1> QED BY <1>1, RunnerHolds, PTL

-----------------------------------------------------------------------------
(* The watchdog.                                                           *)

States == Suspicious \cup {"starting", "running", "done"}
Actions == {"none", "restart_from_checkpoint", "escalate_card", "nudge", "answer_or_card",
            "backoff_or_card"}
Marks == [state : States, fails : Nat]
Words == [state : States, action : Actions]
Judgements == [key : SUBSET Watched, number : 0 .. MaxRecords, prev : States, found : States]

WatchTypeOK ==
    /\ made \in [Watched -> 0 .. MaxRecords]
    /\ pool \subseteq Records
    /\ record \in [Records -> Marks]
    /\ sweep \in [on : BOOLEAN, left : SUBSET Watched, judged : Judgements]
    /\ told \in [Records -> Words]
    /\ looked \in [start : SUBSET Records, seen : SUBSET Records]

\* Of a key's records only the newest is in the pool.
PoolIsCurrent == \A r \in pool : r[2] = made[r[1]]

\* The record being judged is as new as any of its key the sweep began with,
\* and the timeline's last word on it is the state it had when the judge was
\* asked.
JudgedIsKnown ==
    sweep.judged = NotJudged \/
    \E k \in sweep.left :
        /\ sweep.judged.key = {k}
        /\ <<k, sweep.judged.number>> \in Records /\ sweep.judged.number <= made[k]
        /\ told[<<k, sweep.judged.number>>].state = sweep.judged.prev
        /\ \A r \in looked.start : r[1] = k => r[2] <= sweep.judged.number

\* What the sweep has not assessed it has still to look at, or need not.
SweepMissesNone ==
    sweep.on =>
        /\ \A r \in looked.start : r[2] <= made[r[1]]
        /\ \A r \in looked.start \ looked.seen :
              r[1] \in sweep.left \/ r \notin pool \/ record[r].state = "done"

RecordIsTold == \A r \in Records : record[r].state \in {told[r].state, "done"}

WatchInv == WatchTypeOK /\ PoolIsCurrent /\ JudgedIsKnown /\ SweepMissesNone /\ RecordIsTold

-----------------------------------------------------------------------------
(* Records, sweeps and what a look finds.                                  *)

LEMMA WatchInitial == WatchInit => WatchInv
<1> SUFFICES ASSUME WatchInit PROVE WatchInv
  OBVIOUS
<1>1. made \in [Watched -> 0 .. MaxRecords] /\ looked.start = {} /\ sweep.on = FALSE
  BY WatchdogAssumption DEF WatchInit, NoSweep
<1>2. record \in [Records -> Marks]
  BY DEF WatchInit, Fresh, Marks, States
<1>3. told \in [Records -> Words]
  BY DEF WatchInit, Words, States, Actions
<1>4. sweep \in [on : BOOLEAN, left : SUBSET Watched, judged : Judgements]
  BY WatchdogAssumption DEF WatchInit, NoSweep, NotJudged, Judgements, States
<1>5. looked \in [start : SUBSET Records, seen : SUBSET Records]
  BY DEF WatchInit
<1>6. WatchTypeOK
  BY <1>1, <1>2, <1>3, <1>4, <1>5 DEF WatchInit, WatchTypeOK
<1>7. RecordIsTold
  BY DEF WatchInit, RecordIsTold, Fresh
<1> QED BY <1>1, <1>6, <1>7
       DEF WatchInit, WatchInv, PoolIsCurrent, JudgedIsKnown, SweepMissesNone, NoSweep

\* A record that is registered is one within the bound.
LEMMA NextRecord ==
    ASSUME WatchTypeOK, NEW k \in Watched,
           Cardinality({r \in Records : r[2] <= made[r[1]]}) < MaxRecords
    PROVE  made[k] + 1 \in 1 .. MaxRecords
<1> DEFINE S == {r \in Records : r[2] <= made[r[1]]}
           I == 1 .. made[k]
           T == {k} \X I
<1>0. MaxRecords \in Nat /\ made[k] \in 0 .. MaxRecords /\ made[k] \in Nat
  BY WatchdogAssumption DEF WatchTypeOK
<1>1. T \subseteq S
  <2>1. \A m \in I : <<k, m>> \in Records
    BY <1>0 DEF Records
  <2>2. \A t \in T : \E m \in I : t = <<k, m>>
    OBVIOUS
  <2>3. \A m \in I : <<k, m>> \in S
    BY <1>0, <2>1
  <2> QED BY <2>2, <2>3
<1>2. IsFiniteSet(Records)
  <2> DEFINE J == 1 .. MaxRecords
  <2>1. IsFiniteSet(J)
    BY <1>0, FS_Interval
  <2>2. IsFiniteSet(Watched)
    BY WatchdogAssumption
  <2> HIDE DEF J
  <2>3. IsFiniteSet(Watched \X J)
    BY <2>1, <2>2, FS_Product
  <2> QED BY <2>3 DEF Records, J
<1>3. S \subseteq Records
  OBVIOUS
<1>4. IsFiniteSet(I) /\ Cardinality(I) = made[k]
  <2>1. IsFiniteSet(1 .. made[k])
    BY <1>0, FS_Interval
  <2>2. Cardinality(1 .. made[k]) = made[k]
    BY <1>0, FS_Interval
  <2> QED BY <2>1, <2>2
<1>5. IsFiniteSet({k}) /\ Cardinality({k}) = 1
  BY FS_Singleton
<1>6. T = {k} \X I /\ Cardinality(S) < MaxRecords
  OBVIOUS
<1> HIDE DEF S, I, T
<1>7. IsFiniteSet(S)
  BY <1>2, <1>3, FS_Subset
<1>8. Cardinality(T) = Cardinality({k}) * Cardinality(I)
  BY <1>4, <1>5, <1>6, FS_Product
<1>9. Cardinality(T) = made[k]
  BY <1>0, <1>4, <1>5, <1>8
<1>10. Cardinality(T) <= Cardinality(S)
  BY <1>1, <1>7, FS_Subset
<1>11. Cardinality(S) \in Nat
  BY <1>7, FS_CardinalityType
<1> QED BY <1>0, <1>6, <1>9, <1>10, <1>11

LEMMA OnwardIs ==
    ASSUME WatchTypeOK, NEW k
    PROVE  /\ Onward(k) \in [on : BOOLEAN, left : SUBSET Watched, judged : Judgements]
           /\ Onward(k).on = sweep.on /\ Onward(k).left = sweep.left \ {k}
           /\ Onward(k).judged = NotJudged
<1>1. NotJudged \in Judgements
  BY WatchdogAssumption DEF NotJudged, Judgements, States
<1> QED BY <1>1 DEF Onward, WatchTypeOK

LEMMA FoundTyped ==
    ASSUME NEW signal \in Signals
    PROVE  Classified(signal) \in States /\ Classified(signal) # "done"
BY DEF Signals, Classified, States, Suspicious, BadStates

LEMMA RecoveryTyped == \A state, fails : PlanRecovery(state, fails) \in Actions
BY DEF PlanRecovery, Actions

(* The end of an assessment of a record r.                                 *)
LEMMA SettleKeeps ==
    ASSUME WatchTypeOK, RecordIsTold, NEW r \in Records, NEW prev, NEW state \in States,
           Settle(r, prev, state), told[r].state = prev
    PROVE  /\ record' \in [Records -> Marks] /\ told' \in [Records -> Words]
           /\ looked' \in [start : SUBSET Records, seen : SUBSET Records]
           /\ looked'.start = looked.start /\ looked'.seen = looked.seen \cup {r}
           /\ \A q \in Records \ {r} : record'[q] = record[q]
           /\ RecordIsTold'
<1> DEFINE fails == IF state = "dead" THEN record[r].fails + 1 ELSE 0
<1>1. record[r] \in Marks /\ record[r].fails \in Nat
  BY DEF WatchTypeOK, Marks
<1>2. [state |-> state, fails |-> fails] \in Marks
  BY <1>1 DEF Marks
<1>3. [state |-> state, action |-> PlanRecovery(state, fails)] \in Words
  BY RecoveryTyped DEF Words
<1>4. record' = [record EXCEPT ![r] = [state |-> state, fails |-> fails]]
  BY DEF Settle
<1>5. told' = IF state = prev THEN told
              ELSE [told EXCEPT ![r] = [state |-> state, action |-> PlanRecovery(state, fails)]]
  BY DEF Settle
<1>6. looked' = [looked EXCEPT !.seen = @ \cup {r}]
  BY DEF Settle
<1> HIDE DEF fails
<1>7. record' \in [Records -> Marks] /\ told' \in [Records -> Words]
  BY <1>2, <1>3, <1>4, <1>5 DEF WatchTypeOK
<1>8. /\ looked' \in [start : SUBSET Records, seen : SUBSET Records]
      /\ looked'.start = looked.start /\ looked'.seen = looked.seen \cup {r}
  BY <1>6 DEF WatchTypeOK
<1>9. ASSUME NEW q \in Records \ {r}
      PROVE  record'[q] = record[q] /\ told'[q] = told[q]
  BY <1>4, <1>5 DEF WatchTypeOK
<1>10. record'[r].state = state /\ told'[r].state = state
  BY <1>4, <1>5 DEF WatchTypeOK
<1>11. RecordIsTold'
  BY <1>9, <1>10 DEF RecordIsTold
<1> QED BY <1>7, <1>8, <1>9, <1>11

-----------------------------------------------------------------------------
(* The steps.                                                              *)

LEMMA PoolSteps ==
    ASSUME WatchInv, NEW k \in Watched, Register(k) \/ MarkDone(k) \/ Unregister(k)
    PROVE  WatchInv'
<1>0. WatchTypeOK /\ PoolIsCurrent /\ JudgedIsKnown /\ SweepMissesNone /\ RecordIsTold
  BY DEF WatchInv
<1>t. /\ \A j \in Watched : made[j] \in 0 .. MaxRecords /\ MaxRecords \in Nat
      /\ \A r \in Records : r = <<r[1], r[2]>> /\ r[1] \in Watched /\ r[2] \in 1 .. MaxRecords
      /\ looked.start \subseteq Records /\ sweep.left \subseteq Watched
      /\ sweep.judged.number \in 0 .. MaxRecords
  BY <1>0, WatchdogAssumption DEF WatchTypeOK, Records, Judgements
<1>1. CASE Register(k)
  <2>1. /\ made' = [made EXCEPT ![k] = @ + 1]
        /\ pool' = (pool \ {Current(k)}) \cup {<<k, made[k] + 1>>}
        /\ UNCHANGED <<record, sweep, told, looked>>
        /\ made[k] + 1 \in 1 .. MaxRecords
    BY <1>0, <1>1, NextRecord DEF Register
  <2>2. made' \in [Watched -> 0 .. MaxRecords] /\ pool' \subseteq Records
    BY <1>0, <2>1 DEF WatchTypeOK, Records
  <2>3. \A j \in Watched : made[j] <= made'[j] /\ (j # k => made'[j] = made[j])
        /\ made'[k] = made[k] + 1
    BY <1>0, <1>t, <2>1 DEF WatchTypeOK
  <2>4. PoolIsCurrent'
    <3> SUFFICES ASSUME NEW r \in pool' PROVE r[2] = made'[r[1]]
      BY DEF PoolIsCurrent
    <3>1. CASE r = <<k, made[k] + 1>>
      BY <2>3, <3>1
    <3>2. CASE r # <<k, made[k] + 1>>
      <4>1. r \in pool /\ r # Current(k) /\ r \in Records
        BY <1>0, <2>1, <3>2 DEF WatchTypeOK
      <4>2. r[1] # k
        BY <1>0, <1>t, <4>1 DEF PoolIsCurrent, Current
      <4> QED BY <1>0, <1>t, <2>3, <4>1, <4>2 DEF PoolIsCurrent
    <3> QED BY <3>1, <3>2
  <2>5. JudgedIsKnown'
    <3>1. CASE sweep.judged = NotJudged
      BY <2>1, <3>1 DEF JudgedIsKnown
    <3>2. ASSUME NEW j \in sweep.left,
                 sweep.judged.key = {j}, <<j, sweep.judged.number>> \in Records,
                 sweep.judged.number <= made[j],
                 told[<<j, sweep.judged.number>>].state = sweep.judged.prev,
                 \A r \in looked.start : r[1] = j => r[2] <= sweep.judged.number
          PROVE  JudgedIsKnown'
      <4>1. sweep.judged.number <= made'[j]
        <5>1. made[j] \in Nat /\ made'[j] \in Nat /\ made[j] <= made'[j]
              /\ sweep.judged.number \in Nat
          BY <1>t, <2>2, <2>3
        <5> QED BY <3>2, <5>1
      <4> QED BY <2>1, <3>2, <4>1 DEF JudgedIsKnown
    <3> QED BY <1>0, <3>1, <3>2 DEF JudgedIsKnown
  <2>6. SweepMissesNone'
    <3> SUFFICES ASSUME sweep.on, NEW r \in looked.start
                 PROVE  /\ r[2] <= made'[r[1]]
                        /\ r \notin looked.seen =>
                              r[1] \in sweep.left \/ r \notin pool' \/ record[r].state = "done"
      BY <2>1 DEF SweepMissesNone
    <3>1. r \in Records /\ r[2] <= made[r[1]] /\ r[2] \in Nat /\ r[1] \in Watched
      BY <1>0, <1>t DEF SweepMissesNone
    <3>2. r[2] <= made'[r[1]]
      <4>1. made[r[1]] \in Nat /\ made'[r[1]] \in Nat /\ made[r[1]] <= made'[r[1]]
        BY <1>t, <2>2, <2>3, <3>1
      <4> QED BY <3>1, <4>1
    <3>3. r # <<k, made[k] + 1>>
      BY <1>t, <3>1
    <3>4. r \in pool' => r \in pool
      BY <2>1, <3>3
    <3> QED BY <1>0, <3>2, <3>4 DEF SweepMissesNone
  <2>7. RecordIsTold'
    BY <1>0, <2>1 DEF RecordIsTold
  <2> QED BY <1>0, <2>1, <2>2, <2>4, <2>5, <2>6, <2>7 DEF WatchInv, WatchTypeOK
<1>2. CASE MarkDone(k)
  <2>1. Current(k) \in Records /\ record' = [record EXCEPT ![Current(k)].state = "done"]
        /\ UNCHANGED <<made, pool, sweep, told, looked>>
    BY <1>0, <1>2 DEF MarkDone, WatchTypeOK
  <2>2. record[Current(k)] \in Marks
    BY <1>0, <2>1 DEF WatchTypeOK
  <2>3. [record[Current(k)] EXCEPT !.state = "done"] \in Marks
    BY <2>2 DEF Marks, States
  <2>4. /\ record' \in [Records -> Marks] /\ record'[Current(k)].state = "done"
        /\ \A r \in Records \ {Current(k)} : record'[r] = record[r]
    BY <1>0, <2>1, <2>2, <2>3 DEF WatchTypeOK, Marks
  <2>5. RecordIsTold'
    BY <1>0, <2>1, <2>4 DEF RecordIsTold
  <2>6. SweepMissesNone'
    BY <1>0, <1>t, <2>1, <2>4 DEF SweepMissesNone
  <2> QED BY <1>0, <2>1, <2>4, <2>5, <2>6 DEF WatchInv, WatchTypeOK, PoolIsCurrent, JudgedIsKnown
<1>3. CASE Unregister(k)
  <2>1. pool' \subseteq pool /\ UNCHANGED <<made, record, sweep, told, looked>>
    BY <1>3 DEF Unregister
  <2> QED BY <1>0, <2>1 DEF WatchInv, WatchTypeOK, PoolIsCurrent, JudgedIsKnown, SweepMissesNone,
                            RecordIsTold
<1> QED BY <1>1, <1>2, <1>3

LEMMA SweepEnds ==
    ASSUME WatchInv, BeginSweep \/ EndSweep PROVE WatchInv'
<1>0. WatchTypeOK /\ PoolIsCurrent /\ JudgedIsKnown /\ SweepMissesNone /\ RecordIsTold
  BY DEF WatchInv
<1>1. NotJudged \in Judgements
  BY WatchdogAssumption DEF NotJudged, Judgements, States
<1>2. UNCHANGED <<made, pool, record, told>>
  BY DEF BeginSweep, EndSweep
<1>3. CASE BeginSweep
  <2>1. sweep' = [on |-> TRUE, left |-> {r[1] : r \in pool}, judged |-> NotJudged]
        /\ looked' = [start |-> pool, seen |-> {}]
    BY <1>3 DEF BeginSweep
  <2>2. {r[1] : r \in pool} \in SUBSET Watched
    BY <1>0 DEF WatchTypeOK, Records
  <2>3. WatchTypeOK'
    BY <1>0, <1>1, <1>2, <2>1, <2>2 DEF WatchTypeOK
  <2>4. \A r \in pool : made[r[1]] \in Nat /\ r[2] = made[r[1]]
    BY <1>0, WatchdogAssumption DEF WatchTypeOK, Records, PoolIsCurrent
  <2> QED BY <1>0, <1>2, <2>1, <2>3, <2>4
         DEF WatchInv, PoolIsCurrent, JudgedIsKnown, SweepMissesNone, RecordIsTold
<1>4. CASE EndSweep
  <2>1. sweep' = [on |-> FALSE, left |-> {}, judged |-> NotJudged] /\ looked' = looked
    BY <1>4 DEF EndSweep, NoSweep
  <2> QED BY <1>0, <1>1, <1>2, <2>1
         DEF WatchInv, WatchTypeOK, PoolIsCurrent, JudgedIsKnown, SweepMissesNone, RecordIsTold
<1> QED BY <1>3, <1>4

(* A look at a key that leaves no record of it behind which it should see. *)
LEMMA OnwardKeeps ==
    ASSUME WatchInv, NEW k \in Watched, sweep' = Onward(k), UNCHANGED <<made, pool>>,
           record' \in [Records -> Marks], told' \in [Records -> Words], RecordIsTold',
           looked' \in [start : SUBSET Records, seen : SUBSET Records],
           looked'.start = looked.start, looked.seen \subseteq looked'.seen,
           \A r \in Records : r \in looked'.seen \/ record'[r] = record[r],
           \A r \in looked.start \ looked'.seen :
               r[1] = k => r \notin pool \/ record[r].state = "done"
    PROVE  WatchInv'
<1>0. WatchTypeOK /\ PoolIsCurrent /\ JudgedIsKnown /\ SweepMissesNone /\ RecordIsTold
  BY DEF WatchInv
<1>1. /\ sweep' \in [on : BOOLEAN, left : SUBSET Watched, judged : Judgements]
      /\ sweep'.on = sweep.on /\ sweep'.left = sweep.left \ {k} /\ sweep'.judged = NotJudged
  BY <1>0, OnwardIs
<1>2. WatchTypeOK'
  BY <1>0, <1>1 DEF WatchTypeOK
<1>3. PoolIsCurrent' /\ JudgedIsKnown'
  BY <1>0, <1>1 DEF PoolIsCurrent, JudgedIsKnown
<1>4. SweepMissesNone'
  <2>1. looked.start \subseteq Records
    BY <1>0 DEF WatchTypeOK
  <2> QED BY <1>0, <1>1, <2>1 DEF SweepMissesNone
<1> QED BY <1>2, <1>3, <1>4 DEF WatchInv

LEMMA LookSteps ==
    ASSUME WatchInv, NEW k \in Watched, NEW signal \in Signals,
           Skip(k) \/ Assess(k, signal) \/ AskJudge(k, signal)
    PROVE  WatchInv'
<1>0. WatchTypeOK /\ PoolIsCurrent /\ JudgedIsKnown /\ SweepMissesNone /\ RecordIsTold
  BY DEF WatchInv
<1>t. \A r \in Records : r = <<r[1], r[2]>>
  BY DEF Records
<1>c. \A r \in pool : r[1] = k => r = Current(k)
  BY <1>0, <1>t DEF WatchTypeOK, PoolIsCurrent, Current
<1>1. CASE Skip(k)
  <2>1. sweep' = Onward(k) /\ UNCHANGED <<made, pool, record, told, looked>> /\ ~Assessable(k)
    BY <1>1 DEF Skip
  <2>2. \A r \in looked.start : r[1] = k => r \notin pool \/ record[r].state = "done"
    BY <1>c, <2>1 DEF Assessable
  <2>3. RecordIsTold'
    BY <1>0, <2>1 DEF RecordIsTold
  <2> QED BY <1>0, <2>1, <2>2, <2>3, OnwardKeeps DEF WatchTypeOK
<1>2. CASE Assess(k, signal)
  <2> DEFINE r == Current(k)
             prev == record[r].state
             state == Classified(signal)
  <2>1. /\ sweep' = Onward(k) /\ UNCHANGED <<made, pool>> /\ Settle(r, prev, state)
        /\ r \in pool /\ prev # "done" /\ r \in Records
    BY <1>0, <1>2 DEF Assess, Assessable, WatchTypeOK
  <2>2. state \in States /\ told[r].state = prev
    BY <1>0, <2>1, FoundTyped DEF RecordIsTold
  <2> HIDE DEF r, prev, state
  <2>3. /\ record' \in [Records -> Marks] /\ told' \in [Records -> Words]
        /\ looked' \in [start : SUBSET Records, seen : SUBSET Records]
        /\ looked'.start = looked.start /\ looked'.seen = looked.seen \cup {r}
        /\ \A q \in Records \ {r} : record'[q] = record[q]
        /\ RecordIsTold'
    BY <1>0, <2>1, <2>2, SettleKeeps
  <2>4. \A q \in looked.start \ looked'.seen : q[1] = k => q \notin pool
    BY <1>c, <2>3 DEF r
  <2> QED BY <2>1, <2>3, <2>4, OnwardKeeps
<1>3. CASE AskJudge(k, signal)
  <2> DEFINE j == [key |-> {k}, number |-> made[k], prev |-> record[Current(k)].state,
                   found |-> Classified(signal)]
  <2>1. /\ sweep' = [sweep EXCEPT !.judged = j] /\ k \in sweep.left
        /\ UNCHANGED <<made, pool, record, told, looked>> /\ sweep.on
        /\ Current(k) \in pool /\ record[Current(k)].state # "done"
    BY <1>3 DEF AskJudge, Assessable, Idle
  <2>2. Current(k) \in Records /\ record[Current(k)] \in Marks /\ made[k] \in 0 .. MaxRecords
        /\ MaxRecords \in Nat
    BY <1>0, <2>1, WatchdogAssumption DEF WatchTypeOK
  <2>3. j \in Judgements
    BY <2>2, FoundTyped DEF Judgements, Marks
  <2>4. /\ j.key = {k} /\ j.number = made[k] /\ j.prev = record[Current(k)].state
    OBVIOUS
  <2> HIDE DEF j
  <2>5. /\ sweep' \in [on : BOOLEAN, left : SUBSET Watched, judged : Judgements]
        /\ sweep'.on = sweep.on /\ sweep'.left = sweep.left /\ sweep'.judged = j
    BY <1>0, <2>1, <2>3 DEF WatchTypeOK
  <2>6. WatchTypeOK'
    BY <1>0, <2>1, <2>5 DEF WatchTypeOK
  <2>7. \A r \in looked.start : r[1] = k => r[2] <= made[k]
    BY <1>0, <2>1 DEF SweepMissesNone
  <2>8. JudgedIsKnown'
    <3>1. told[<<k, made[k]>>].state = record[<<k, made[k]>>].state
      BY <1>0, <2>1, <2>2 DEF RecordIsTold, Current
    <3>2. made[k] <= made[k]
      BY <2>2
    <3>3. <<k, made[k]>> \in Records
      BY <2>2 DEF Current
    <3> QED BY <2>1, <2>4, <2>5, <2>7, <3>1, <3>2, <3>3 DEF JudgedIsKnown, Current
  <2> QED BY <1>0, <2>1, <2>5, <2>6, <2>8 DEF WatchInv, PoolIsCurrent, SweepMissesNone, RecordIsTold
<1> QED BY <1>1, <1>2, <1>3

LEMMA JudgeSteps ==
    ASSUME WatchInv, NEW k \in Watched, NEW state \in JudgeAllowed \cup Suspicious,
           Judged(k, state) \/ JudgeFails(k)
    PROVE  WatchInv'
<1>0. WatchTypeOK /\ PoolIsCurrent /\ JudgedIsKnown /\ SweepMissesNone /\ RecordIsTold
  BY DEF WatchInv
<1> DEFINE r == <<k, sweep.judged.number>>
<1>1. sweep.judged.key = {k} /\ sweep' = Onward(k) /\ UNCHANGED <<made, pool>>
  BY DEF Judged, JudgeFails
<1>2. sweep.judged # NotJudged
  BY <1>1 DEF NotJudged
<1>3. /\ r \in Records /\ sweep.judged.number <= made[k]
      /\ told[r].state = sweep.judged.prev
      /\ \A q \in looked.start : q[1] = k => q[2] <= sweep.judged.number
  BY <1>0, <1>1, <1>2 DEF JudgedIsKnown
<1>4. \A q \in looked.start : q[1] = k /\ q \in pool => q = r
  <2> SUFFICES ASSUME NEW q \in looked.start, q[1] = k, q \in pool PROVE q = r
    OBVIOUS
  <2>1. q \in Records /\ q = <<q[1], q[2]>> /\ q[2] \in Nat /\ q[2] = made[k]
    BY <1>0, WatchdogAssumption DEF WatchTypeOK, Records, PoolIsCurrent
  <2>2. sweep.judged.number \in Nat
    BY <1>0, WatchdogAssumption DEF WatchTypeOK, Judgements
  <2>3. q[2] = sweep.judged.number
    BY <1>3, <2>1, <2>2
  <2> QED BY <2>1, <2>3
<1> HIDE DEF r
<1>5. CASE Judged(k, state)
  <2>1. Settle(r, sweep.judged.prev, state)
    BY <1>5 DEF Judged, r
  <2>2. state \in States
    BY DEF JudgeAllowed, States, Suspicious, BadStates
  <2>3. /\ record' \in [Records -> Marks] /\ told' \in [Records -> Words]
        /\ looked' \in [start : SUBSET Records, seen : SUBSET Records]
        /\ looked'.start = looked.start /\ looked'.seen = looked.seen \cup {r}
        /\ \A q \in Records \ {r} : record'[q] = record[q]
        /\ RecordIsTold'
    BY <1>0, <1>3, <2>1, <2>2, SettleKeeps
  <2>4. \A q \in looked.start \ looked'.seen : q[1] = k => q \notin pool
    BY <1>4, <2>3
  <2> QED BY <1>1, <2>3, <2>4, OnwardKeeps
<1>6. CASE JudgeFails(k)
  <2>1. looked' = [looked EXCEPT !.seen = @ \cup {r}] /\ UNCHANGED <<record, told>>
    BY <1>6 DEF JudgeFails, r
  <2>2. /\ looked' \in [start : SUBSET Records, seen : SUBSET Records]
        /\ looked'.start = looked.start /\ looked'.seen = looked.seen \cup {r}
    BY <1>0, <1>3, <2>1 DEF WatchTypeOK
  <2>3. \A q \in looked.start \ looked'.seen : q[1] = k => q \notin pool
    BY <1>4, <2>2
  <2>4. RecordIsTold'
    BY <1>0, <2>1 DEF RecordIsTold
  <2> QED BY <1>0, <1>1, <2>1, <2>2, <2>3, <2>4, OnwardKeeps DEF WatchTypeOK
<1> QED BY <1>5, <1>6

LEMMA WatchKept == WatchInv /\ [WatchNext]_watchVars => WatchInv'
<1> SUFFICES ASSUME WatchInv, [WatchNext]_watchVars PROVE WatchInv'
  OBVIOUS
<1>1. CASE UNCHANGED watchVars
  BY <1>1 DEF watchVars, WatchInv, WatchTypeOK, PoolIsCurrent, JudgedIsKnown, SweepMissesNone,
              RecordIsTold
<1>2. ASSUME NEW k \in Watched, Skip(k) PROVE WatchInv'
  <2>1. [alive |-> TRUE, tail |-> "none", idle |-> "fresh"] \in Signals
    BY DEF Signals
  <2> QED BY <1>2, <2>1, LookSteps
<1>3. ASSUME NEW k \in Watched, JudgeFails(k) PROVE WatchInv'
  <2>1. "running" \in JudgeAllowed \cup Suspicious
    BY DEF JudgeAllowed
  <2> QED BY <1>3, <2>1, JudgeSteps
<1> QED BY <1>1, <1>2, <1>3, PoolSteps, SweepEnds, LookSteps, JudgeSteps DEF WatchNext

(* The supervisor's pool, records and reports keep their types.            *)
THEOREM WatchTypeCorrect == WatchSpec => []WatchTypeOK
<1>1. WatchInv => WatchTypeOK
  BY DEF WatchInv
<1> QED BY <1>1, WatchInitial, WatchKept, PTL DEF WatchSpec

(* SweepTellsOfAll: however agents come, go, are replaced and done while   *)
(* the sweep waits for the judge, and however the judge fails, a sweep     *)
(* leaves no agent of its own out, and the last word on every record is    *)
(* the state it is in (Supervisor.sweep, assess).                          *)
THEOREM SweepsTellOfAll == WatchSpec => []SweepTellsOfAll
<1>1. WatchInv => SweepTellsOfAll
  BY DEF WatchInv, SweepTellsOfAll, SweepMissesNone, RecordIsTold, Idle
<1> QED BY <1>1, WatchInitial, WatchKept, PTL DEF WatchSpec

-----------------------------------------------------------------------------
(* Approvals.                                                              *)

\* The fields a decision rests on.
CallsTypeOK ==
    /\ hook \in [Calls -> {"none", "pushing", "denied", "allowed", "lost"}]
    /\ approval \in [Calls -> {"none", "pending"} \cup Verdicts]
    /\ deciding \subseteq Calls /\ untold \subseteq Calls
    /\ results \in 0 .. MaxResults
    /\ timeline \in Seq(Events)

Hooks == [Calls -> {"none", "pushing", "denied", "allowed", "lost"}]
HooksGoOn == hook' \in Hooks /\ \A c \in Calls : hook'[c] = "none" => hook[c] = "none"

\* A call the hook has not heard of has no row, and only a decided one has a
\* decision: a single one, its row's, about to be recorded, recorded or cut.
RowsMatchEvents ==
    \A c \in Calls :
        /\ hook[c] = "none" => approval[c] = "none"
        /\ c \in deciding => approval[c] \in Verdicts
        /\ approval[c] \in Verdicts =>
              \/ c \in deciding \cup untold
              \/ \E i \in DOMAIN timeline : timeline[i] = Decided(c, approval[c])
        /\ \A i \in DOMAIN timeline, s \in Verdicts : timeline[i] = Decided(c, s) =>
              /\ approval[c] = s /\ c \notin deciding
              /\ \A j \in DOMAIN timeline : timeline[j] = Decided(c, s) => j = i

(* The steps by what they do to calls, rows and events.                    *)
LEMMA ApprovalSteps ==
    ASSUME CallsTypeOK, [ApprovalsNext]_approvalVars
    PROVE  \/ UNCHANGED <<approval, decisionVars, timeline, results>> /\ HooksGoOn
           \/ /\ UNCHANGED <<approval, decisionVars>> /\ HooksGoOn /\ results' \in 0 .. MaxResults
              /\ \E e \in Events : e.type \notin Verdicts /\ Put(e)
           \/ /\ UNCHANGED <<approval, timeline, results>> /\ HooksGoOn
              /\ deciding' = {} /\ untold' = untold \cup deciding
           \/ \E c \in Calls : Hold(c) \/ EmitDecided(c) \/ \E s \in Verdicts : Decide(c, s)
<1> USE DEF CallsTypeOK, Hooks, decisionVars
<1>1. \A c \in Calls : Asked(c) \in Events /\ Asked(c).type \notin Verdicts
  BY DEF Events, Asked, Verdicts
<1>2. \A n \in 1 .. MaxResults : Result(n) \in Events /\ Result(n).type \notin Verdicts
  BY DEF Events, Result, Verdicts
<1>3. ASSUME NEW c \in Calls, Allow(c)
      PROVE  UNCHANGED <<approval, decisionVars, timeline, results>> /\ HooksGoOn
  BY <1>3 DEF Allow, HooksGoOn
<1>4. ASSUME NEW c \in Calls, Deny(c)
      PROVE  /\ UNCHANGED <<approval, decisionVars, results>> /\ HooksGoOn
             /\ \E e \in Events : e.type \notin Verdicts /\ Put(e)
  <2>1. UNCHANGED <<approval, decisionVars, results>> /\ Put(Asked(c))
    BY <1>4 DEF Deny
  <2>2. HooksGoOn
    BY <1>4 DEF Deny, HooksGoOn
  <2> QED BY <1>1, <2>1, <2>2
<1>5. ASSUME Restart
      PROVE  /\ UNCHANGED <<approval, timeline, results>> /\ HooksGoOn
             /\ deciding' = {} /\ untold' = untold \cup deciding
  BY <1>5 DEF Restart, HooksGoOn
<1>6. ASSUME UNCHANGED <<hook, approval, decisionVars, timeline, results>>
      PROVE  UNCHANGED <<approval, decisionVars, timeline, results>> /\ HooksGoOn
  BY <1>6 DEF HooksGoOn
<1>7. ASSUME NEW c \in Calls, NEW p \in Phones, Ring(c, p)
      PROVE  UNCHANGED <<hook, approval, decisionVars, timeline, results>>
  BY <1>7 DEF Ring
<1>8. ASSUME NEW p \in Phones, Subscribe(p) \/ Unsubscribe(p)
      PROVE  UNCHANGED <<hook, approval, decisionVars, timeline, results>>
  BY <1>8 DEF Subscribe, Unsubscribe, hookVars
<1>9. ASSUME Pump \/ Watch \/ TakeFrame \/ FrameLost \/ HandleNotify \/ List
      PROVE  UNCHANGED <<hook, approval, decisionVars, timeline, results>>
  BY <1>9 DEF Pump, Watch, TakeFrame, FrameLost, HandleNotify, List, hookVars
<1>10. ASSUME NEW r \in seen, Acknowledge(r)
       PROVE  UNCHANGED <<hook, approval, decisionVars, timeline, results>>
  BY <1>10 DEF Acknowledge, hookVars
<1>11. ASSUME SessionResult
       PROVE  /\ UNCHANGED <<approval, decisionVars>> /\ HooksGoOn /\ results' \in 0 .. MaxResults
              /\ \E e \in Events : e.type \notin Verdicts /\ Put(e)
  <2>1. UNCHANGED <<approval, hook, decisionVars>> /\ results' \in 1 .. MaxResults
        /\ Put(Result(results'))
    BY <1>11, ApprovalsAssumption DEF SessionResult, hookVars
  <2> QED BY <1>2, <2>1 DEF HooksGoOn
<1>12. CASE UNCHANGED approvalVars
  BY <1>6, <1>12 DEF approvalVars
<1>13. CASE ApprovalsNext
  BY <1>3, <1>4, <1>5, <1>6, <1>7, <1>8, <1>9, <1>10, <1>11, <1>13 DEF ApprovalsNext
<1> QED BY <1>12, <1>13

-----------------------------------------------------------------------------
(* Types.                                                                  *)

LEMMA CallsTypeInit == ApprovalsInit => CallsTypeOK
<1>1. <<>> \in Seq(Events)
  OBVIOUS
<1> QED BY <1>1, ApprovalsAssumption DEF ApprovalsInit, CallsTypeOK

LEMMA EventsTyped ==
    ASSUME NEW c \in Calls
    PROVE  Asked(c) \in Events /\ \A s \in Verdicts : Decided(c, s) \in Events
BY DEF Events

LEMMA CallsTypeNext ==
    CallsTypeOK /\ RowsMatchEvents /\ [ApprovalsNext]_approvalVars => CallsTypeOK'
<1> SUFFICES ASSUME CallsTypeOK, RowsMatchEvents, [ApprovalsNext]_approvalVars
             PROVE  CallsTypeOK'
  OBVIOUS
<1> USE DEF CallsTypeOK, Hooks, decisionVars
<1>1. CASE UNCHANGED <<approval, decisionVars, timeline, results>> /\ HooksGoOn
  BY <1>1 DEF HooksGoOn
<1>2. CASE /\ UNCHANGED <<approval, decisionVars>> /\ HooksGoOn /\ results' \in 0 .. MaxResults
           /\ \E e \in Events : e.type \notin Verdicts /\ Put(e)
  <2>1. timeline' \in Seq(Events)
    BY <1>2 DEF Put
  <2> QED BY <1>2, <2>1 DEF HooksGoOn
<1>3. CASE /\ UNCHANGED <<approval, timeline, results>> /\ HooksGoOn
           /\ deciding' = {} /\ untold' = untold \cup deciding
  BY <1>3 DEF HooksGoOn
<1>4. ASSUME NEW c \in Calls, Hold(c) PROVE CallsTypeOK'
  BY <1>4 DEF Hold
<1>5. ASSUME NEW c \in Calls, NEW s \in Verdicts, Decide(c, s) PROVE CallsTypeOK'
  BY <1>5 DEF Decide
<1>6. ASSUME NEW c \in Calls, EmitDecided(c) PROVE CallsTypeOK'
  <2>1. approval[c] \in Verdicts
    BY <1>6 DEF EmitDecided, RowsMatchEvents
  <2>2. timeline' \in Seq(Events)
    BY <1>6, <2>1, EventsTyped DEF EmitDecided, Put
  <2> QED BY <1>6, <2>2 DEF EmitDecided
<1> QED BY <1>1, <1>2, <1>3, <1>4, <1>5, <1>6, ApprovalSteps

-----------------------------------------------------------------------------
(* Decisions.                                                              *)

LEMMA RowsStart == ApprovalsInit => RowsMatchEvents
BY DEF ApprovalsInit, RowsMatchEvents, Verdicts

(* An event that is no decision leaves the decisions where they are.       *)
LEMMA OtherEventKeeps ==
    ASSUME CallsTypeOK, RowsMatchEvents, NEW e \in Events, e.type \notin Verdicts, Put(e),
           HooksGoOn, UNCHANGED <<approval, decisionVars>>
    PROVE  RowsMatchEvents'
<1>1. \A c \in Calls, s \in Verdicts : e # Decided(c, s)
  BY DEF Decided
<1>2. \A i \in DOMAIN timeline' : \/ i \in DOMAIN timeline /\ timeline'[i] = timeline[i]
                                  \/ timeline'[i] = e
  BY DEF Put, CallsTypeOK
<1>3. \A i \in DOMAIN timeline : i \in DOMAIN timeline' /\ timeline'[i] = timeline[i]
  BY DEF Put, CallsTypeOK
<1> QED BY <1>1, <1>2, <1>3 DEF RowsMatchEvents, HooksGoOn, decisionVars

LEMMA RowsKept ==
    CallsTypeOK /\ RowsMatchEvents /\ [ApprovalsNext]_approvalVars => RowsMatchEvents'
<1> SUFFICES ASSUME CallsTypeOK, RowsMatchEvents, [ApprovalsNext]_approvalVars
             PROVE  RowsMatchEvents'
  OBVIOUS
<1>1. CASE UNCHANGED <<approval, decisionVars, timeline, results>> /\ HooksGoOn
  BY <1>1 DEF RowsMatchEvents, HooksGoOn, decisionVars
<1>2. CASE /\ UNCHANGED <<approval, decisionVars>> /\ HooksGoOn
           /\ \E e \in Events : e.type \notin Verdicts /\ Put(e)
  BY <1>2, OtherEventKeeps
<1>3. CASE /\ UNCHANGED <<approval, timeline, results>> /\ HooksGoOn
           /\ deciding' = {} /\ untold' = untold \cup deciding
  BY <1>3 DEF RowsMatchEvents, HooksGoOn
<1>4. ASSUME NEW c \in Calls, Hold(c) PROVE RowsMatchEvents'
  <2>1. /\ hook[c] = "none" /\ HooksGoOn /\ hook'[c] # "none" /\ approval'[c] = "pending"
        /\ \A d \in Calls \ {c} : approval'[d] = approval[d]
        /\ UNCHANGED <<timeline, decisionVars>>
    BY <1>4 DEF Hold, HooksGoOn, Hooks, CallsTypeOK
  <2>2. approval[c] = "none" /\ "none" \notin Verdicts /\ "pending" \notin Verdicts
    BY <2>1 DEF RowsMatchEvents, Verdicts
  <2> QED BY <2>1, <2>2 DEF RowsMatchEvents, HooksGoOn, decisionVars
<1>5. ASSUME NEW c \in Calls, NEW s \in Verdicts, Decide(c, s) PROVE RowsMatchEvents'
  <2>1. /\ approval[c] = "pending" /\ UNCHANGED <<hook, timeline, untold>> /\ approval'[c] = s
        /\ \A d \in Calls \ {c} : approval'[d] = approval[d]
        /\ deciding' = deciding \cup {c}
    BY <1>5 DEF Decide, CallsTypeOK
  <2>2. "pending" \notin Verdicts
    BY DEF Verdicts
  <2> QED BY <2>1, <2>2 DEF RowsMatchEvents
<1>6. ASSUME NEW c \in Calls, EmitDecided(c) PROVE RowsMatchEvents'
  <2>1. /\ c \in deciding /\ deciding' = deciding \ {c} /\ Put(Decided(c, approval[c]))
        /\ UNCHANGED <<hook, approval, untold>> /\ approval[c] \in Verdicts
    BY <1>6 DEF EmitDecided, RowsMatchEvents
  <2>2. /\ timeline'[Len(timeline) + 1] = Decided(c, approval[c])
        /\ \A i \in DOMAIN timeline : timeline'[i] = timeline[i]
        /\ DOMAIN timeline' = DOMAIN timeline \cup {Len(timeline) + 1}
        /\ Len(timeline) + 1 \notin DOMAIN timeline
    BY <2>1 DEF Put, CallsTypeOK
  <2>3. \A d \in Calls, v, s \in Verdicts : Decided(c, v) = Decided(d, s) => d = c /\ v = s
    BY DEF Decided
  <2>4. \A i \in DOMAIN timeline, v \in Verdicts : timeline[i] # Decided(c, v)
    BY <2>1 DEF RowsMatchEvents
  <2> QED BY <2>1, <2>2, <2>3, <2>4 DEF RowsMatchEvents
<1> QED BY <1>1, <1>2, <1>3, <1>4, <1>5, <1>6, ApprovalSteps

(* The hook's calls, their rows and the events keep their types.           *)
THEOREM CallsTypeCorrect == ApprovalsSpec => []CallsTypeOK
BY CallsTypeInit, CallsTypeNext, RowsStart, RowsKept, PTL DEF ApprovalsSpec

(* DecidedOnce: a call is decided once at most, by whoever comes first; the *)
(* decision in the timeline is the one its row keeps, and only a restart   *)
(* between the two commits keeps it out (Gate.resolve), for any calls.     *)
THEOREM CallsAreDecidedOnce == ApprovalsSpec => []DecidedOnce
<1>1. CallsTypeOK /\ RowsMatchEvents => DecidedOnce
  <2> SUFFICES ASSUME CallsTypeOK, RowsMatchEvents, NEW c \in Calls
               PROVE  /\ Cardinality(UNION {Says(Decided(c, s)) : s \in Verdicts}) <= 1
                      /\ \A s \in Verdicts :
                            /\ Says(Decided(c, s)) # {} => approval[c] = s
                            /\ approval[c] = s =>
                                  Says(Decided(c, s)) # {} \/ c \in deciding \cup untold
    BY DEF DecidedOnce
  <2> DEFINE all == UNION {Says(Decided(c, s)) : s \in Verdicts}
  <2>0. \A s \in Verdicts, i \in DOMAIN timeline :
           timeline[i] = Decided(c, s) <=> i \in Says(Decided(c, s))
    BY DEF Says
  <2>1. \A s \in Verdicts : /\ Says(Decided(c, s)) # {} => approval[c] = s
                            /\ approval[c] = s =>
                                  Says(Decided(c, s)) # {} \/ c \in deciding \cup untold
    <3>1. ASSUME NEW s \in Verdicts, NEW i \in Says(Decided(c, s)) PROVE approval[c] = s
      BY <3>1 DEF RowsMatchEvents, Says
    <3>2. ASSUME NEW s \in Verdicts, approval[c] = s, c \notin deciding \cup untold
          PROVE  \E i \in DOMAIN timeline : timeline[i] = Decided(c, s)
      BY <3>2 DEF RowsMatchEvents
    <3> QED BY <2>0, <3>1, <3>2
  <2>2. ASSUME NEW i \in all, NEW j \in all PROVE i = j
    <3>1. PICK s \in Verdicts : i \in Says(Decided(c, s))
      OBVIOUS
    <3>2. PICK v \in Verdicts : j \in Says(Decided(c, v))
      OBVIOUS
    <3>3. s = v
      BY <2>1, <3>1, <3>2
    <3> QED BY <3>1, <3>2, <3>3 DEF RowsMatchEvents, Says
  <2> HIDE DEF all
  <2>3. Cardinality(all) <= 1
    <3>1. CASE all = {}
      BY <3>1, FS_EmptySet
    <3>2. ASSUME NEW i \in all PROVE Cardinality(all) <= 1
      <4>1. all = {i}
        BY <2>2, <3>2
      <4>2. Cardinality({i}) = 1
        BY FS_Singleton
      <4> QED BY <4>1, <4>2
    <3> QED BY <3>1, <3>2
  <2> QED BY <2>1, <2>3 DEF all
<1> QED BY <1>1, CallsTypeInit, CallsTypeNext, RowsStart, RowsKept, PTL DEF ApprovalsSpec
===============================================================================
