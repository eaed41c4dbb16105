-------------------------- MODULE RelayLink_proofs --------------------------
(***************************************************************************)
(* Proofs about RelayLink, for any set of requests, any number of dials    *)
(* and browser visits, and restarts of either side at any point.           *)
(***************************************************************************)
EXTENDS RelayLink, SequenceTheorems, TLAPS

Frames == Presence \cup Commands

-----------------------------------------------------------------------------
(* Type correctness.                                                       *)

(* A non-empty sequence comes apart into its head and its tail.            *)
LEMMA Pop ==
  ASSUME NEW S, NEW s \in Seq(S), s # <<>>
  PROVE  Head(s) \in S /\ Tail(s) \in Seq(S)
BY HeadTailProperties

(* The frame a command step takes is a numbered command.                   *)
LEMMA TakenCommand ==
  ASSUME TypeOK, NEW c, Takes(c)
  PROVE  Head(down) \in Commands /\ Tail(down) \in Seq(Frames)
<1>1. down \in Seq(Frames)
  BY DEF TypeOK, Frames
<1>2. Head(down) \in Frames /\ Tail(down) \in Seq(Frames)
  BY <1>1, Pop DEF Takes
<1>3. Head(down) \notin Presence
  BY DEF Takes, Presence
<1> QED BY <1>2, <1>3 DEF Frames

(* Sending on a connection adds at most a frame to the wire.               *)
LEMMA PutType ==
  ASSUME TypeOK, NEW l, NEW f \in Frames, Put(l, f)
  PROVE  down' \in Seq(Frames)
<1>1. down \in Seq(Frames)
  BY DEF TypeOK, Frames
<1> QED BY <1>1 DEF Put

LEMMA SendType ==
  ASSUME TypeOK, NEW l, NEW c \in Requests, SendCommand(l, c)
  PROVE  down' \in Seq(Frames) /\ seqNo' \in Nat
<1>1. seqNo + 1 \in Nat /\ seqNo \in Nat
  BY DEF TypeOK
<1>2. [k |-> "command", c |-> c, seq |-> seqNo + 1] \in Frames
  BY <1>1 DEF Frames, Commands
<1>3. down' \in Seq(Frames)
  BY <1>2, PutType DEF SendCommand
<1> QED BY <1>1, <1>3 DEF SendCommand

(* So does an answer.                                                      *)
LEMMA AnswerType ==
  ASSUME TypeOK, NEW c \in Requests, NEW r \in Results \cup {"replay"},
         Answer(c, r)
  PROVE  up' \in [Links -> Seq(Acks)]
<1>1. [c |-> c, r |-> r] \in Acks
  BY DEF Acks
<1>2. up \in [Links -> Seq(Acks)]
  BY DEF TypeOK
<1>3. CASE clink \in Links
  <2>1. up[clink] \in Seq(Acks)
    BY <1>2, <1>3
  <2>2. Append(up[clink], [c |-> c, r |-> r]) \in Seq(Acks)
    BY <1>1, <2>1
  <2> QED BY <1>2, <2>1, <2>2 DEF Answer
<1>4. CASE clink \notin Links
  BY <1>2, <1>4 DEF Answer
<1> QED BY <1>3, <1>4

LEMMA PresenceType ==
  ASSUME TypeOK, NEW f \in {"subscribe", "unsubscribe"},
         PresenceFrame(f) \/ UNCHANGED down
  PROVE  down' \in Seq(Frames)
<1>1. [k |-> f] \in Frames
  BY DEF Frames, Presence
<1>2. CASE UNCHANGED down
  BY <1>2 DEF TypeOK, Frames
<1>3. CASE PresenceFrame(f)
  <2>1. CASE Reach # 0
    BY <1>1, <1>3, <2>1, PutType DEF PresenceFrame
  <2>2. CASE Reach = 0
    BY <1>2, <1>3, <2>2 DEF PresenceFrame
  <2> QED BY <2>1, <2>2
<1> QED BY <1>2, <1>3

LEMMA TypeInit == Init => TypeOK
<1> SUFFICES ASSUME Init PROVE TypeOK
  OBVIOUS
<1>1. down \in Seq(Presence \cup Commands) /\ up \in [Links -> Seq(Acks)]
  <2>1. <<>> \in Seq(Presence \cup Commands) /\ <<>> \in Seq(Acks)
    OBVIOUS
  <2> QED BY <2>1 DEF Init
<1>2. /\ rows \in [Links -> SUBSET Requests] /\ kept \in [Links -> SUBSET Requests]
      /\ srv \in [Links -> Phases]
      /\ cache \in [Requests -> Results \cup {"none"}]
      /\ outcome \in [Requests -> Open \cup Closed]
      /\ ran \in [Requests -> Nat]
  BY DEF Init, Phases, Open
<1>3. /\ visits \in 0..MaxVisits /\ subs \in 0..visits /\ watchers \in 0..subs
      /\ dialled \in 0..MaxLinks /\ clink \in 0..dialled
      /\ seqNo \in Nat /\ lastSeq \in Nat
  BY LimitsAssumption DEF Init
<1>4. /\ conns \subseteq Links /\ queue \subseteq Requests /\ forgot \subseteq Requests
      /\ running \in Requests \cup {None} /\ effect \in BOOLEAN
      /\ online \in BOOLEAN /\ restarted \in BOOLEAN
      /\ subscribed \in BOOLEAN /\ told \in BOOLEAN
  BY DEF Init
<1> QED BY <1>1, <1>2, <1>3, <1>4 DEF TypeOK

(* The phone and the browsers.                                             *)
LEMMA TypePhone == TypeOK /\ (Phone \/ Browsers) => TypeOK'
<1> SUFFICES ASSUME TypeOK, Phone \/ Browsers PROVE TypeOK'
  OBVIOUS
<1> USE LimitsAssumption DEF vars, flushVars, serveVars, peopleVars, runVars,
        memoVars, lineVars, streamVars
<1>0. down \in Seq(Frames) /\ seqNo \in Nat
  BY DEF TypeOK, Frames
<1>1. ASSUME NEW c \in Requests, Route(c) PROVE TypeOK'
  <2>1. down' \in Seq(Frames) /\ seqNo' \in Nat
    BY <1>0, <1>1, SendType DEF Route
  <2>2. outcome' \in [Requests -> Open \cup Closed] /\ queue' \subseteq Requests
    BY <1>1 DEF Route, TypeOK, Open
  <2> QED BY <1>1, <2>1, <2>2 DEF Route, TypeOK, Frames
<1>2. ASSUME NEW c \in Requests, RouteRaises(c) PROVE TypeOK'
  <2>1. down' \in Seq(Frames) /\ seqNo' \in Nat
    BY <1>0, <1>2, SendType DEF RouteRaises
  <2>2. outcome' \in [Requests -> Open \cup Closed]
    BY <1>2 DEF RouteRaises, TypeOK, Closed
  <2> QED BY <1>2, <2>1, <2>2 DEF RouteRaises, TypeOK, Frames
<1>3. ASSUME NEW c \in Requests, Timeout(c) PROVE TypeOK'
  BY <1>3 DEF Timeout, TypeOK, Closed
<1>4. CASE Subscribe
  <2>1. down' \in Seq(Frames)
    BY <1>4, PresenceType DEF Subscribe
  <2> QED BY <1>4, <2>1 DEF Subscribe, TypeOK, Frames
<1>5. CASE SubscribeRaises
  <2>1. down' \in Seq(Frames)
    BY <1>5, PresenceType DEF SubscribeRaises
  <2> QED BY <1>5, <2>1 DEF SubscribeRaises, TypeOK, Frames
<1>6. CASE Unsubscribe
  <2>1. down' \in Seq(Frames)
    BY <1>6, PresenceType DEF Unsubscribe
  <2> QED BY <1>6, <2>1 DEF Unsubscribe, TypeOK, Frames
<1> QED BY <1>1, <1>2, <1>3, <1>4, <1>5, <1>6 DEF Phone, Browsers

(* The server's side of the connections.                                   *)
LEMMA TypeServer == TypeOK /\ Server => TypeOK'
<1> SUFFICES ASSUME TypeOK, Server PROVE TypeOK'
  OBVIOUS
<1> USE LimitsAssumption DEF vars, flushVars, serveVars, peopleVars, runVars,
        memoVars, lineVars, streamVars
<1>0. down \in Seq(Frames) /\ seqNo \in Nat
  BY DEF TypeOK, Frames
<1>1. ASSUME NEW l \in Links, Accept(l) PROVE TypeOK'
  BY <1>1 DEF Accept, TypeOK, Phases
<1>2. ASSUME NEW l \in Links, Greet(l) PROVE TypeOK'
  <2>1. [k |-> "subscribe"] \in Frames
    BY DEF Frames, Presence
  <2>2. down' \in Seq(Frames)
    BY <1>0, <1>2, <2>1, PutType DEF Greet
  <2> QED BY <1>2, <2>2 DEF Greet, TypeOK, Phases, Frames
<1>3. ASSUME NEW l \in Links, FlushDone(l) PROVE TypeOK'
  BY <1>3 DEF FlushDone, TypeOK, Phases
<1>4. ASSUME NEW l \in Links, ReadAck(l) PROVE TypeOK'
  <2>1. Head(up[l]) \in Acks /\ Tail(up[l]) \in Seq(Acks)
    BY <1>4, Pop DEF ReadAck, TypeOK
  <2>2. up' \in [Links -> Seq(Acks)]
    BY <1>4, <2>1 DEF ReadAck, TypeOK
  <2>3. PICK a : a = Head(up[l])
    OBVIOUS
  <2>4. a.c \in Requests /\ a.r \in Closed
    BY <2>1, <2>3 DEF Acks, Closed
  <2>5. outcome' \in [Requests -> Open \cup Closed] /\ queue' \subseteq Requests
    <3>1. CASE outcome[a.c] = "waiting"
      BY <1>4, <2>3, <2>4, <3>1 DEF ReadAck, TypeOK
    <3>2. CASE outcome[a.c] # "waiting"
      BY <1>4, <2>3, <3>2 DEF ReadAck, TypeOK
    <3> QED BY <3>1, <3>2
  <2> QED BY <1>4, <2>2, <2>5 DEF ReadAck, TypeOK
<1>5. ASSUME NEW l \in Links, EndServe(l) PROVE TypeOK'
  <2>1. up' \in [Links -> Seq(Acks)]
    BY <1>5 DEF EndServe, TypeOK
  <2> QED BY <1>5, <2>1 DEF EndServe, TypeOK, Phases
<1>6. ASSUME NEW l \in Links, NEW c \in Requests, FlushRow(l, c) PROVE TypeOK'
  <2>1. down' \in Seq(Frames) /\ seqNo' \in Nat
    BY <1>0, <1>6, SendType DEF FlushRow
  <2>2. rows' \in [Links -> SUBSET Requests]
    BY <1>6 DEF FlushRow, TypeOK
  <2>3. kept' \in [Links -> SUBSET Requests]
    <3>1. CASE kept' = [kept EXCEPT ![l] = @ \cup {c}]
      BY <3>1 DEF TypeOK
    <3>2. CASE kept' = kept
      BY <3>2 DEF TypeOK
    <3> QED BY <1>6, <3>1, <3>2 DEF FlushRow
  <2> QED BY <1>6, <2>1, <2>2, <2>3 DEF FlushRow, TypeOK, Frames
<1>7. CASE ServerRestart
  <2>1. up' \in [Links -> Seq(Acks)]
    BY <1>7 DEF ServerRestart
  <2>2. outcome' \in [Requests -> Open \cup Closed]
    BY <1>7 DEF ServerRestart, TypeOK, Closed
  <2> QED BY <1>7, <2>1, <2>2 DEF ServerRestart, TypeOK, Phases
<1> QED BY <1>1, <1>2, <1>3, <1>4, <1>5, <1>6, <1>7 DEF Server

(* The client.                                                             *)
LEMMA TypeClient == TypeOK /\ Client => TypeOK'
<1> SUFFICES ASSUME TypeOK, Client PROVE TypeOK'
  OBVIOUS
<1> USE LimitsAssumption DEF vars, flushVars, serveVars, peopleVars, runVars,
        memoVars, lineVars, streamVars
<1>0. <<>> \in Seq(Frames)
  OBVIOUS
<1>1. CASE Dial
  <2>1. dialled + 1 \in 0..MaxLinks /\ dialled' = dialled + 1 /\ clink' = dialled + 1
    BY <1>1 DEF Dial, TypeOK
  <2>2. srv' \in [Links -> Phases]
    BY <1>1 DEF Dial, TypeOK, Phases
  <2>3. dialled' \in 0..MaxLinks /\ clink' \in 0..dialled'
    BY <2>1
  <2> QED BY <1>1, <2>2, <2>3 DEF Dial, TypeOK
<1>2. CASE Drop
  <2>1. 0 \in 0..dialled
    BY DEF TypeOK
  <2> QED BY <1>0, <1>2, <2>1 DEF Drop, TypeOK, Frames
<1>3. CASE ReadPresence
  <2>1. Tail(down) \in Seq(Frames)
    BY <1>3, Pop DEF ReadPresence, TypeOK, Frames
  <2> QED BY <1>3, <2>1 DEF ReadPresence, TypeOK, Frames
<1>4. CASE TakeEffect
  BY <1>4 DEF TakeEffect, TypeOK
<1>5. CASE ClientRestart
  <2>1. 0 \in 0..dialled /\ 0 \in Nat
    BY DEF TypeOK
  <2>2. cache' \in [Requests -> Results \cup {"none"}]
    BY <1>5 DEF ClientRestart
  <2> QED BY <1>0, <1>5, <2>1, <2>2 DEF ClientRestart, TypeOK, Frames
<1>6. ASSUME NEW c \in Requests, RefuseReplay(c) PROVE TypeOK'
  <2>1. Tail(down) \in Seq(Frames)
    BY <1>6, TakenCommand DEF RefuseReplay
  <2>2. up' \in [Links -> Seq(Acks)]
    BY <1>6, AnswerType DEF RefuseReplay
  <2> QED BY <1>6, <2>1, <2>2 DEF RefuseReplay, Takes, TypeOK, Frames
<1>7. ASSUME NEW c \in Requests, TakesFresh(c)
      PROVE  down' \in Seq(Frames) /\ lastSeq' \in Nat
  BY <1>7, TakenCommand DEF TakesFresh, Takes, Commands
<1>8. ASSUME NEW c \in Requests, RepeatAnswer(c) PROVE TypeOK'
  <2>1. up' \in [Links -> Seq(Acks)]
    BY <1>8, AnswerType DEF RepeatAnswer, TypeOK
  <2> QED BY <1>7, <1>8, <2>1 DEF RepeatAnswer, TypeOK, Frames
<1>9. ASSUME NEW c \in Requests, RefuseDisabled(c) PROVE TypeOK'
  <2>1. up' \in [Links -> Seq(Acks)]
    BY <1>9, AnswerType DEF RefuseDisabled, Results
  <2> QED BY <1>7, <1>9, <2>1 DEF RefuseDisabled, TypeOK, Frames, Results
<1>10. ASSUME NEW c \in Requests, StartCommand(c) PROVE TypeOK'
  BY <1>7, <1>10 DEF StartCommand, TypeOK, Frames
<1>11. ASSUME NEW r \in Results, Reply(r) PROVE TypeOK'
  <2>1. running \in Requests /\ r \in Results
    BY <1>11 DEF Reply, TypeOK
  <2>2. up' \in [Links -> Seq(Acks)]
    BY <1>11, <2>1, AnswerType DEF Reply
  <2> QED BY <1>11, <2>1, <2>2 DEF Reply, TypeOK
<1> QED BY <1>1, <1>2, <1>3, <1>4, <1>5, <1>6, <1>8, <1>9, <1>10, <1>11
        DEF Client

LEMMA TypeNext == TypeOK /\ [Next]_vars => TypeOK'
<1>1. TypeOK /\ UNCHANGED vars => TypeOK'
  BY DEF vars, flushVars, serveVars, peopleVars, runVars, memoVars, lineVars,
     streamVars, TypeOK
<1> QED BY <1>1, TypePhone, TypeServer, TypeClient DEF Next

(* Every variable keeps its type; no more browsers are counted than came,  *)
(* and no fewer than are connected.                                        *)
THEOREM TypeCorrect == Spec => []TypeOK
<1> QED BY TypeInit, TypeNext, PTL DEF Spec

-----------------------------------------------------------------------------
(* Presence in the registry, and requests that are answered.               *)

(* While a connection of the process is registered the registry shows it   *)
(* online, whichever of two overlapping connections ends first; only a     *)
(* server restart leaves it online without one.                            *)
THEOREM OnlineMeansConnected == Spec => []OnlineIsConnected
<1>1. Init => OnlineIsConnected
  BY DEF Init, OnlineIsConnected
<1>2. OnlineIsConnected /\ [Next]_vars => OnlineIsConnected'
  <2> SUFFICES ASSUME OnlineIsConnected, [Next]_vars PROVE OnlineIsConnected'
    OBVIOUS
  <2> USE DEF OnlineIsConnected, serveVars
  <2>1. ASSUME NEW l \in Links, Accept(l) PROVE OnlineIsConnected'
    BY <2>1 DEF Accept
  <2>2. ASSUME NEW l \in Links, EndServe(l) PROVE OnlineIsConnected'
    BY <2>2 DEF EndServe
  <2>3. CASE ServerRestart
    BY <2>3 DEF ServerRestart
  <2>4. CASE \/ Phone \/ Browsers \/ Client \/ UNCHANGED vars
             \/ \E l \in Links : \/ Greet(l) \/ FlushDone(l) \/ ReadAck(l)
                                 \/ \E c \in Requests : FlushRow(l, c)
    BY <2>4 DEF Phone, Browsers, Client, vars, Route, RouteRaises, Timeout,
       Subscribe, SubscribeRaises, Unsubscribe, Greet, FlushDone, ReadAck,
       FlushRow, Dial, Drop, ReadPresence, TakeEffect, ClientRestart,
       RefuseReplay, RepeatAnswer, RefuseDisabled, StartCommand, Reply
  <2> QED BY <2>1, <2>2, <2>3, <2>4 DEF Next, Server
<1> QED BY <1>1, <1>2, PTL DEF Spec

(* The last frame of a longer wire is the frame that was sent.             *)
LEMMA PutLast ==
  ASSUME TypeOK, NEW STATE l, NEW STATE f, Put(l, f), Len(down') > Len(down)
  PROVE  down'[Len(down')] = f
<1>1. down \in Seq(Presence \cup Commands)
  BY DEF TypeOK
<1>2. down' = Append(down, f)
  BY <1>1 DEF Put
<1> QED BY <1>1, <1>2

(* A request that was answered or has timed out is not sent any more.      *)
THEOREM AnsweredIsNotSent == Spec => AnsweredStaysUnsent
<1> DEFINE Sent == Len(down') > Len(down) /\ down'[Len(down')].k = "command"
           Unanswered == outcome[down'[Len(down')].c] \in Open
<1>1. TypeOK /\ [Next]_vars => (Sent => Unanswered)
  <2> SUFFICES ASSUME TypeOK, [Next]_vars, Sent PROVE Unanswered
    OBVIOUS
  <2>0. down \in Seq(Presence \cup Commands)
    BY DEF TypeOK
  <2>1. ASSUME NEW l, NEW c, SendCommand(l, c) PROVE down'[Len(down')].c = c
    BY <2>1, PutLast DEF SendCommand
  <2>2. ASSUME NEW l, NEW kind \in {"subscribe", "unsubscribe"}, Put(l, [k |-> kind])
        PROVE  FALSE
    BY <2>2, PutLast
  <2>3. ASSUME NEW c \in Requests, Route(c) \/ RouteRaises(c) PROVE Unanswered
    <3>1. SendCommand(Reach, c)
      BY <2>3 DEF Route, RouteRaises
    <3>2. down'[Len(down')].c = c
      BY <3>1, PutLast DEF SendCommand
    <3> QED BY <2>3, <3>2 DEF Route, RouteRaises, Open
  <2>4. ASSUME NEW l \in Links, NEW c \in Requests, FlushRow(l, c) PROVE Unanswered
    <3>1. SendCommand(l, c) /\ outcome[c] = "waiting"
      BY <2>4 DEF FlushRow
    <3> QED BY <2>1, <3>1 DEF Open
  <2>5. CASE Browsers
    <3>1. PICK kind \in {"subscribe", "unsubscribe"} : PresenceFrame(kind)
      BY <2>5 DEF Browsers, Subscribe, SubscribeRaises, Unsubscribe
    <3>2. Put(Reach, [k |-> kind])
      BY <3>1 DEF PresenceFrame
    <3>3. down'[Len(down')].k = kind
      BY <3>2, PutLast
    <3> QED BY <3>3
  <2>6. ASSUME NEW l \in Links, Greet(l) PROVE FALSE
    BY <2>2, <2>6 DEF Greet
  <2>7. ASSUME down' \in {down, <<>>} PROVE FALSE
    BY <2>0, <2>7
  <2>8. ASSUME down # <<>>, down' = Tail(down) PROVE FALSE
    <3>1. Len(Tail(down)) = Len(down) - 1 /\ Len(down) \in Nat
      BY <2>0, <2>8, HeadTailProperties, LenProperties
    <3> QED BY <2>8, <3>1
  <2>9. CASE \/ \E c \in Requests : Timeout(c)
             \/ \E l \in Links : \/ Accept(l) \/ FlushDone(l) \/ ReadAck(l)
                                 \/ EndServe(l)
             \/ ServerRestart \/ Dial \/ Drop \/ TakeEffect \/ ClientRestart
             \/ \E r \in Results : Reply(r)
             \/ UNCHANGED vars
    BY <2>7, <2>9 DEF vars, Timeout, Accept, FlushDone, ReadAck, EndServe,
       ServerRestart, Dial, Drop, TakeEffect, ClientRestart, Reply
  <2>10. CASE \/ ReadPresence
              \/ \E c \in Requests : \/ RefuseReplay(c) \/ RepeatAnswer(c)
                                     \/ RefuseDisabled(c) \/ StartCommand(c)
    BY <2>8, <2>10 DEF ReadPresence, RefuseReplay, RepeatAnswer,
       RefuseDisabled, StartCommand, TakesFresh, Takes
  <2> QED BY <2>3, <2>4, <2>5, <2>6, <2>9, <2>10
          DEF Next, Phone, Server, Client
<1> QED BY <1>1, TypeCorrect, PTL DEF Spec, AnsweredStaysUnsent

-----------------------------------------------------------------------------
(* A command runs at most once, and its answer stands.                     *)

(* Whatever took effect is on record somewhere, and a command that runs    *)
(* has no answer yet.                                                      *)
OnceInv ==
  /\ AtMostOnce
  /\ \A c \in Requests :
       ran[c] > 0 => c \in forgot \/ cache[c] # "none" \/ (running = c /\ effect)
  /\ running # None => cache[running] = "none" /\ (effect => ran[running] > 0)
  /\ \A c \in Requests : cache[c] = "disabled" => ran[c] = 0 \/ c \in forgot

(* What the client knows of a command only grows, unless it is forgotten.  *)
Remembered ==
  \A c \in Requests :
    /\ ran'[c] >= ran[c]
    /\ c \in forgot => c \in forgot'
    /\ cache[c] # "none" => cache'[c] = cache[c] \/ c \in forgot'

(* Every other step leaves the client's record of commands alone.          *)
LEMMA RecordSteps ==
  ASSUME [Next]_vars
  PROVE  \/ UNCHANGED <<ran, cache, forgot, running, effect>>
         \/ Drop \/ TakeEffect \/ ClientRestart
         \/ \E c \in Requests : RefuseDisabled(c) \/ StartCommand(c)
         \/ \E r \in Results : Reply(r)
<1> USE DEF runVars, memoVars
<1>1. CASE Phone \/ Browsers
  BY <1>1 DEF Phone, Browsers, Route, RouteRaises, Timeout, Subscribe,
     SubscribeRaises, Unsubscribe
<1>2. CASE Server
  BY <1>2 DEF Server, Accept, Greet, FlushDone, ReadAck, EndServe, FlushRow,
     ServerRestart
<1>3. CASE Client
  BY <1>3 DEF Client, Dial, ReadPresence, RefuseReplay, RepeatAnswer
<1>4. CASE UNCHANGED vars
  BY <1>4 DEF vars
<1> QED BY <1>1, <1>2, <1>3, <1>4 DEF Next

LEMMA OnceNext ==
  ASSUME TypeOK, OnceInv, [Next]_vars
  PROVE  OnceInv' /\ Remembered
<1> USE RequestsAssumption DEF OnceInv, AtMostOnce, Remembered
<1>0. /\ ran \in [Requests -> Nat] /\ forgot \subseteq Requests
      /\ cache \in [Requests -> Results \cup {"none"}]
      /\ running \in Requests \cup {None} /\ effect \in BOOLEAN
  BY DEF TypeOK
<1>1. CASE UNCHANGED <<ran, cache, forgot, running, effect>>
  BY <1>0, <1>1
<1>2. CASE Drop
  BY <1>0, <1>2 DEF Drop
<1>3. CASE TakeEffect
  <2>1. PICK c \in Requests : running = c
    BY <1>0, <1>3 DEF TakeEffect
  <2>2. /\ ran' = [ran EXCEPT ![c] = @ + 1] /\ effect'
        /\ UNCHANGED <<cache, forgot, running>>
    BY <1>3, <2>1 DEF TakeEffect, memoVars
  <2>3. ran[c] > 0 => c \in forgot
    BY <1>3, <2>1 DEF TakeEffect
  <2> QED BY <1>0, <2>1, <2>2, <2>3
<1>4. CASE ClientRestart
  BY <1>0, <1>4 DEF ClientRestart
<1>5. ASSUME NEW c \in Requests, RefuseDisabled(c) PROVE OnceInv' /\ Remembered
  BY <1>0, <1>5 DEF RefuseDisabled, TakesFresh, Takes, runVars
<1>6. ASSUME NEW c \in Requests, StartCommand(c) PROVE OnceInv' /\ Remembered
  BY <1>0, <1>6 DEF StartCommand, TakesFresh, Takes
<1>7. ASSUME NEW r \in Results, Reply(r) PROVE OnceInv' /\ Remembered
  <2>1. PICK c \in Requests : running = c
    BY <1>0, <1>7 DEF Reply
  <2>2. /\ cache' = [cache EXCEPT ![c] = r] /\ r \in {"ok", "failed"}
        /\ running' = None /\ UNCHANGED <<ran, forgot>>
    BY <1>7, <2>1 DEF Reply
  <2> QED BY <1>0, <2>1, <2>2
<1> QED BY <1>1, <1>2, <1>3, <1>4, <1>5, <1>6, <1>7, RecordSteps

LEMMA OnceInit == Init => OnceInv
BY DEF Init, OnceInv, AtMostOnce

(* However often a command is delivered, on however many connections, it   *)
(* runs once, unless a drop or a restart cut the client off from its run.  *)
THEOREM RunsAtMostOnce == Spec => []AtMostOnce
<1>1. OnceInv /\ TypeOK /\ [Next]_vars => OnceInv'
  BY OnceNext
<1>2. OnceInv => AtMostOnce
  BY DEF OnceInv
<1> QED BY <1>1, <1>2, OnceInit, TypeCorrect, PTL DEF Spec

(* Answer r about command c agrees with what the client did and would say. *)
StandsFor(c, r) ==
  /\ r = "ok" => ran[c] > 0
  /\ r \in Results => c \in forgot \/ cache[c] = r

(* The answers given, those on the wire and those in the cache all stand.  *)
AnswerInv ==
  /\ \A c \in Requests : StandsFor(c, outcome[c])
  /\ \A l \in Links : \A i \in 1..Len(up[l]) : StandsFor(up[l][i].c, up[l][i].r)
  /\ \A c \in Requests : cache[c] = "ok" => ran[c] > 0

(* A standing answer goes on standing.                                     *)
LEMMA StandsOn ==
  ASSUME TypeOK, TypeOK', Remembered
  PROVE  \A c \in Requests : \A r : StandsFor(c, r) => StandsFor(c, r)'
<1> SUFFICES ASSUME NEW c \in Requests, NEW r, StandsFor(c, r)
             PROVE  StandsFor(c, r)'
  OBVIOUS
<1>1. /\ ran[c] \in Nat /\ ran'[c] \in Nat /\ ran'[c] >= ran[c]
      /\ c \in forgot => c \in forgot'
      /\ cache[c] # "none" => cache'[c] = cache[c] \/ c \in forgot'
  BY DEF TypeOK, Remembered
<1>2. r = "ok" => ran'[c] > 0
  BY <1>1 DEF StandsFor
<1>3. r \in Results => c \in forgot' \/ cache'[c] = r
  BY <1>1 DEF StandsFor, Results
<1> QED BY <1>2, <1>3 DEF StandsFor

(* An answer that stands may be put on the wire.                           *)
LEMMA AnswerAdds ==
  ASSUME TypeOK, NEW c \in Requests, NEW r \in Results \cup {"replay"},
         Answer(c, r), NEW l \in Links, NEW i \in 1..Len(up'[l])
  PROVE  \/ i \in 1..Len(up[l]) /\ up'[l][i] = up[l][i]
         \/ up'[l][i] = [c |-> c, r |-> r]
<1>1. up \in [Links -> Seq(Acks)] /\ up[l] \in Seq(Acks)
  BY DEF TypeOK
<1>2. up'[l] \in {up[l], Append(up[l], [c |-> c, r |-> r])}
  BY <1>1 DEF Answer
<1>3. CASE up'[l] = up[l]
  BY <1>3
<1>4. CASE up'[l] = Append(up[l], [c |-> c, r |-> r])
  BY <1>1, <1>4
<1> QED BY <1>2, <1>3, <1>4

(* What a step may do to the answers given.                                *)
LEMMA OutcomeSteps ==
  ASSUME TypeOK, [Next]_vars, NEW c \in Requests
  PROVE  \/ outcome'[c] = outcome[c]
         \/ outcome'[c] \in {"waiting", "machine_offline", "error"}
         \/ \E l \in Links : /\ up[l] # <<>> /\ Head(up[l]).c = c
                             /\ outcome'[c] = Head(up[l]).r
<1>0. outcome \in [Requests -> Open \cup Closed]
  BY DEF TypeOK
<1>1. CASE \E d \in Requests : Route(d) \/ RouteRaises(d) \/ Timeout(d)
  BY <1>0, <1>1 DEF Route, RouteRaises, Timeout
<1>2. CASE \E l \in Links : ReadAck(l)
  BY <1>0, <1>2 DEF ReadAck
<1>3. CASE ServerRestart
  BY <1>0, <1>3 DEF ServerRestart
<1>4. CASE \/ Browsers \/ Client \/ UNCHANGED vars
           \/ \E l \in Links : \/ Accept(l) \/ Greet(l) \/ FlushDone(l)
                               \/ EndServe(l)
                               \/ \E d \in Requests : FlushRow(l, d)
  BY <1>4 DEF Browsers, Client, vars, Subscribe, SubscribeRaises, Unsubscribe,
     Accept, Greet, FlushDone, EndServe, FlushRow, Dial, Drop, ReadPresence,
     TakeEffect, ClientRestart, RefuseReplay, RepeatAnswer, RefuseDisabled,
     StartCommand, Reply
<1> QED BY <1>1, <1>2, <1>3, <1>4 DEF Next, Phone, Server

(* No connection has a new answer on the wire.                             *)
NoNewAnswer ==
  \A l \in Links : \A i \in 1..Len(up'[l]) :
    \E j \in 1..Len(up[l]) : up'[l][i] = up[l][j]

(* Only four of the client's steps put an answer on the wire.              *)
LEMMA WireSteps ==
  ASSUME TypeOK, [Next]_vars
  PROVE  \/ NoNewAnswer
         \/ \E c \in Requests :
              RefuseReplay(c) \/ RepeatAnswer(c) \/ RefuseDisabled(c)
         \/ \E r \in Results : Reply(r)
<1>0. up \in [Links -> Seq(Acks)]
  BY DEF TypeOK
<1>1. ASSUME NEW l \in Links, ReadAck(l) PROVE NoNewAnswer
  <2>1. up[l] \in Seq(Acks) /\ up[l] # <<>> /\ up' = [up EXCEPT ![l] = Tail(@)]
    BY <1>0, <1>1 DEF ReadAck
  <2>2. ASSUME NEW i \in 1..Len(up'[l])
        PROVE  i + 1 \in 1..Len(up[l]) /\ up'[l][i] = up[l][i + 1]
    BY <1>0, <2>1, <2>2
  <2>3. \A m \in Links \ {l} : up'[m] = up[m]
    BY <1>0, <2>1
  <2> QED BY <2>2, <2>3 DEF NoNewAnswer
<1>a. ASSUME NEW l \in Links, EndServe(l) PROVE NoNewAnswer
  <2>1. Len(up'[l]) = 0 /\ \A m \in Links \ {l} : up'[m] = up[m]
    BY <1>0, <1>a DEF EndServe
  <2> QED BY <2>1 DEF NoNewAnswer
<1>2. CASE ServerRestart
  <2>1. \A l \in Links : Len(up'[l]) = 0
    BY <1>2 DEF ServerRestart
  <2> QED BY <2>1 DEF NoNewAnswer
<1>3. CASE UNCHANGED up
  BY <1>3 DEF NoNewAnswer
<1>4. CASE Phone \/ Browsers \/ UNCHANGED vars
  BY <1>3, <1>4 DEF Phone, Browsers, vars, Route, RouteRaises, Timeout,
     Subscribe, SubscribeRaises, Unsubscribe
<1>5. CASE \E l \in Links : \/ Accept(l) \/ Greet(l) \/ FlushDone(l)
                            \/ \E d \in Requests : FlushRow(l, d)
  BY <1>3, <1>5 DEF Accept, Greet, FlushDone, FlushRow
<1>6. CASE \/ Dial \/ Drop \/ ReadPresence \/ TakeEffect \/ ClientRestart
           \/ \E c \in Requests : StartCommand(c)
  BY <1>3, <1>6 DEF Dial, Drop, ReadPresence, TakeEffect, ClientRestart,
     StartCommand
<1> QED BY <1>1, <1>a, <1>2, <1>4, <1>5, <1>6 DEF Next, Server, Client

LEMMA AnswerNext ==
  ASSUME TypeOK, TypeOK', OnceInv, AnswerInv, [Next]_vars
  PROVE  AnswerInv'
<1>0. /\ up \in [Links -> Seq(Acks)] /\ up' \in [Links -> Seq(Acks)]
      /\ cache \in [Requests -> Results \cup {"none"}]
      /\ running \in Requests \cup {None}
      /\ ran \in [Requests -> Nat] /\ ran' \in [Requests -> Nat]
  BY DEF TypeOK
<1>1. Remembered
  BY OnceNext
<1>2. \A c \in Requests : \A r : StandsFor(c, r) => StandsFor(c, r)'
  BY <1>1, StandsOn
<1>3. ASSUME NEW l \in Links, NEW i \in 1..Len(up[l])
      PROVE  \A c, r : c = up[l][i].c /\ r = up[l][i].r => StandsFor(c, r)'
  <2>1. up[l][i] \in Acks
    BY <1>0
  <2>2. up[l][i].c \in Requests
    BY <2>1 DEF Acks
  <2>3. StandsFor(up[l][i].c, up[l][i].r)
    BY DEF AnswerInv
  <2>4. ASSUME NEW c, NEW r, c = up[l][i].c, r = up[l][i].r PROVE StandsFor(c, r)'
    BY <1>2, <2>2, <2>3, <2>4
  <2> QED BY <2>4
<1>4. ASSUME NEW c \in Requests PROVE StandsFor(c, outcome[c])'
  <2>1. StandsFor(c, outcome[c])
    BY DEF AnswerInv
  <2>2. CASE outcome'[c] = outcome[c]
    BY <1>2, <2>1, <2>2 DEF StandsFor
  <2>3. CASE outcome'[c] \in {"waiting", "machine_offline", "error"}
    BY <2>3 DEF StandsFor, Results
  <2>4. ASSUME NEW l \in Links, up[l] # <<>>, Head(up[l]).c = c,
               outcome'[c] = Head(up[l]).r
        PROVE  StandsFor(c, outcome[c])'
    <3>1. 1 \in 1..Len(up[l]) /\ Head(up[l]) = up[l][1]
      BY <1>0, <2>4
    <3> QED BY <1>3, <2>4, <3>1 DEF StandsFor
  <2> QED BY <2>2, <2>3, <2>4, OutcomeSteps
<1>5. ASSUME NEW c \in Requests, NEW r \in Results \cup {"replay"},
             Answer(c, r), StandsFor(c, r)',
             NEW l \in Links, NEW i \in 1..Len(up'[l])
      PROVE  StandsFor(up[l][i].c, up[l][i].r)'
  <2>1. CASE i \in 1..Len(up[l]) /\ up'[l][i] = up[l][i]
    BY <1>3, <2>1 DEF StandsFor
  <2>2. CASE up'[l][i] = [c |-> c, r |-> r]
    BY <1>5, <2>2 DEF StandsFor
  <2> QED BY <1>5, <2>1, <2>2, AnswerAdds
<1>6. ASSUME NEW l \in Links, NEW i \in 1..Len(up'[l])
      PROVE  StandsFor(up[l][i].c, up[l][i].r)'
  <2>1. CASE NoNewAnswer
    <3>1. PICK j \in 1..Len(up[l]) : up'[l][i] = up[l][j]
      BY <2>1 DEF NoNewAnswer
    <3> QED BY <1>3, <3>1 DEF StandsFor
  <2>2. ASSUME NEW c \in Requests, RefuseReplay(c)
        PROVE  StandsFor(up[l][i].c, up[l][i].r)'
    <3>1. StandsFor(c, "replay")'
      BY DEF StandsFor, Results
    <3> QED BY <1>5, <2>2, <3>1 DEF RefuseReplay
  <2>3. ASSUME NEW c \in Requests, RepeatAnswer(c)
        PROVE  StandsFor(up[l][i].c, up[l][i].r)'
    <3>1. PICK r \in Results : r = cache[c]
      BY <1>0, <2>3 DEF RepeatAnswer
    <3>2. StandsFor(c, r)
      BY <3>1 DEF StandsFor, AnswerInv
    <3>3. Answer(c, r)
      BY <2>3, <3>1 DEF RepeatAnswer
    <3> QED BY <1>2, <1>5, <3>2, <3>3
  <2>4. ASSUME NEW c \in Requests, RefuseDisabled(c)
        PROVE  StandsFor(up[l][i].c, up[l][i].r)'
    <3>1. cache'[c] = "disabled"
      BY <1>0, <2>4 DEF RefuseDisabled
    <3>2. StandsFor(c, "disabled")'
      BY <3>1 DEF StandsFor
    <3> QED BY <1>5, <2>4, <3>2 DEF RefuseDisabled, Results
  <2>5. ASSUME NEW r \in Results, Reply(r)
        PROVE  StandsFor(up[l][i].c, up[l][i].r)'
    <3>1. PICK c \in Requests : running = c
      BY <1>0, <2>5 DEF Reply
    <3>2. cache'[c] = r /\ (r = "ok" => ran'[c] > 0) /\ Answer(c, r)
      BY <1>0, <2>5, <3>1 DEF Reply, OnceInv
    <3>3. StandsFor(c, r)'
      BY <3>2 DEF StandsFor
    <3> QED BY <1>5, <3>2, <3>3
  <2> QED BY <2>1, <2>2, <2>3, <2>4, <2>5, WireSteps
<1>7. ASSUME NEW c \in Requests, cache'[c] = "ok" PROVE ran'[c] > 0
  <2>1. CASE cache[c] = "ok"
    BY <1>0, <1>1, <2>1 DEF AnswerInv, Remembered
  <2>2. CASE cache[c] # "ok"
    <3>1. CASE UNCHANGED cache
      BY <1>7, <2>2, <3>1
    <3>2. CASE \/ Drop \/ TakeEffect \/ ClientRestart
               \/ \E d \in Requests : RefuseDisabled(d) \/ StartCommand(d)
      BY <1>0, <1>7, <2>2, <3>2 DEF Drop, TakeEffect, ClientRestart,
         RefuseDisabled, StartCommand, memoVars
    <3>3. ASSUME NEW r \in Results, Reply(r) PROVE ran'[c] > 0
      <4>1. running = c /\ effect /\ ran' = ran
        BY <1>0, <1>7, <2>2, <3>3 DEF Reply
      <4> QED BY <3>3, <4>1 DEF Reply, OnceInv
    <3> QED BY <3>1, <3>2, <3>3, RecordSteps
  <2> QED BY <2>1, <2>2
<1> QED BY <1>4, <1>6, <1>7 DEF AnswerInv

LEMMA AnswerInit == Init => AnswerInv
<1> SUFFICES ASSUME Init PROVE AnswerInv
  OBVIOUS
<1>1. \A l \in Links : Len(up[l]) = 0
  BY DEF Init
<1>2. \A c \in Requests : outcome[c] = "new" /\ cache[c] = "none"
  BY DEF Init
<1> QED BY <1>1, <1>2 DEF AnswerInv, StandsFor, Results

(* The answer the phone was given is the one the client would repeat, and  *)
(* "ok" means that the command took effect.                                *)
THEOREM AnswersAreTrue == Spec => []AnswerStands
<1>1. TypeOK /\ TypeOK' /\ OnceInv /\ AnswerInv /\ [Next]_vars => AnswerInv'
  BY AnswerNext
<1>2. OnceInv /\ TypeOK /\ [Next]_vars => OnceInv'
  BY OnceNext
<1>3. AnswerInv => AnswerStands
  BY DEF AnswerInv, AnswerStands, StandsFor
<1> QED BY <1>1, <1>2, <1>3, OnceInit, AnswerInit, TypeCorrect, PTL DEF Spec

-----------------------------------------------------------------------------
(* No command is refused as a replay while the server lives.               *)

(* What one step does to the frames under way and to the two counters.     *)
LEMMA DownSteps ==
  ASSUME TypeOK, [Next]_vars
  PROVE  \/ ServerRestart
         \/ /\ UNCHANGED restarted
            /\ \/ UNCHANGED <<down, seqNo, lastSeq>>
               \/ /\ UNCHANGED lastSeq
                  /\ \E l \in Links \cup {0}, c \in Requests : SendCommand(l, c)
               \/ /\ UNCHANGED <<lastSeq, seqNo>>
                  /\ \E l \in Links \cup {0}, f \in Presence : Put(l, f)
               \/ /\ down # <<>> /\ down' = Tail(down) /\ UNCHANGED seqNo
                  /\ \/ UNCHANGED lastSeq
                     \/ lastSeq' = Head(down).seq /\ Head(down).k = "command"
               \/ down' = <<>> /\ UNCHANGED seqNo /\ lastSeq' \in {lastSeq, 0}
<1> USE DEF memoVars
<1>0. Reach \in Links \cup {0} /\ \A k \in {"subscribe", "unsubscribe"} : [k |-> k] \in Presence
  BY DEF TypeOK, Reach, Presence
<1>1. CASE Phone
  BY <1>0, <1>1 DEF Phone, Route, RouteRaises, Timeout
<1>2. CASE Browsers
  BY <1>0, <1>2 DEF Browsers, Subscribe, SubscribeRaises, Unsubscribe, PresenceFrame
<1>3. ASSUME NEW l \in Links, Greet(l)
      PROVE  /\ UNCHANGED <<restarted, lastSeq, seqNo>>
             /\ UNCHANGED down \/ \E f \in Presence : Put(l, f)
  BY <1>0, <1>3 DEF Greet
<1>4. ASSUME NEW l \in Links, NEW c \in Requests, FlushRow(l, c)
      PROVE  /\ UNCHANGED <<restarted, lastSeq>>
             /\ UNCHANGED <<down, seqNo>> \/ SendCommand(l, c)
  BY <1>4 DEF FlushRow
<1>5. CASE \/ Dial \/ TakeEffect
           \/ \E l \in Links : Accept(l) \/ FlushDone(l) \/ ReadAck(l) \/ EndServe(l)
           \/ \E r \in Results : Reply(r)
           \/ UNCHANGED vars
  BY <1>5 DEF vars, Dial, TakeEffect, Accept, FlushDone, ReadAck, EndServe, Reply
<1>6. CASE Drop \/ ClientRestart
  BY <1>6 DEF Drop, ClientRestart
<1>7. CASE \/ ReadPresence
           \/ \E c \in Requests : \/ RefuseReplay(c) \/ RepeatAnswer(c)
                                  \/ RefuseDisabled(c) \/ StartCommand(c)
  BY <1>7 DEF ReadPresence, RefuseReplay, RepeatAnswer, RefuseDisabled,
     StartCommand, TakesFresh, Takes
<1> QED BY <1>1, <1>2, <1>3, <1>4, <1>5, <1>6, <1>7 DEF Next, Server, Client

(* The commands under way carry ascending numbers, all above the last one  *)
(* the client has seen and none above the server's counter.                *)
Ascending ==
  /\ lastSeq <= seqNo
  /\ \A i \in 1..Len(down) :
       down[i].k = "command" => lastSeq < down[i].seq /\ down[i].seq <= seqNo
  /\ \A i, j \in 1..Len(down) :
       i < j /\ down[i].k = "command" /\ down[j].k = "command"
         => down[i].seq < down[j].seq

NoReplay ==
  /\ \A l \in Links : \A i \in 1..Len(up[l]) : up[l][i].r # "replay"
  /\ \A c \in Requests : outcome[c] # "replay"

SeqInv == ~restarted => Ascending /\ NoReplay

LEMMA FrameTypes ==
  ASSUME TypeOK
  PROVE  /\ down \in Seq(Frames) /\ lastSeq \in Nat /\ seqNo \in Nat
         /\ \A i \in 1..Len(down) : down[i].k = "command" => down[i].seq \in Nat
<1>1. down \in Seq(Frames) /\ lastSeq \in Nat /\ seqNo \in Nat
  BY DEF TypeOK, Frames
<1>2. ASSUME NEW i \in 1..Len(down), down[i].k = "command"
      PROVE  down[i].seq \in Nat
  <2>1. down[i] \in Frames
    BY <1>1
  <2>2. down[i] \notin Presence
    BY <1>2 DEF Presence
  <2> QED BY <2>1, <2>2 DEF Frames, Commands
<1> QED BY <1>1, <1>2

LEMMA AscendingNext ==
  ASSUME TypeOK, Ascending, [Next]_vars, ~restarted'
  PROVE  Ascending' /\ ~restarted
<1>0. /\ down \in Seq(Frames) /\ lastSeq \in Nat /\ seqNo \in Nat
      /\ \A i \in 1..Len(down) : down[i].k = "command" => down[i].seq \in Nat
  BY FrameTypes
<1>1. ~restarted /\ ~ServerRestart
  <2>1. ~ServerRestart
    BY DEF ServerRestart
  <2>2. UNCHANGED restarted
    BY <2>1, DownSteps
  <2> QED BY <2>1, <2>2
<1>2. ASSUME UNCHANGED <<down, seqNo, lastSeq>> PROVE Ascending'
  BY <1>2 DEF Ascending
<1>3. ASSUME NEW l \in Links \cup {0}, NEW c \in Requests, SendCommand(l, c),
             UNCHANGED lastSeq
      PROVE  Ascending'
  <2>1. CASE l # clink
    BY <1>3, <2>1 DEF SendCommand, Put, Ascending
  <2>2. CASE l = clink
    <3> DEFINE f == [k |-> "command", c |-> c, seq |-> seqNo + 1]
    <3>1. /\ down' = Append(down, f) /\ seqNo' = seqNo + 1
      BY <1>3, <2>2 DEF SendCommand, Put
    <3>2. /\ Len(down') = Len(down) + 1 /\ Len(down) \in Nat
          /\ down'[Len(down) + 1] = f
          /\ \A i \in 1..Len(down) : down'[i] = down[i]
      BY <1>0, <3>1
    <3>3. f.k = "command" /\ f.seq = seqNo + 1
      OBVIOUS
    <3> HIDE DEF f
    <3>4. lastSeq' <= seqNo'
      BY <1>0, <1>3, <3>1 DEF Ascending
    <3>5. ASSUME NEW i \in 1..Len(down'), down'[i].k = "command"
          PROVE  lastSeq' < down'[i].seq /\ down'[i].seq <= seqNo'
      BY <1>0, <1>3, <3>1, <3>2, <3>3, <3>5 DEF Ascending
    <3>6. ASSUME NEW i \in 1..Len(down'), NEW j \in 1..Len(down'), i < j,
                 down'[i].k = "command", down'[j].k = "command"
          PROVE  down'[i].seq < down'[j].seq
      <4>1. i \in 1..Len(down) /\ down'[i] = down[i]
        BY <3>2, <3>6
      <4>2. CASE j = Len(down) + 1
        <5>1. down[i].seq <= seqNo /\ down'[j].seq = seqNo + 1 /\ down[i].seq \in Nat
          BY <1>0, <3>2, <3>3, <3>6, <4>1, <4>2 DEF Ascending
        <5> QED BY <1>0, <4>1, <5>1
      <4>3. CASE j # Len(down) + 1
        <5>1. j \in 1..Len(down) /\ down'[j] = down[j]
          BY <3>2, <4>3
        <5> QED BY <3>6, <4>1, <5>1 DEF Ascending
      <4> QED BY <4>2, <4>3
    <3> QED BY <3>4, <3>5, <3>6 DEF Ascending
  <2> QED BY <2>1, <2>2
<1>4. ASSUME NEW l \in Links \cup {0}, NEW f \in Presence, Put(l, f),
             UNCHANGED <<lastSeq, seqNo>>
      PROVE  Ascending'
  <2>1. CASE l # clink
    BY <1>4, <2>1 DEF Put, Ascending
  <2>2. CASE l = clink
    <3>1. down' = Append(down, f) /\ f.k # "command"
      BY <1>4, <2>2 DEF Put, Presence
    <3>2. /\ Len(down') = Len(down) + 1 /\ Len(down) \in Nat
          /\ down'[Len(down) + 1] = f
          /\ \A i \in 1..Len(down) : down'[i] = down[i]
      BY <1>0, <3>1
    <3> QED BY <1>0, <1>4, <3>1, <3>2 DEF Ascending
  <2> QED BY <2>1, <2>2
<1>5. ASSUME down # <<>>, down' = Tail(down), UNCHANGED seqNo,
             \/ UNCHANGED lastSeq
             \/ lastSeq' = Head(down).seq /\ Head(down).k = "command"
      PROVE  Ascending'
  <2>1. /\ Len(down') = Len(down) - 1 /\ Len(down) \in Nat \ {0}
        /\ \A i \in 1..Len(down') : down'[i] = down[i + 1]
        /\ Head(down) = down[1] /\ 1 \in 1..Len(down)
    BY <1>0, <1>5
  <2>2. lastSeq' <= seqNo'
    BY <1>0, <1>5, <2>1 DEF Ascending
  <2>3. ASSUME NEW i \in 1..Len(down'), down'[i].k = "command"
        PROVE  lastSeq' < down'[i].seq /\ down'[i].seq <= seqNo'
    <3>1. i + 1 \in 1..Len(down) /\ 1 < i + 1 /\ down'[i] = down[i + 1]
      BY <2>1
    <3> QED BY <1>0, <1>5, <2>1, <2>3, <3>1 DEF Ascending
  <2>4. ASSUME NEW i \in 1..Len(down'), NEW j \in 1..Len(down'), i < j,
               down'[i].k = "command", down'[j].k = "command"
        PROVE  down'[i].seq < down'[j].seq
    <3>1. /\ i + 1 \in 1..Len(down) /\ j + 1 \in 1..Len(down) /\ i + 1 < j + 1
          /\ down'[i] = down[i + 1] /\ down'[j] = down[j + 1]
      BY <2>1, <2>4
    <3> QED BY <2>4, <3>1 DEF Ascending
  <2> QED BY <2>2, <2>3, <2>4 DEF Ascending
<1>6. ASSUME down' = <<>>, UNCHANGED seqNo, lastSeq' \in {lastSeq, 0}
      PROVE  Ascending'
  <2>1. Len(down') = 0 /\ lastSeq' <= seqNo'
    BY <1>0, <1>6 DEF Ascending
  <2> QED BY <2>1 DEF Ascending
<1> QED BY <1>1, <1>2, <1>3, <1>4, <1>5, <1>6, DownSteps

LEMMA NoReplayNext ==
  ASSUME TypeOK, TypeOK', Ascending, NoReplay, [Next]_vars
  PROVE  NoReplay'
<1>0. /\ up \in [Links -> Seq(Acks)] /\ up' \in [Links -> Seq(Acks)]
      /\ cache \in [Requests -> Results \cup {"none"}]
      /\ running \in Requests \cup {None}
  BY DEF TypeOK
<1>1. ASSUME NEW c \in Requests PROVE outcome'[c] # "replay"
  <2>1. ASSUME NEW l \in Links, up[l] # <<>>, outcome'[c] = Head(up[l]).r
        PROVE  outcome'[c] # "replay"
    <3>1. 1 \in 1..Len(up[l]) /\ Head(up[l]) = up[l][1]
      BY <1>0, <2>1
    <3> QED BY <2>1, <3>1 DEF NoReplay
  <2> QED BY <2>1, OutcomeSteps DEF NoReplay
<1>2. ASSUME NEW c \in Requests, NEW r \in Results, Answer(c, r),
             NEW l \in Links, NEW i \in 1..Len(up'[l])
      PROVE  up'[l][i].r # "replay"
  <2>1. CASE i \in 1..Len(up[l]) /\ up'[l][i] = up[l][i]
    BY <2>1 DEF NoReplay
  <2>2. CASE up'[l][i] = [c |-> c, r |-> r]
    BY <2>2 DEF Results
  <2> QED BY <1>2, <2>1, <2>2, AnswerAdds
<1>3. ASSUME NEW l \in Links, NEW i \in 1..Len(up'[l])
      PROVE  up'[l][i].r # "replay"
  <2>1. CASE NoNewAnswer
    BY <2>1 DEF NoNewAnswer, NoReplay
  <2>2. ASSUME NEW c \in Requests, RefuseReplay(c) PROVE FALSE
    <3>1. /\ down # <<>> /\ Head(down).k = "command" /\ Head(down).seq <= lastSeq
      BY <2>2 DEF RefuseReplay, Takes
    <3>2. 1 \in 1..Len(down) /\ Head(down) = down[1]
      BY <3>1, FrameTypes
    <3> QED BY <3>1, <3>2, FrameTypes DEF Ascending
  <2>3. ASSUME NEW c \in Requests, RepeatAnswer(c) PROVE up'[l][i].r # "replay"
    <3>1. PICK r \in Results : r = cache[c]
      BY <1>0, <2>3 DEF RepeatAnswer
    <3> QED BY <1>2, <2>3, <3>1 DEF RepeatAnswer
  <2>4. ASSUME NEW c \in Requests, RefuseDisabled(c) PROVE up'[l][i].r # "replay"
    BY <1>2, <2>4 DEF RefuseDisabled, Results
  <2>5. ASSUME NEW r \in Results, Reply(r) PROVE up'[l][i].r # "replay"
    <3>1. PICK c \in Requests : running = c
      BY <1>0, <2>5 DEF Reply
    <3> QED BY <1>2, <2>5, <3>1 DEF Reply
  <2> QED BY <2>1, <2>2, <2>3, <2>4, <2>5, WireSteps
<1> QED BY <1>1, <1>3 DEF NoReplay

LEMMA SeqInit == Init => SeqInv
<1> SUFFICES ASSUME Init PROVE SeqInv
  OBVIOUS
<1>1. Len(down) = 0 /\ \A l \in Links : Len(up[l]) = 0
  BY DEF Init
<1>2. lastSeq = 0 /\ seqNo = 0 /\ \A c \in Requests : outcome[c] = "new"
  BY DEF Init
<1> QED BY <1>1, <1>2 DEF SeqInv, Ascending, NoReplay

(* While the server keeps its counter no command is refused as a replay:   *)
(* numbers reach the client in ascending order on every connection, and    *)
(* lost frames or reconnects cannot make one look old.                     *)
THEOREM ReplaysNeedARestart == Spec => []ReplayNeedsRestart
<1>1. TypeOK /\ TypeOK' /\ SeqInv /\ [Next]_vars => SeqInv'
  <2> SUFFICES ASSUME TypeOK, TypeOK', SeqInv, [Next]_vars, ~restarted'
               PROVE  (Ascending /\ NoReplay)'
    BY DEF SeqInv
  <2>1. ~restarted
    BY DownSteps DEF ServerRestart
  <2>2. Ascending'
    BY <2>1, AscendingNext DEF SeqInv
  <2>3. NoReplay'
    BY <2>1, NoReplayNext DEF SeqInv
  <2> QED BY <2>2, <2>3
<1>2. SeqInv => ReplayNeedsRestart
  BY DEF SeqInv, NoReplay, ReplayNeedsRestart
<1> QED BY <1>1, <1>2, SeqInit, TypeCorrect, PTL DEF Spec

-----------------------------------------------------------------------------
(* A watched process streams.                                              *)

(* Once it has read all that is under way, the process will stream.        *)
Hears ==
  \/ subscribed /\ \A i \in 1..Len(down) : down[i].k # "unsubscribe"
  \/ \E i \in 1..Len(down) :
       /\ down[i].k = "subscribe"
       /\ \A j \in i..Len(down) : down[j].k # "unsubscribe"

Greeted == clink \in conns /\ srv[clink] \in {"flush", "up"}
Watched == subs > 0 /\ watchers = subs

(* A watched process that has been greeted hears of it sooner or later.    *)
WatchInv == Greeted /\ Watched => Hears

(* A further frame that is no "unsubscribe" does not change that, and      *)
(* neither does taking a command off the wire.                             *)
LEMMA HearsMore ==
  ASSUME TypeOK, Hears, UNCHANGED subscribed, NEW STATE f, f.k # "unsubscribe",
         down' = Append(down, f)
  PROVE  Hears'
<1>1. down \in Seq(Frames)
  BY DEF TypeOK, Frames
<1>2. /\ Len(down') = Len(down) + 1 /\ Len(down) \in Nat
      /\ down'[Len(down) + 1] = f
      /\ \A i \in 1..Len(down) : down'[i] = down[i]
  BY <1>1
<1>3. CASE subscribed /\ \A i \in 1..Len(down) : down[i].k # "unsubscribe"
  BY <1>2, <1>3 DEF Hears
<1>4. ASSUME NEW i \in 1..Len(down), down[i].k = "subscribe",
             \A j \in i..Len(down) : down[j].k # "unsubscribe"
      PROVE  Hears'
  <2>1. i \in 1..Len(down') /\ down'[i].k = "subscribe"
    BY <1>2, <1>4
  <2>2. ASSUME NEW j \in i..Len(down') PROVE down'[j].k # "unsubscribe"
    <3>1. CASE j = Len(down) + 1
      BY <1>2, <3>1
    <3>2. CASE j # Len(down) + 1
      BY <1>2, <1>4, <3>2
    <3> QED BY <3>1, <3>2
  <2> QED BY <2>1, <2>2 DEF Hears
<1> QED BY <1>3, <1>4 DEF Hears

LEMMA HearsNext ==
  ASSUME TypeOK, Hears, down # <<>>, down' = Tail(down),
         \/ UNCHANGED subscribed /\ Head(down).k = "command"
         \/ subscribed' = (Head(down).k = "subscribe") /\ Head(down) \in Presence
  PROVE  Hears'
<1>1. down \in Seq(Frames)
  BY DEF TypeOK, Frames
<1>2. /\ Len(down') = Len(down) - 1 /\ Len(down) \in Nat \ {0}
      /\ \A i \in 1..Len(down') : down'[i] = down[i + 1]
      /\ Head(down) = down[1] /\ 1 \in 1..Len(down)
  BY <1>1
<1>3. ASSUME \A i \in 2..Len(down) : down[i].k # "unsubscribe"
      PROVE  \A i \in 1..Len(down') : down'[i].k # "unsubscribe"
  <2>1. ASSUME NEW i \in 1..Len(down') PROVE down'[i].k # "unsubscribe"
    <3>1. i + 1 \in 2..Len(down) /\ down'[i] = down[i + 1]
      BY <1>2
    <3> QED BY <1>3, <3>1
  <2> QED BY <2>1
<1>4. CASE subscribed /\ \A i \in 1..Len(down) : down[i].k # "unsubscribe"
  <2>1. Head(down).k \in {"command", "subscribe"}
    BY <1>2, <1>4 DEF Presence
  <2>2. subscribed'
    BY <1>4, <2>1 DEF Presence
  <2>3. \A i \in 2..Len(down) : down[i].k # "unsubscribe"
    BY <1>2, <1>4
  <2> QED BY <1>3, <2>2, <2>3 DEF Hears
<1>5. ASSUME NEW i \in 1..Len(down), down[i].k = "subscribe",
             \A j \in i..Len(down) : down[j].k # "unsubscribe"
      PROVE  Hears'
  <2>1. CASE i = 1
    <3>1. Head(down).k = "subscribe"
      BY <1>2, <1>5, <2>1
    <3>2. subscribed'
      BY <3>1
    <3>3. \A j \in 2..Len(down) : down[j].k # "unsubscribe"
      BY <1>5, <2>1
    <3> QED BY <1>3, <3>2, <3>3 DEF Hears
  <2>2. CASE i # 1
    <3>1. i - 1 \in 1..Len(down') /\ down'[i - 1].k = "subscribe"
      BY <1>2, <1>5, <2>2
    <3>2. ASSUME NEW j \in (i - 1)..Len(down') PROVE down'[j].k # "unsubscribe"
      <4>1. j + 1 \in i..Len(down) /\ j \in 1..Len(down')
        BY <1>2, <2>2
      <4>2. down'[j] = down[j + 1]
        BY <1>2, <4>1
      <4> QED BY <1>5, <4>1, <4>2
    <3> QED BY <3>1, <3>2 DEF Hears
  <2> QED BY <2>1, <2>2
<1> QED BY <1>4, <1>5 DEF Hears

(* Being told that someone watches is enough.                              *)
LEMMA HearsNow ==
  ASSUME TypeOK, down' = Append(down, [k |-> "subscribe"])
  PROVE  Hears'
<1>1. down \in Seq(Frames)
  BY DEF TypeOK, Frames
<1>2. Len(down') \in 1..Len(down') /\ down'[Len(down')] = [k |-> "subscribe"]
  BY <1>1
<1>3. \A j \in Len(down')..Len(down') : j = Len(down')
  BY <1>2
<1> QED BY <1>2, <1>3 DEF Hears

LEMMA WatchNext ==
  ASSUME TypeOK, WatchInv, [Next]_vars
  PROVE  WatchInv'
<1> USE DEF WatchInv, Greeted, Watched
<1>0. /\ conns \subseteq Links /\ 0 \notin Links /\ srv \in [Links -> Phases]
      /\ subs \in Nat /\ watchers \in Nat /\ watchers <= subs
  BY DEF TypeOK, Links
(* A command that is sent, or no frame at all. *)
<1>1. ASSUME UNCHANGED <<conns, srv, subs, watchers, clink, subscribed>>,
             \/ UNCHANGED down
             \/ \E l, c : SendCommand(l, c)
      PROVE  WatchInv'
  <2>1. CASE UNCHANGED down
    BY <1>1, <2>1 DEF Hears
  <2>2. ASSUME NEW l, NEW c, SendCommand(l, c) PROVE WatchInv'
    <3>1. CASE l = clink
      <4>1. PICK f : down' = Append(down, f) /\ f.k # "unsubscribe"
        BY <2>2, <3>1 DEF SendCommand, Put
      <4> QED BY <1>1, <4>1, HearsMore
    <3>2. CASE l # clink
      BY <1>1, <2>1, <2>2, <3>2 DEF SendCommand, Put
    <3> QED BY <3>1, <3>2
  <2> QED BY <1>1, <2>1, <2>2
(* A frame that is read. *)
<1>2. ASSUME UNCHANGED <<conns, srv, subs, watchers, clink>>,
             down # <<>>, down' = Tail(down),
             \/ UNCHANGED subscribed /\ Head(down).k = "command"
             \/ /\ subscribed' = (Head(down).k = "subscribe")
                /\ Head(down) \in Presence
      PROVE  WatchInv'
  BY <1>2, HearsNext
<1>3. CASE Phone
  <2>1. PICK c \in Requests : Route(c) \/ RouteRaises(c) \/ Timeout(c)
    BY <1>3 DEF Phone
  <2>2. /\ UNCHANGED <<conns, srv, subs, watchers, clink, subscribed>>
        /\ UNCHANGED down \/ SendCommand(Reach, c)
    BY <2>1 DEF Route, RouteRaises, Timeout, serveVars, peopleVars, lineVars,
       streamVars
  <2>3. PICK l : l = Reach
    OBVIOUS
  <2> QED BY <1>1, <2>2, <2>3 DEF SendCommand, Put
<1>4. CASE Subscribe
  <2>1. /\ UNCHANGED <<conns, srv, clink, subscribed>>
        /\ subs' = subs + 1 /\ watchers' = watchers + 1
    BY <1>4 DEF Subscribe, serveVars, lineVars, streamVars
  <2>2. CASE subs = 0 /\ clink \in conns
    <3>1. down' = Append(down, [k |-> "subscribe"])
      BY <1>0, <1>4, <2>2 DEF Subscribe, PresenceFrame, Reach, Put
    <3> QED BY <3>1, HearsNow
  <2>3. CASE subs = 0 /\ clink \notin conns
    BY <2>1, <2>3
  <2>4. CASE subs # 0
    <3>1. UNCHANGED down /\ (Watched' => Watched)
      BY <1>0, <1>4, <2>1, <2>4 DEF Subscribe
    <3> QED BY <2>1, <3>1 DEF Hears
  <2> QED BY <2>2, <2>3, <2>4
<1>5. CASE SubscribeRaises
  <2>1. ~Watched'
    BY <1>0, <1>5 DEF SubscribeRaises
  <2> QED BY <2>1
<1>6. CASE Unsubscribe
  <2>1. /\ UNCHANGED <<conns, srv, clink, subscribed>>
        /\ subs' = subs - 1 /\ watchers' = watchers - 1
    BY <1>6 DEF Unsubscribe, serveVars, lineVars, streamVars
  <2>2. CASE subs = 1
    BY <2>1, <2>2
  <2>3. CASE subs # 1
    <3>1. UNCHANGED down /\ (Watched' => Watched)
      BY <1>0, <1>6, <2>1, <2>3 DEF Unsubscribe
    <3> QED BY <2>1, <3>1 DEF Hears
  <2> QED BY <2>2, <2>3
<1>7. ASSUME NEW l \in Links, Greet(l) PROVE WatchInv'
  <2>1. /\ srv' = [srv EXCEPT ![l] = "flush"]
        /\ UNCHANGED <<conns, subs, watchers, clink, subscribed>>
    BY <1>7 DEF Greet, peopleVars, lineVars, streamVars
  <2>2. CASE l = clink /\ subs > 0
    <3>1. down' = Append(down, [k |-> "subscribe"])
      BY <1>7, <2>2 DEF Greet, Put
    <3> QED BY <3>1, HearsNow
  <2>3. CASE subs = 0
    BY <2>1, <2>3
  <2>4. CASE l # clink
    <3>1. UNCHANGED down
      BY <1>7, <2>4 DEF Greet, Put
    <3>2. clink \in conns => srv'[clink] = srv[clink]
      BY <1>0, <2>1, <2>4
    <3> QED BY <2>1, <3>1, <3>2 DEF Hears
  <2> QED BY <1>0, <2>2, <2>3, <2>4
<1>8. ASSUME NEW l \in Links, Accept(l) \/ FlushDone(l) \/ EndServe(l)
      PROVE  WatchInv'
  <2>1. UNCHANGED <<subs, watchers, clink, subscribed, down>>
    BY <1>8 DEF Accept, FlushDone, EndServe, peopleVars, lineVars, streamVars
  <2>2. Greeted' => Greeted
    BY <1>0, <1>8, <2>1 DEF Accept, FlushDone, EndServe
  <2> QED BY <2>1, <2>2 DEF Hears
<1>9. ASSUME NEW l \in Links, ReadAck(l) \/ \E c \in Requests : FlushRow(l, c)
      PROVE  WatchInv'
  <2>1. /\ UNCHANGED <<conns, srv, subs, watchers, clink, subscribed>>
        /\ UNCHANGED down \/ \E c : SendCommand(l, c)
    BY <1>9 DEF ReadAck, FlushRow, serveVars, peopleVars, lineVars, streamVars
  <2> QED BY <1>1, <2>1
<1>10. CASE ServerRestart
  BY <1>10 DEF ServerRestart
<1>11. CASE Dial
  <2>1. srv'[clink'] = "hello" \/ clink' \notin conns'
    BY <1>0, <1>11 DEF Dial
  <2> QED BY <2>1
<1>12. CASE Drop \/ ClientRestart
  BY <1>0, <1>12 DEF Drop, ClientRestart, serveVars
<1>13. CASE TakeEffect \/ (\E r \in Results : Reply(r)) \/ UNCHANGED vars
  <2>1. UNCHANGED <<conns, srv, subs, watchers, clink, subscribed, down>>
    BY <1>13 DEF TakeEffect, Reply, vars, serveVars, peopleVars, lineVars,
       streamVars
  <2> QED BY <1>1, <2>1
<1>14. CASE \/ ReadPresence
            \/ \E c \in Requests : \/ RefuseReplay(c) \/ RepeatAnswer(c)
                                   \/ RefuseDisabled(c) \/ StartCommand(c)
  BY <1>2, <1>14 DEF ReadPresence, RefuseReplay, RepeatAnswer, RefuseDisabled,
     StartCommand, TakesFresh, Takes, serveVars, peopleVars, lineVars, streamVars
<1> QED BY <1>3, <1>4, <1>5, <1>6, <1>7, <1>8, <1>9, <1>10, <1>11, <1>12,
        <1>13, <1>14 DEF Next, Browsers, Server, Client

(* When someone watches, a process that has read all the relay sent it on  *)
(* its connection streams, whatever came before: visits, drops, dials.     *)
THEOREM WatchedIsStreamed == Spec => []WatchedStreams
<1>1. Init => WatchInv
  BY DEF Init, WatchInv, Greeted
<1>2. TypeOK /\ WatchInv /\ [Next]_vars => WatchInv'
  BY WatchNext
<1>3. TypeOK /\ WatchInv => WatchedStreams
  <2> SUFFICES ASSUME TypeOK, WatchInv, CaughtUp, watchers > 0, watchers = subs
               PROVE  subscribed
    BY DEF WatchedStreams
  <2>1. Hears /\ Len(down) = 0
    BY DEF WatchInv, Greeted, Watched, CaughtUp
  <2> QED BY <2>1 DEF Hears
<1> QED BY <1>1, <1>2, <1>3, TypeCorrect, PTL DEF Spec

-----------------------------------------------------------------------------
(* The link keeps its promise.                                             *)

LEMMA PromiseInit == Init => Promise!Init
BY DEF Init, Promise!Init

(* Steps of the phone and the server.                                      *)
LEMMA PromiseServer ==
  ASSUME TypeOK, OnceInv, AnswerInv, Phone \/ Browsers \/ Server
  PROVE  [Promise!Next]_(Promise!vars)
<1> USE DEF Promise!Next, Promise!vars, runVars, memoVars
<1>0. /\ outcome \in [Requests -> Open \cup Closed]
      /\ up \in [Links -> Seq(Acks)]
      /\ ran \in [Requests -> Nat]
  BY DEF TypeOK
<1>1. ASSUME NEW c \in Requests, Route(c) PROVE Promise!Send(c)
  BY <1>1 DEF Route, Promise!Send
<1>2. ASSUME NEW c \in Requests, NEW r \in {"machine_offline", "error"},
             outcome[c] \in Open, outcome' = [outcome EXCEPT ![c] = r],
             UNCHANGED <<ran, forgot>>
      PROVE  Promise!GiveUp({c}, r)
  BY <1>0, <1>2 DEF Promise!GiveUp, Promise!Open, Open
<1>3. ASSUME NEW c \in Requests, RouteRaises(c)
      PROVE  Promise!GiveUp({c}, "error")
  BY <1>2, <1>3 DEF RouteRaises, Open
<1>4. ASSUME NEW c \in Requests, Timeout(c)
      PROVE  Promise!GiveUp({c}, "machine_offline")
  BY <1>2, <1>4 DEF Timeout, Open
<1>5. CASE Phone
  <2>1. PICK c \in Requests : Route(c) \/ RouteRaises(c) \/ Timeout(c)
    BY <1>5 DEF Phone
  <2>2. {c} \in SUBSET Requests
    OBVIOUS
  <2> QED BY <1>1, <1>3, <1>4, <2>1, <2>2
<1>6. CASE Browsers
  BY <1>6 DEF Browsers, Subscribe, SubscribeRaises, Unsubscribe
<1>7. ASSUME NEW l \in Links, ReadAck(l) PROVE [Promise!Next]_(Promise!vars)
  <2>1. PICK a \in Acks : a = Head(up[l]) /\ a = up[l][1]
    BY <1>0, <1>7 DEF ReadAck
  <2>2. a.c \in Requests /\ a.r \in {"ok", "failed", "disabled", "replay"}
    BY <2>1 DEF Acks, Results
  <2>3. StandsFor(a.c, a.r)
    <3>1. 1 \in 1..Len(up[l])
      BY <1>0, <1>7 DEF ReadAck
    <3> QED BY <2>1, <3>1 DEF AnswerInv
  <2>4. CASE outcome[a.c] = "waiting"
    <3>1. /\ outcome' = [outcome EXCEPT ![a.c] = a.r]
          /\ UNCHANGED <<ran, forgot>>
      BY <1>7, <2>1, <2>4 DEF ReadAck
    <3>2. /\ a.r = "ok" => ran[a.c] > 0
          /\ a.r = "disabled" => a.c \in forgot \/ ran[a.c] = 0
      BY <2>2, <2>3 DEF StandsFor, OnceInv, Results
    <3>3. Promise!Answer(a.c, a.r)
      BY <2>4, <3>1, <3>2 DEF Promise!Answer
    <3> QED BY <2>2, <3>3
  <2>5. CASE outcome[a.c] # "waiting"
    BY <1>7, <2>1, <2>5 DEF ReadAck
  <2> QED BY <2>4, <2>5
<1>8. CASE ServerRestart
  <2> DEFINE S == {c \in Requests : outcome[c] = "waiting"}
  <2>1. Promise!GiveUp(S, "error")
    BY <1>0, <1>8 DEF ServerRestart, Promise!GiveUp, Promise!Open
  <2>2. S \in SUBSET Requests
    OBVIOUS
  <2> QED BY <2>1, <2>2
<1>9. CASE \E l \in Links : \/ Accept(l) \/ Greet(l) \/ FlushDone(l) \/ EndServe(l)
                            \/ \E c \in Requests : FlushRow(l, c)
  BY <1>9 DEF Accept, Greet, FlushDone, EndServe, FlushRow
<1> QED BY <1>5, <1>6, <1>7, <1>8, <1>9 DEF Server

(* Steps of the client.                                                    *)
LEMMA PromiseClient ==
  ASSUME TypeOK, OnceInv, AnswerInv, Client
  PROVE  [Promise!Next]_(Promise!vars)
<1> USE DEF Promise!Next, Promise!vars
<1>1. CASE TakeEffect
  <2>1. PICK c \in Requests : running = c
    BY <1>1 DEF TakeEffect, TypeOK
  <2>2. /\ ran' = [ran EXCEPT ![c] = @ + 1] /\ UNCHANGED <<outcome, forgot>>
    BY <1>1, <2>1 DEF TakeEffect, memoVars
  <2>3. cache[c] = "none" /\ (ran[c] > 0 => c \in forgot)
    BY <1>1, <2>1, RequestsAssumption DEF TakeEffect, OnceInv
  <2>4. outcome[c] = "disabled" => c \in forgot
    BY <2>3 DEF AnswerInv, StandsFor, Results
  <2>5. ran[c] \in Nat
    BY DEF TypeOK
  <2>6. Promise!Run(c)
    BY <2>2, <2>3, <2>4, <2>5 DEF Promise!Run
  <2> QED BY <2>6
<1>2. CASE Drop \/ ClientRestart
  <2>1. PICK S \in SUBSET Requests : forgot' = forgot \cup S
    BY <1>2 DEF Drop, ClientRestart
  <2>2. UNCHANGED <<outcome, ran>>
    BY <1>2 DEF Drop, ClientRestart
  <2>3. Promise!Lose(S)
    BY <2>1, <2>2 DEF Promise!Lose
  <2> QED BY <2>3
<1>3. CASE \/ Dial \/ ReadPresence \/ \E r \in Results : Reply(r)
           \/ \E c \in Requests : \/ RefuseReplay(c) \/ RepeatAnswer(c)
                                  \/ RefuseDisabled(c) \/ StartCommand(c)
  BY <1>3 DEF Dial, ReadPresence, Reply, RefuseReplay, RepeatAnswer,
     RefuseDisabled, StartCommand, runVars, memoVars
<1> QED BY <1>1, <1>2, <1>3 DEF Client

(* Through losses, redeliveries, timeouts and restarts of either side, the *)
(* phone sees what RemoteCommand promises.                                 *)
THEOREM PromiseIsKept == Spec => KeepsPromise
<1>1. TypeOK /\ OnceInv /\ AnswerInv /\ [Next]_vars => [Promise!Next]_(Promise!vars)
  <2>1. UNCHANGED vars => UNCHANGED Promise!vars
    BY DEF vars, runVars, memoVars, Promise!vars
  <2> QED BY <2>1, PromiseServer, PromiseClient DEF Next
<1>2. TypeOK /\ TypeOK' /\ OnceInv /\ AnswerInv /\ [Next]_vars => AnswerInv'
  BY AnswerNext
<1>3. OnceInv /\ TypeOK /\ [Next]_vars => OnceInv'
  BY OnceNext
<1> QED BY <1>1, <1>2, <1>3, PromiseInit, OnceInit, AnswerInit, TypeCorrect, PTL
        DEF Spec, KeepsPromise, Promise!Spec

=============================================================================
