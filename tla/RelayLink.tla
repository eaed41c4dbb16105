----------------------------- MODULE RelayLink -----------------------------
(***************************************************************************)
(* The link between the relay server and one local process: commands sent  *)
(* by a phone (Relay.route_with_ack), the connections the process dials    *)
(* (RelayConnector, Relay.serve), the client that runs the commands        *)
(* (CloudManager), and the presence of browsers (subscribe, unsubscribe).  *)
(*                                                                         *)
(* Server and client are event loops of their own: an action is what one   *)
(* of them does between two awaits.  A connection is reliable and ordered  *)
(* until it drops.  The server notices a drop later than the client, so a  *)
(* dead connection may still be registered next to the live one: what is   *)
(* sent on it is lost, or the send raises.                                 *)
(*                                                                         *)
(* Connections are numbered in the order they are dialled.  MaxLinks and   *)
(* MaxVisits bound the dials and the browser visits of a behaviour.        *)
(***************************************************************************)
EXTENDS Naturals, Sequences

CONSTANTS
  Requests,   \* identities (env.id) of the commands the phone sends
  None,       \* no command is running
  MaxLinks,   \* dials of the client in a behaviour
  MaxVisits,  \* browser visits in a behaviour
  Crashes     \* TRUE: server and client processes may restart

ASSUME RequestsAssumption == None \notin Requests
ASSUME LimitsAssumption   == MaxLinks \in Nat /\ MaxVisits \in Nat
ASSUME CrashesAssumption  == Crashes \in BOOLEAN

VARIABLES
  (* the server *)
  conns,      \* Relay.conns: registered connections of the process
  srv,        \* where Relay.serve is for each connection
  rows,       \* rows a flush has popped and not sent yet
  kept,       \* rows a flush has sent and will put back
  queue,      \* Relay._offline_queue
  seqNo,      \* Relay._seq
  subs,       \* Relay._subscribers
  online,     \* ProcessRegistry.online (in the database)
  outcome,    \* what the phone knows of each request
  watchers,   \* browsers that are connected and counted
  visits,     \* history: number of visits so far
  restarted,  \* history: the server has been restarted
  (* the client *)
  dialled,    \* number of connections dialled
  clink,      \* the connection the client reads, 0: none
  subscribed, \* CloudManager._subscribed
  told,       \* history: it was read on the present connection
  lastSeq,    \* CloudManager._last_seq
  cache,      \* CloudManager._ack_cache
  running,    \* the command the read loop waits for
  effect,     \* it has taken effect in the app
  ran,        \* history: how often each command took effect
  forgot,     \* history: commands whose run or answer the client lost
  (* the wire *)
  down,       \* unread frames to the client on its connection
  up          \* unread acks to the server on each connection

flushVars  == <<rows, kept>>
serveVars  == <<conns, srv, online>>
peopleVars == <<subs, watchers, visits>>
runVars    == <<running, effect, ran>>
memoVars   == <<lastSeq, cache, forgot>>
lineVars   == <<dialled, clink>>
streamVars == <<subscribed, told>>
vars == <<flushVars, serveVars, peopleVars, runVars, memoVars, lineVars,
          queue, seqNo, outcome, restarted, streamVars, down, up>>

Links    == 1..MaxLinks
Results  == {"ok", "failed", "disabled"}
Open     == {"new", "waiting"}
Closed   == Results \cup {"replay", "machine_offline", "error"}
Phases   == {"none", "hello", "greet", "flush", "up", "end"}
Presence == [k : {"subscribe", "unsubscribe"}]
Commands == [k : {"command"}, c : Requests, seq : Nat]
Acks     == [c : Requests, r : Results \cup {"replay"}]

(* Registered connections whose peer is gone. *)
Dead == conns \ {clink}

Init ==
  /\ conns = {} /\ queue = {} /\ seqNo = 0 /\ subs = 0
  /\ watchers = 0 /\ visits = 0
  /\ srv  = [l \in Links |-> "none"]
  /\ rows = [l \in Links |-> {}]
  /\ kept = [l \in Links |-> {}]
  /\ online = FALSE /\ restarted = FALSE
  /\ outcome = [c \in Requests |-> "new"]
  /\ dialled = 0 /\ clink = 0 /\ lastSeq = 0
  /\ subscribed = FALSE /\ told = FALSE
  /\ cache = [c \in Requests |-> "none"]
  /\ running = None /\ effect = FALSE
  /\ ran = [c \in Requests |-> 0]
  /\ forgot = {}
  /\ down = <<>>
  /\ up = [l \in Links |-> <<>>]

-----------------------------------------------------------------------------
(* Sending to the process.                                                 *)

(* A frame on connection l reaches the client only on its own connection.  *)
Put(l, frame) == down' = IF l = clink THEN Append(down, frame) ELSE down

(* Mutant: the number is not advanced. *)
SendCommand_SameSeq(l, c) ==
  /\ Put(l, [k |-> "command", c |-> c, seq |-> seqNo])
  /\ UNCHANGED seqNo

(* `_send_to_client` numbers each command afresh; numbers spent on dead    *)
(* connections are skipped, as only their order matters.                   *)
SendCommand(l, c) ==
  /\ Put(l, [k |-> "command", c |-> c, seq |-> seqNo + 1])
  /\ seqNo' = IF l = clink THEN seqNo + 1 ELSE seqNo

(* To every registered connection; at most one of them is alive. *)
Reach == IF clink \in conns THEN clink ELSE 0

-----------------------------------------------------------------------------
(* The phone.                                                              *)

(* route_with_ack: sent on the registered connections, or queued for the   *)
(* next one.                                                               *)
Route(c) ==
  /\ outcome[c] = "new"
  /\ outcome' = [outcome EXCEPT ![c] = "waiting"]
  /\ IF conns = {}
     THEN queue' = queue \cup {c} /\ UNCHANGED <<down, seqNo>>
     ELSE /\ IF Reach # 0 THEN SendCommand(Reach, c)
                          ELSE UNCHANGED <<down, seqNo>>
          /\ UNCHANGED queue
  /\ UNCHANGED <<flushVars, serveVars, peopleVars, runVars, memoVars,
                 lineVars, restarted, streamVars, up>>

(* A send on a dead connection raises, before or after the live one was    *)
(* served: the request fails at once.                                      *)
RouteRaises(c) ==
  /\ outcome[c] = "new" /\ Dead # {}
  /\ outcome' = [outcome EXCEPT ![c] = "error"]
  /\ \/ UNCHANGED <<down, seqNo>>
     \/ Reach # 0 /\ SendCommand(Reach, c)
  /\ UNCHANGED <<flushVars, serveVars, peopleVars, runVars, memoVars,
                 lineVars, queue, restarted, streamVars, up>>

(* The acknowledgement timeout: answered "machine_offline" and unqueued. *)
Timeout(c) ==
  /\ outcome[c] = "waiting"
  /\ outcome' = [outcome EXCEPT ![c] = "machine_offline"]
  /\ queue' = queue \ {c}
  /\ UNCHANGED <<flushVars, serveVars, peopleVars, runVars, memoVars,
                 lineVars, seqNo, restarted, streamVars, down, up>>

-----------------------------------------------------------------------------
(* Browsers.                                                               *)

PresenceFrame(kind) ==
  IF Reach # 0 THEN Put(Reach, [k |-> kind]) ELSE UNCHANGED down

(* Mutant: the count is not written back. *)
(* A browser opens /ws; the 0 -> 1 edge is told to the process. *)
Subscribe ==
  /\ visits < MaxVisits /\ visits' = visits + 1
  /\ subs' = subs + 1 /\ watchers' = watchers + 1
  /\ IF subs = 0 THEN PresenceFrame("subscribe") ELSE UNCHANGED down
  /\ UNCHANGED <<flushVars, serveVars, runVars, memoVars, lineVars, queue,
                 seqNo, outcome, restarted, streamVars, up>>

(* The edge frame raises on a dead connection: the browser is dropped but  *)
(* stays counted, as the endpoint has not reached its finally clause.      *)
SubscribeRaises ==
  /\ subs = 0 /\ Dead # {}
  /\ visits < MaxVisits /\ visits' = visits + 1
  /\ subs' = subs + 1
  /\ \/ UNCHANGED down
     \/ PresenceFrame("subscribe")
  /\ UNCHANGED <<flushVars, serveVars, watchers, runVars, memoVars, lineVars,
                 queue, seqNo, outcome, restarted, streamVars, up>>

(* A browser leaves; the 1 -> 0 edge is told to the process, unless the    *)
(* frame raises on a dead connection first.                                *)
Unsubscribe ==
  /\ watchers > 0
  /\ subs' = subs - 1 /\ watchers' = watchers - 1 /\ UNCHANGED visits
  /\ IF subs = 1
     THEN \/ PresenceFrame("unsubscribe")
          \/ Dead # {} /\ UNCHANGED down
     ELSE UNCHANGED down
  /\ UNCHANGED <<flushVars, serveVars, runVars, memoVars, lineVars, queue,
                 seqNo, outcome, restarted, streamVars, up>>

-----------------------------------------------------------------------------
(* Relay.serve, one task per connection.                                   *)

(* The hello frame is accepted: register, then hello_ack. *)
Accept(l) ==
  /\ srv[l] = "hello"
  /\ srv' = [srv EXCEPT ![l] = "greet"]
  /\ conns' = conns \cup {l} /\ online' = TRUE
  /\ UNCHANGED <<flushVars, peopleVars, runVars, memoVars, lineVars, queue,
                 seqNo, outcome, restarted, streamVars, down, up>>

(* Mutant: a new connection is not told that someone watches. *)
Greet_Silent(l) ==
  /\ srv[l] = "greet"
  /\ srv' = [srv EXCEPT ![l] = "flush"]
  /\ rows' = [rows EXCEPT ![l] = queue]
  /\ queue' = {}
  /\ UNCHANGED <<conns, online, kept, peopleVars, runVars, memoVars, lineVars,
                 seqNo, outcome, restarted, streamVars, down, up>>

(* Tell the process that someone watches; pop the queued rows. *)
Greet(l) ==
  /\ srv[l] = "greet"
  /\ srv' = [srv EXCEPT ![l] = "flush"]
  /\ IF subs > 0 THEN Put(l, [k |-> "subscribe"]) ELSE UNCHANGED down
  /\ rows' = [rows EXCEPT ![l] = queue]
  /\ queue' = {}
  /\ UNCHANGED <<conns, online, kept, peopleVars, runVars, memoVars, lineVars,
                 seqNo, outcome, restarted, streamVars, up>>

(* Mutant: answered rows are sent too. *)
(* One row of `_flush_offline_queue`: sent and kept while it waits. *)
FlushRow(l, c) ==
  /\ srv[l] = "flush" /\ c \in rows[l]
  /\ rows' = [rows EXCEPT ![l] = @ \ {c}]
  /\ IF outcome[c] = "waiting"
     THEN SendCommand(l, c) /\ kept' = [kept EXCEPT ![l] = @ \cup {c}]
     ELSE UNCHANGED <<down, seqNo, kept>>
  /\ UNCHANGED <<serveVars, peopleVars, runVars, memoVars, lineVars, queue,
                 outcome, restarted, streamVars, up>>

(* Kept rows replace whatever the queue holds by now. *)
FlushDone(l) ==
  /\ srv[l] = "flush" /\ rows[l] = {}
  /\ srv' = [srv EXCEPT ![l] = "up"]
  /\ queue' = IF kept[l] # {} THEN kept[l] ELSE queue
  /\ kept' = [kept EXCEPT ![l] = {}]
  /\ UNCHANGED <<conns, online, rows, peopleVars, runVars, memoVars, lineVars,
                 seqNo, outcome, restarted, streamVars, down, up>>

(* Mutant: a late ack replaces the answer. *)
ReadAck_Late(l) ==
  /\ srv[l] = "up" /\ up[l] # <<>>
  /\ up' = [up EXCEPT ![l] = Tail(@)]
  /\ LET a == Head(up[l]) IN
       /\ outcome' = [outcome EXCEPT ![a.c] = a.r]
       /\ queue' = queue \ {a.c}
  /\ UNCHANGED <<flushVars, serveVars, peopleVars, runVars, memoVars,
                 lineVars, seqNo, restarted, streamVars, down>>

(* An ack resolves the waiter, if there still is one. *)
ReadAck(l) ==
  /\ srv[l] = "up" /\ up[l] # <<>>
  /\ up' = [up EXCEPT ![l] = Tail(@)]
  /\ LET a == Head(up[l]) IN
       IF outcome[a.c] = "waiting"
       THEN /\ outcome' = [outcome EXCEPT ![a.c] = a.r]
            /\ queue' = queue \ {a.c}
       ELSE UNCHANGED <<outcome, queue>>
  /\ UNCHANGED <<flushVars, serveVars, peopleVars, runVars, memoVars,
                 lineVars, seqNo, restarted, streamVars, down>>

(* Mutant: the process is marked offline whatever else is connected. *)
EndServe_AlwaysOffline(l) ==
  /\ l \in conns
  /\ conns' = conns \ {l} /\ online' = FALSE
  /\ srv'  = [srv EXCEPT ![l] = "end"]
  /\ rows' = [rows EXCEPT ![l] = {}]
  /\ kept' = [kept EXCEPT ![l] = {}]
  /\ up'   = [up EXCEPT ![l] = <<>>]
  /\ UNCHANGED <<peopleVars, runVars, memoVars, lineVars, queue, seqNo,
                 outcome, restarted, streamVars, down>>

(* The receive or a send of serve fails: unregister.  Rows of an           *)
(* unfinished flush go with it.                                            *)
EndServe(l) ==
  /\ l \in conns
  /\ conns' = conns \ {l}
  /\ online' = (online /\ conns # {l})
  /\ srv'  = [srv EXCEPT ![l] = "end"]
  /\ rows' = [rows EXCEPT ![l] = {}]
  /\ kept' = [kept EXCEPT ![l] = {}]
  /\ up'   = [up EXCEPT ![l] = <<>>]
  /\ UNCHANGED <<peopleVars, runVars, memoVars, lineVars, queue, seqNo,
                 outcome, restarted, streamVars, down>>

(* The server process restarts: only the registry row is durable. *)
ServerRestart ==
  /\ Crashes /\ (conns # {} \/ queue # {} \/ seqNo > 0 \/ subs > 0)
  /\ conns' = {} /\ queue' = {} /\ seqNo' = 0 /\ subs' = 0 /\ watchers' = 0
  /\ srv'  = [l \in Links |-> IF srv[l] = "none" THEN "none" ELSE "end"]
  /\ rows' = [l \in Links |-> {}]
  /\ kept' = [l \in Links |-> {}]
  /\ up'   = [l \in Links |-> <<>>]
  /\ outcome' = [c \in Requests |->
                   IF outcome[c] = "waiting" THEN "error" ELSE outcome[c]]
  /\ restarted' = TRUE
  /\ UNCHANGED <<online, visits, runVars, memoVars, lineVars, streamVars, down>>

-----------------------------------------------------------------------------
(* The client.                                                             *)

Dial ==
  /\ clink = 0 /\ dialled < MaxLinks
  /\ dialled' = dialled + 1 /\ clink' = dialled + 1
  /\ srv' = [srv EXCEPT ![dialled + 1] = "hello"]
  /\ UNCHANGED <<conns, online, flushVars, peopleVars, runVars, memoVars,
                 queue, seqNo, outcome, restarted, streamVars, down, up>>

(* The session ends.  A command that is running is cancelled with the read *)
(* loop: whatever it did already is not on record.                         *)
Drop ==
  /\ clink # 0
  /\ clink' = 0 /\ down' = <<>>
  /\ told' = FALSE /\ UNCHANGED subscribed
  /\ running' = None /\ effect' = FALSE
  /\ forgot' = forgot \cup {c \in Requests : running = c /\ effect}
  /\ UNCHANGED <<flushVars, serveVars, peopleVars, ran, lastSeq, cache,
                 dialled, queue, seqNo, outcome, restarted, up>>

ReadPresence ==
  /\ running = None /\ down # <<>> /\ Head(down) \in Presence
  /\ subscribed' = (Head(down).k = "subscribe")
  /\ told' = (told \/ subscribed')
  /\ down' = Tail(down)
  /\ UNCHANGED <<flushVars, serveVars, peopleVars, runVars, memoVars,
                 lineVars, queue, seqNo, outcome, restarted, up>>

(* The read loop takes the next frame, command c. *)
Takes(c) ==
  /\ running = None /\ down # <<>>
  /\ Head(down).k = "command" /\ Head(down).c = c
  /\ down' = Tail(down)

(* ... and its number is above the last one. *)
TakesFresh(c) ==
  /\ Takes(c) /\ Head(down).seq > lastSeq
  /\ lastSeq' = Head(down).seq

Answer(c, r) ==
  up' = [up EXCEPT ![clink] =
           IF srv[clink] = "end" THEN @ ELSE Append(@, [c |-> c, r |-> r])]

(* Refused: the number is not above the last one. *)
RefuseReplay(c) ==
  /\ Takes(c) /\ Head(down).seq <= lastSeq
  /\ Answer(c, "replay")
  /\ UNCHANGED <<flushVars, serveVars, peopleVars, runVars, memoVars,
                 lineVars, queue, seqNo, outcome, restarted, streamVars>>

(* Answered before: the cached answer again. *)
RepeatAnswer(c) ==
  /\ TakesFresh(c) /\ cache[c] # "none"
  /\ Answer(c, cache[c])
  /\ UNCHANGED <<flushVars, serveVars, peopleVars, runVars, cache, forgot,
                 lineVars, queue, seqNo, outcome, restarted, streamVars>>

(* Remote execution is switched off; that answer is cached as well. *)
RefuseDisabled(c) ==
  /\ TakesFresh(c) /\ cache[c] = "none"
  /\ cache' = [cache EXCEPT ![c] = "disabled"]
  /\ Answer(c, "disabled")
  /\ UNCHANGED <<flushVars, serveVars, peopleVars, runVars, forgot, lineVars,
                 queue, seqNo, outcome, restarted, streamVars>>

(* Handed to the app's event loop; the read loop waits for the result. *)
StartCommand(c) ==
  /\ TakesFresh(c) /\ cache[c] = "none"
  /\ running' = c /\ effect' = FALSE
  /\ UNCHANGED <<flushVars, serveVars, peopleVars, ran, cache, forgot,
                 lineVars, queue, seqNo, outcome, restarted, streamVars, up>>

TakeEffect ==
  /\ running # None /\ ~effect
  /\ effect' = TRUE
  /\ ran' = [ran EXCEPT ![running] = @ + 1]
  /\ UNCHANGED <<flushVars, serveVars, peopleVars, running, memoVars,
                 lineVars, queue, seqNo, outcome, restarted, streamVars,
                 down, up>>

(* Mutant: acknowledged on receipt, before it has run. *)
Reply_OnReceipt(r) ==
  /\ running # None /\ r \in {"ok", "failed"}
  /\ cache' = [cache EXCEPT ![running] = r]
  /\ Answer(running, r)
  /\ running' = None /\ effect' = FALSE
  /\ UNCHANGED <<flushVars, serveVars, peopleVars, ran, lastSeq, forgot,
                 lineVars, queue, seqNo, outcome, restarted, streamVars,
                 down>>

(* The result is cached, then sent; a command may raise before or after it *)
(* takes effect.                                                           *)
Reply(r) ==
  /\ running # None /\ r \in {"ok", "failed"} /\ (r = "ok" => effect)
  /\ cache' = [cache EXCEPT ![running] = r]
  /\ Answer(running, r)
  /\ running' = None /\ effect' = FALSE
  /\ UNCHANGED <<flushVars, serveVars, peopleVars, ran, lastSeq, forgot,
                 lineVars, queue, seqNo, outcome, restarted, streamVars,
                 down>>

(* The client process restarts and has forgotten every answer. *)
ClientRestart ==
  /\ Crashes /\ dialled > 0
  /\ clink' = 0 /\ down' = <<>> /\ lastSeq' = 0
  /\ subscribed' = FALSE /\ told' = FALSE
  /\ cache' = [c \in Requests |-> "none"]
  /\ running' = None /\ effect' = FALSE
  /\ forgot' = forgot \cup {c \in Requests : ran[c] > 0 \/ cache[c] # "none"}
  /\ UNCHANGED <<flushVars, serveVars, peopleVars, ran, dialled, queue, seqNo,
                 outcome, restarted, up>>

-----------------------------------------------------------------------------
Phone == \E c \in Requests : Route(c) \/ RouteRaises(c) \/ Timeout(c)

Browsers == Subscribe \/ SubscribeRaises \/ Unsubscribe

Server ==
  \/ \E l \in Links :
       \/ Accept(l) \/ Greet(l) \/ FlushDone(l) \/ ReadAck(l) \/ EndServe(l)
       \/ \E c \in Requests : FlushRow(l, c)
  \/ ServerRestart

Client ==
  \/ Dial \/ Drop \/ ReadPresence \/ TakeEffect \/ ClientRestart
  \/ \E c \in Requests :
       RefuseReplay(c) \/ RepeatAnswer(c) \/ RefuseDisabled(c) \/ StartCommand(c)
  \/ \E r \in Results : Reply(r)

Next == Phone \/ Browsers \/ Server \/ Client

Spec == Init /\ [][Next]_vars

-----------------------------------------------------------------------------
(* Properties that hold.                                                   *)

TypeOK ==
  /\ conns \subseteq Links /\ queue \subseteq Requests
  /\ srv \in [Links -> Phases]
  /\ rows \in [Links -> SUBSET Requests] /\ kept \in [Links -> SUBSET Requests]
  /\ seqNo \in Nat /\ visits \in 0..MaxVisits
  /\ subs \in 0..visits /\ watchers \in 0..subs
  /\ online \in BOOLEAN /\ restarted \in BOOLEAN
  /\ outcome \in [Requests -> Open \cup Closed]
  /\ dialled \in 0..MaxLinks /\ clink \in 0..dialled
  /\ subscribed \in BOOLEAN /\ told \in BOOLEAN /\ lastSeq \in Nat
  /\ cache \in [Requests -> Results \cup {"none"}]
  /\ running \in Requests \cup {None} /\ effect \in BOOLEAN
  /\ ran \in [Requests -> Nat] /\ forgot \subseteq Requests
  /\ down \in Seq(Presence \cup Commands)
  /\ up \in [Links -> Seq(Acks)]

(* Redelivery on every reconnect does not run a command again: it runs     *)
(* twice only if the client lost the first run, cut off by a drop or a     *)
(* restart.                                                                *)
AtMostOnce == \A c \in Requests : ran[c] > 1 => c \in forgot

(* The answer the phone was given is the one the client would repeat, and  *)
(* "ok" means the command took effect, however often it was delivered and  *)
(* on whichever connection the ack came back.                              *)
AnswerStands ==
  \A c \in Requests :
    /\ outcome[c] = "ok" => ran[c] > 0
    /\ outcome[c] \in Results => c \in forgot \/ cache[c] = outcome[c]

(* While the server keeps its counter, no command is ever refused as a     *)
(* replay, on whatever connection it is delivered or redelivered.          *)
ReplayNeedsRestart ==
  (\E c \in Requests : outcome[c] = "replay") => restarted

(* A request that was answered, or timed out, is never sent any more.      *)
AnsweredStaysUnsent ==
  [][Len(down') > Len(down) /\ down'[Len(down')].k = "command" =>
       outcome[down'[Len(down')].c] \in Open]_vars

(* All of it together is what RemoteCommand promises the phone, whose      *)
(* answers never change once given, not by a late ack either.              *)
Promise == INSTANCE RemoteCommand WITH out <- outcome, lost <- forgot

KeepsPromise == Promise!Spec

(* The registry shows the process online exactly while a connection of it  *)
(* is registered, with overlapping connections too; only a restart of the  *)
(* server leaves it online without one.                                    *)
OnlineIsConnected ==
  /\ conns # {} => online
  /\ online /\ conns = {} => restarted

(* The process is greeted on its connection and has read all there is. *)
CaughtUp ==
  clink \in conns /\ srv[clink] \in {"flush", "up"} /\ down = <<>>

(* When someone watches, a process that has read everything on its         *)
(* connection streams, whenever the browser came and however often the     *)
(* process reconnected; unless a subscription that raised is still counted.*)
WatchedStreams ==
  CaughtUp /\ watchers > 0 /\ watchers = subs => subscribed

-----------------------------------------------------------------------------
(* Properties the repository states and the code does not keep.            *)

(* "per-connection monotonic sequence number for replay defense"           *)
(* (shared/protocol.py): a command the relay numbers and sends for the     *)
(* first time on a connection is fresh, and no phone is told "replay".     *)
FreshIsNoReplay == \A c \in Requests : outcome[c] # "replay"

(* A process is quiet after it connects, until the relay tells it that     *)
(* someone watches (docs/REMOTE_CONTROL_LINK_DESIGN.md, section 3.1); at   *)
(* the least when nobody watches and it has read all the relay sent.       *)
QuietUntilTold == CaughtUp /\ subs = 0 /\ subscribed => told

=============================================================================
