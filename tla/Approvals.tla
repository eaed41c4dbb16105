------------------------------ MODULE Approvals ------------------------------
(***************************************************************************)
(* A held tool call from the hook to the phone: HookReceiver and Gate keep *)
(* the approval, its push and its decision (src/foreman/client), the cloud *)
(* manager's event pump makes notices for the server while no browser      *)
(* watches, and the server keeps one notice per key until a browser has    *)
(* acknowledged it (src/foreman/server).                                   *)
(*                                                                         *)
(* Two subjects make events: held calls (a request, later a decision) and  *)
(* a session whose results come one after the other.  Titles, texts and    *)
(* the classification's patterns are left out, and so is the clock: a      *)
(* notice may lapse whenever the server looks.                             *)
(***************************************************************************)
EXTENDS Naturals, Sequences, FiniteSets

CONSTANTS
    Calls,              \* tool calls the hook hears of
    Phones,             \* endpoints of push subscriptions
    MaxResults,         \* results of the session, a bound
    QueueSize,          \* the cloud manager's outgoing queue
    InboxSize           \* notices an account may have

ASSUME ApprovalsAssumption ==
    MaxResults \in Nat /\ QueueSize \in Nat \ {0} /\ InboxSize \in Nat \ {0}

VARIABLES
    hook,               \* where the hook of a call is
    approval,           \* the approvals table: the status of a call's row
    deciding,           \* calls whose decision is written and not yet recorded
    untold,             \* history: calls a restart left so
    ring,               \* phones a push under way still has to reach
    gone,               \* phones it found gone
    phones,             \* the push_subscriptions table
    results,            \* results the session has had
    timeline,           \* events, as the client has stored and published them
    pumped,             \* how many of them the event pump has taken
    watching,           \* CloudManager._subscribed
    outgoing,           \* CloudManager._outgoing
    inHand,             \* the frame its sender has taken, or none
    inbox,              \* the server's notifications, the oldest first
    seen,               \* notices the browser has loaded and not acknowledged
    unread              \* history: notices deleted by an acknowledgement of another

approvalVars == <<hook, approval, deciding, untold, ring, gone, phones, results, timeline, pumped,
                  watching, outgoing, inHand, inbox, seen, unread>>

Session == "session"
Nothing == <<>>
Verdicts == {"approved", "rejected"}
Asked(c) == [type |-> "approval_req", of |-> c, n |-> 0]
Decided(c, s) == [type |-> s, of |-> c, n |-> 0]
Result(n) == [type |-> "stop", of |-> Session, n |-> n]
Events == {Asked(c) : c \in Calls} \cup {Decided(c, s) : c \in Calls, s \in Verdicts}
          \cup {Result(n) : n \in 1 .. MaxResults}
Notices == {[key |-> c, n |-> 0] : c \in Calls} \cup {[key |-> Session, n |-> n] : n \in 1 .. MaxResults}

\* A row bears the id of the notice that made it.
Rows == [notice : Notices, id : 0 .. MaxResults]

ApprovalsTypeOK ==
    /\ hook \in [Calls -> {"none", "pushing", "denied", "allowed", "lost"}]
    /\ approval \in [Calls -> {"none", "pending"} \cup Verdicts]
    /\ deciding \subseteq Calls /\ untold \subseteq Calls
    /\ ring \in [Calls -> SUBSET Phones] /\ gone \in [Calls -> SUBSET Phones]
    /\ phones \subseteq Phones
    /\ results \in 0 .. MaxResults
    /\ timeline \in Seq(Events) /\ pumped \in 0 .. Len(timeline)
    /\ watching \in BOOLEAN
    /\ outgoing \in Seq(Notices) /\ Len(outgoing) <= QueueSize
    /\ inHand \in {Nothing} \cup {<<m>> : m \in Notices}
    /\ inbox \in Seq(Rows) /\ Len(inbox) <= InboxSize
    /\ seen \subseteq Rows /\ unread \subseteq Notices

ApprovalsInit ==
    /\ hook = [c \in Calls |-> "none"] /\ approval = [c \in Calls |-> "none"]
    /\ deciding = {} /\ untold = {}
    /\ ring = [c \in Calls |-> {}] /\ gone = [c \in Calls |-> {}]
    /\ phones = {} /\ results = 0 /\ timeline = <<>> /\ pumped = 0
    /\ watching = FALSE /\ outgoing = <<>> /\ inHand = Nothing
    /\ inbox = <<>> /\ seen = {} /\ unread = {}

decisionVars == <<deciding, untold>>
hookVars == <<hook, approval, ring, gone, decisionVars>>
cloudVars == <<pumped, watching, outgoing, inHand>>
serverVars == <<inbox, seen, unread>>

-----------------------------------------------------------------------------
(* The hook, the gate and the push.                                        *)

Put(e) == timeline' = Append(timeline, e)

\* A call that needs no approval goes on (Gate.classify says which).
Allow(c) ==
    /\ hook[c] = "none"
    /\ hook' = [hook EXCEPT ![c] = "allowed"]
    /\ UNCHANGED <<approval, decisionVars, ring, gone, phones, results, timeline, cloudVars, serverVars>>

\* The row is committed before the phones ring, the request after, so that a
\* restart can come between even when there is no phone.
Hold(c) ==
    /\ hook[c] = "none"
    /\ approval' = [approval EXCEPT ![c] = "pending"]
    /\ ring' = [ring EXCEPT ![c] = phones]
    /\ hook' = [hook EXCEPT ![c] = "pushing"]
    /\ UNCHANGED <<decisionVars, gone, phones, results, timeline, cloudVars, serverVars>>

\* The push service answers for one phone; any answer but gone is passed over.
Ring(c, p) ==
    /\ p \in ring[c]
    /\ ring' = [ring EXCEPT ![c] = @ \ {p}]
    /\ \/ UNCHANGED gone
       \/ gone' = [gone EXCEPT ![c] = @ \cup {p}]
    /\ UNCHANGED <<hook, approval, decisionVars, phones, results, timeline, cloudVars, serverVars>>

\* Gone phones are pruned, the request is recorded and the call denied.
Deny(c) ==
    /\ hook[c] = "pushing" /\ ring[c] = {}
    /\ phones' = phones \ gone[c]
    /\ gone' = [gone EXCEPT ![c] = {}]
    /\ hook' = [hook EXCEPT ![c] = "denied"]
    /\ Put(Asked(c))
    /\ UNCHANGED <<approval, decisionVars, ring, results, cloudVars, serverVars>>

Decide_Again(c, s) ==
    /\ approval[c] # "none"
    /\ approval' = [approval EXCEPT ![c] = s]
    /\ deciding' = deciding \cup {c}
    /\ UNCHANGED <<hook, untold, ring, gone, phones, results, timeline, cloudVars, serverVars>>

\* Gate.resolve, from the PC or through the relay, with the row's own nonce:
\* nothing else decides, and only once.  The row is committed first ...
Decide(c, s) ==
    /\ approval[c] = "pending"
    /\ approval' = [approval EXCEPT ![c] = s]
    /\ deciding' = deciding \cup {c}
    /\ UNCHANGED <<hook, untold, ring, gone, phones, results, timeline, cloudVars, serverVars>>

\* ... and then the event, in a commit of its own.
EmitDecided(c) ==
    /\ c \in deciding
    /\ deciding' = deciding \ {c}
    /\ Put(Decided(c, approval[c]))
    /\ UNCHANGED <<hook, approval, untold, ring, gone, phones, results, cloudVars, serverVars>>

Subscribe(p) ==
    /\ p \notin phones /\ phones' = phones \cup {p}
    /\ UNCHANGED <<hookVars, results, timeline, cloudVars, serverVars>>

Unsubscribe(p) ==
    /\ p \in phones /\ phones' = phones \ {p}
    /\ UNCHANGED <<hookVars, results, timeline, cloudVars, serverVars>>

\* An agent of the session stops or fails.
SessionResult ==
    /\ results < MaxResults
    /\ results' = results + 1
    /\ Put(Result(results'))
    /\ UNCHANGED <<hookVars, phones, cloudVars, serverVars>>

\* The program restarts: the hooks and decisions under way, the pump's and the
\* outgoing queue are gone, and the rows stay.
Restart ==
    /\ deciding # {} \/ \E c \in Calls : hook[c] = "pushing"
    /\ deciding' = {} /\ untold' = untold \cup deciding
    /\ hook' = [c \in Calls |-> IF hook[c] = "pushing" THEN "lost" ELSE hook[c]]
    /\ ring' = [c \in Calls |-> {}] /\ gone' = [c \in Calls |-> {}]
    /\ pumped' = Len(timeline) /\ watching' = FALSE /\ outgoing' = <<>> /\ inHand' = Nothing
    /\ UNCHANGED <<approval, phones, results, timeline, serverVars>>

-----------------------------------------------------------------------------
(* The cloud manager's pump and sender.                                    *)

\* _notify_frame: what wakes a phone.
NoticeOf(e) ==
    IF e.type \in {"approval_req", "stop"} THEN <<[key |-> e.of, n |-> e.n]>> ELSE <<>>

\* While a browser watches, events go out as they are (and are left out
\* here); a full queue drops what comes.
Pump ==
    LET notice == IF watching THEN <<>> ELSE NoticeOf(timeline[pumped + 1]) IN
    /\ pumped < Len(timeline)
    /\ pumped' = pumped + 1
    /\ outgoing' = IF Len(outgoing) < QueueSize THEN outgoing \o notice ELSE outgoing
    /\ UNCHANGED <<hookVars, phones, results, timeline, watching, inHand, serverVars>>

\* The relay's presence frames, see RelayLink.
Watch ==
    /\ watching' = ~watching
    /\ UNCHANGED <<hookVars, phones, results, timeline, pumped, outgoing, inHand, serverVars>>

TakeFrame ==
    /\ inHand = Nothing /\ outgoing # <<>>
    /\ inHand' = <<Head(outgoing)>> /\ outgoing' = Tail(outgoing)
    /\ UNCHANGED <<hookVars, phones, results, timeline, pumped, watching, serverVars>>

\* The line drops under the frame, or a cancelled sender's thread took it.
FrameLost ==
    /\ inHand # Nothing
    /\ inHand' = Nothing
    /\ UNCHANGED <<hookVars, phones, results, timeline, pumped, watching, outgoing, serverVars>>

-----------------------------------------------------------------------------
(* The server.                                                             *)

Others(k) == SelectSeq(inbox, LAMBDA r : r.notice.key # k)
RowIds(k) == {inbox[i].id : i \in {j \in DOMAIN inbox : inbox[j].notice.key = k}}
Newest(s) == IF Len(s) > InboxSize THEN SubSeq(s, Len(s) - InboxSize + 1, Len(s)) ELSE s

\* upsert_notification: one row per key, refreshed under the id it has; the
\* newest rows of an account stay.
Upserted(m) ==
    LET id == IF RowIds(m.key) = {} THEN m.n ELSE CHOOSE i \in RowIds(m.key) : TRUE
    IN  Newest(Append(Others(m.key), [notice |-> m, id |-> id]))

\* The rate limiter drops it, or it is kept and pushed.
HandleNotify ==
    /\ inHand # Nothing
    /\ inHand' = Nothing
    /\ inbox' \in {inbox, Upserted(inHand[1])}
    /\ UNCHANGED <<hookVars, phones, results, timeline, pumped, watching, outgoing, seen, unread>>

\* list_notifications sweeps what has lapsed before it reads.
List ==
    \E lapsed \in SUBSET {inbox[i].notice.key : i \in DOMAIN inbox} :
        LET kept == SelectSeq(inbox, LAMBDA r : r.notice.key \notin lapsed) IN
        /\ inbox' = kept
        /\ seen' = {kept[i] : i \in DOMAIN kept}
        /\ UNCHANGED <<hookVars, phones, results, timeline, cloudVars, unread>>

\* The browser names a row it has loaded by its id.
Acknowledge(r) ==
    LET meant == {i \in DOMAIN inbox : inbox[i].notice.key = r.notice.key /\ inbox[i].id = r.id} IN
    /\ r \in seen
    /\ seen' = seen \ {r}
    /\ inbox' = IF meant = {} THEN inbox ELSE Others(r.notice.key)
    /\ unread' = unread \cup ({inbox[i].notice : i \in meant} \ {r.notice})
    /\ UNCHANGED <<hookVars, phones, results, timeline, cloudVars>>

ApprovalsNext ==
    \/ \E c \in Calls :
        \/ Allow(c) \/ Hold(c) \/ Deny(c) \/ EmitDecided(c)
        \/ \E p \in Phones : Ring(c, p)
        \/ \E s \in Verdicts : Decide(c, s)
    \/ \E p \in Phones : Subscribe(p) \/ Unsubscribe(p)
    \/ SessionResult \/ Restart
    \/ Pump \/ Watch \/ TakeFrame \/ FrameLost
    \/ HandleNotify \/ List
    \/ \E r \in seen : Acknowledge(r)

ApprovalsSpec == ApprovalsInit /\ [][ApprovalsNext]_approvalVars

-----------------------------------------------------------------------------
(* Properties.                                                             *)

Says(e) == {i \in DOMAIN timeline : timeline[i] = e}

\* However often a decision is sent, from the PC and through the relay, and
\* whatever hooks, pushes and restarts lie between, a call has one decision in
\* the timeline at most, the one its row keeps; and a decided row has its
\* event unless that is about to be written or a restart came before it
\* (Gate.resolve).
DecidedOnce ==
    \A c \in Calls :
        /\ Cardinality(UNION {Says(Decided(c, s)) : s \in Verdicts}) <= 1
        /\ \A s \in Verdicts :
              /\ Says(Decided(c, s)) # {} => approval[c] = s
              /\ approval[c] = s => Says(Decided(c, s)) # {} \/ c \in deciding \cup untold

\* Gate.resolve "Emits an `approval_decided` event (persist-then-publish)".
\* It is not so of every decision: a restart between its two commits leaves a
\* decided row that no event ever tells of.
DecisionsAreTold ==
    \A c \in Calls, s \in Verdicts :
        approval[c] = s /\ deciding = {} => Says(Decided(c, s)) # {}

\* A decision comes after its request in the timeline. It is not so: a call
\* can be decided while its phones still ring.
RequestComesFirst ==
    \A i \in DOMAIN timeline : \A c \in Calls, s \in Verdicts :
        timeline[i] = Decided(c, s) => \E j \in 1 .. i : timeline[j] = Asked(c)

\* An acknowledgement deletes what the browser has loaded. It is not so: the
\* row may have been refreshed by a newer result meanwhile.
AckedWasSeen == unread = {}
=============================================================================
