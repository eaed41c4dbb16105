---------------------------- MODULE ContextLedger ----------------------------
(***************************************************************************)
(* The PM's context of one session: the events in the store, the frames    *)
(* ContextManager derives from them, the checkpoints a compaction installs *)
(* and what a restore puts before the model.                               *)
(*                                                                         *)
(* Everything but the summary of a compaction is synchronous: between the  *)
(* snapshot a compaction takes and its checkpoint other events, restores   *)
(* and compactions (the PM's own and those of the API) come in between.    *)
(*                                                                         *)
(* Events are ordered by time and then by their random id; the event of a  *)
(* checkpoint has an id after all others.                                  *)
(***************************************************************************)
EXTENDS Naturals, SequencesExt

CONSTANTS
    Compactors,     \* who may be compacting at the same time
    MaxTime,        \* ticks of the clock, a bound
    MaxEvents,      \* events besides those of checkpoints, a bound
    MaxPoints,      \* checkpoints, a bound
    Anchors         \* anchor items of a compaction; 12 in the code

ASSUME LedgerAssumption ==
    MaxTime \in Nat /\ MaxEvents \in Nat /\ MaxPoints \in Nat /\ Anchors \in Nat

VARIABLES
    clock,
    events,     \* the rows of the event log
    framed,     \* events whose frames are in the store
    upTo,       \* the materialization cursor of the session
    latest,     \* the checkpoint the session points to
    plan,       \* Session.plan: the checkpoint it summarises, 0 for none
    points,     \* checkpoints installed so far
    under       \* the compactions under way

ledgerVars == <<clock, events, framed, upTo, latest, plan, points, under>>

-----------------------------------------------------------------------------
(* Events and frames.                                                      *)

\* What the ledger tells apart of an event's frames: an anchor (a plan, review,
\* tool result, test, file change, stop or validation error), any other frame
\* the model sees, the noise of streams and reasoning, the compaction itself,
\* and events that have no frame.
FrameKinds == {"anchor", "plain", "noise", "compaction"}
Kinds == FrameKinds \cup {"silent"}

Keys == [time : Nat, id : Nat]
Events == [time : Nat, id : Nat, kind : Kinds]
Start == [time |-> 0, id |-> 0]

Before(a, b) == a.time < b.time \/ (a.time = b.time /\ a.id < b.id)

Visible(f) == f.kind # "noise"

Key(e) == [time |-> e.time, id |-> e.id]
Newest(S) == CHOOSE e \in S : \A f \in S : ~Before(e, f)

\* The checkpoint of a session that has none.
NoPoint == [end |-> Start, history |-> <<>>, covered |-> {}]

NoRun == [on |-> FALSE, frames |-> {}, history |-> <<>>, covered |-> {}, before |-> 0]

ItemType == [id : Nat, of : SUBSET Events]

LedgerTypeOK ==
    /\ clock \in 1 .. MaxTime
    /\ events \subseteq Events /\ framed \subseteq events
    /\ upTo \in Keys
    /\ latest.end \in Keys /\ latest.history \in Seq(ItemType)
    /\ latest.covered \subseteq framed
    /\ plan \in 0 .. points /\ points \in 0 .. MaxPoints
    /\ \A c \in Compactors : under[c].frames \subseteq framed

LedgerInit ==
    /\ clock = 1
    /\ events = {} /\ framed = {} /\ upTo = Start
    /\ latest = NoPoint /\ plan = 0 /\ points = 0
    /\ under = [c \in Compactors |-> NoRun]

-----------------------------------------------------------------------------
(* Restoring.                                                              *)

\* Frames for the events after the cursor, which then stands at the last event.
Later(e) == Before(upTo, e)

Materialized == framed \cup {e \in events : Later(e) /\ e.kind # "silent"}

Materialize ==
    /\ framed' = Materialized
    /\ upTo' = IF \E e \in events : Later(e)
               THEN Key(Newest({e \in events : Later(e)})) ELSE upTo

\* The frames after a checkpoint; all of them when its cursor is empty or
\* stands at no frame.
AfterCursor(frames, end) ==
    IF \E f \in frames : Key(f) = end THEN {f \in frames : Before(end, f)} ELSE frames

ActiveFrames(frames) == {f \in AfterCursor(frames, latest.end) : Visible(f)}

\* A plan, a review or a look at the context panel.
Restore ==
    /\ Materialize
    /\ Materialized # framed
    /\ UNCHANGED <<clock, events, latest, plan, points, under>>

-----------------------------------------------------------------------------
(* Compacting.                                                             *)

\* The items a compaction takes over: of several with one id, the first.
Prior(history) ==
    FoldLeft(LAMBDA kept, item : IF \E i \in 1 .. Len(kept) : kept[i].id = item.id
                                 THEN kept ELSE Append(kept, item),
             <<>>, history)

\* Its own: the summary, and an anchor for each of the first anchor frames.
AnchorFrames(frames) ==
    LET all == SetToSortSeq({f \in frames : f.kind = "anchor"}, Before)
    IN  SubSeq(all, 1, IF Len(all) < Anchors THEN Len(all) ELSE Anchors)

NewItems(frames) ==
    <<[id |-> 0, of |-> frames]>>
    \o [k \in 1 .. Len(AnchorFrames(frames)) |->
            [id |-> k, of |-> {AnchorFrames(frames)[k]}]]

\* The last frame that went in, compactions apart.
CursorEnd(frames) ==
    LET real == {f \in frames : f.kind # "compaction"}
    IN  IF real = {} THEN Start ELSE Key(Newest(real))

\* maybe_compact past a threshold or every eighth run, or a call of the API.
BeginCompact(c) ==
    /\ ~under[c].on /\ points < MaxPoints
    /\ Materialize
    /\ under' = [under EXCEPT ![c] =
            [on |-> TRUE, frames |-> ActiveFrames(Materialized),
             history |-> latest.history, covered |-> latest.covered, before |-> plan]]
    /\ UNCHANGED <<clock, events, latest, plan, points>>

Install_CursorOfNow(c) ==
    LET run == under[c]
        end == CursorEnd(framed)
        row == [time |-> IF end = Start THEN clock ELSE end.time,
                id |-> MaxEvents + points + 1, kind |-> "compaction"]
    IN  /\ run.on /\ points < MaxPoints
        /\ latest' = [end |-> end, history |-> Prior(run.history) \o NewItems(run.frames),
                      covered |-> run.covered \cup run.frames]
        /\ plan' = points + 1 /\ points' = points + 1
        /\ events' = events \cup {row}
        /\ framed' = Materialized \cup (IF Later(row) THEN {row} ELSE {})
        /\ upTo' = Key(Newest(events' \cup {upTo}))
        /\ under' = [under EXCEPT ![c] = NoRun]
        /\ UNCHANGED clock

\* The summary is there: checkpoint, pointer, plan and event in one transaction,
\* then a restore. The event has the time of the last frame that went in.
Install(c) ==
    LET run == under[c]
        end == CursorEnd(run.frames)
        row == [time |-> IF end = Start THEN clock ELSE end.time,
                id |-> MaxEvents + points + 1, kind |-> "compaction"]
    IN  /\ run.on /\ points < MaxPoints
        /\ latest' = [end |-> end, history |-> Prior(run.history) \o NewItems(run.frames),
                      covered |-> run.covered \cup run.frames]
        /\ plan' = points + 1 /\ points' = points + 1
        /\ events' = events \cup {row}
        /\ framed' = Materialized \cup (IF Later(row) THEN {row} ELSE {})
        /\ upTo' = Key(Newest(events' \cup {upTo}))
        /\ under' = [under EXCEPT ![c] = NoRun]
        /\ UNCHANGED clock

FreeIds == {i \in 1 .. MaxEvents : \A e \in events : e.id # i}

Emit(kind) ==
    \E i \in FreeIds : events' = events \cup {[time |-> clock, id |-> i, kind |-> kind]}

\* It raises: the event says so, and a plan that has changed is put back.
FailCompact(c) ==
    /\ under[c].on
    /\ Emit("compaction")
    /\ plan' = IF under[c].before # 0 THEN under[c].before ELSE plan
    /\ under' = [under EXCEPT ![c] = NoRun]
    /\ UNCHANGED <<clock, framed, upTo, latest, points>>

Record(kind) ==
    /\ Emit(kind)
    /\ UNCHANGED <<clock, framed, upTo, latest, plan, points, under>>

ClockTicks ==
    /\ clock < MaxTime
    /\ clock' = clock + 1
    /\ UNCHANGED <<events, framed, upTo, latest, plan, points, under>>

\* The process dies with its compactions.
Dies ==
    /\ \E c \in Compactors : under[c].on
    /\ under' = [c \in Compactors |-> NoRun]
    /\ UNCHANGED <<clock, events, framed, upTo, latest, plan, points>>

LedgerNext ==
    \/ \E kind \in {"anchor", "plain", "noise", "silent"} : Record(kind)
    \/ ClockTicks \/ Restore \/ Dies
    \/ \E c \in Compactors : BeginCompact(c) \/ Install(c) \/ FailCompact(c)

LedgerSpec == LedgerInit /\ [][LedgerNext]_ledgerVars

-----------------------------------------------------------------------------
(* Properties.                                                             *)

\* No event is lost on its way into a checkpoint: the cursor of what has become
\* frames passes over none, unless another one has the same time; and the
\* compaction cuts no gap, every frame the model should see is among those a
\* restore shows or went into the checkpoint it starts from, also when it came
\* while the summary was being written.
FramesAccounted ==
    /\ \A e \in events : e.kind \notin {"silent", "compaction"} =>
          \/ e \in framed \/ Later(e)
          \/ \E f \in events : f # e /\ f.time = e.time
    /\ \A f \in framed : Visible(f) /\ f.kind # "compaction" =>
          f \in ActiveFrames(framed) \cup latest.covered

\* What a checkpoint covers stays in its history: no later compaction forgets
\* the anchor of a plan, a test or a tool result.
AnchorsStay ==
    Len(SetToSeq({f \in framed : f.kind = "anchor"})) <= Anchors =>
        \A f \in latest.covered : f.kind = "anchor" =>
            \/ f \in ActiveFrames(framed)
            \/ \E i \in 1 .. Len(latest.history) :
                  latest.history[i].id # 0 /\ f \in latest.history[i].of
=============================================================================
