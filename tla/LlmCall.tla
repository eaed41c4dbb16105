------------------------------ MODULE LlmCall -------------------------------
(***************************************************************************)
(* One call of LLMClient: a turn over the Responses WebSocket with its     *)
(* watchdog, its repetition detector and its retry without the previous    *)
(* response, or a request over HTTP, streamed or not.                      *)
(*                                                                         *)
(* Time is counted in ticks. The provider chooses what it sends and when;  *)
(* handling a frame takes no time.                                         *)
(***************************************************************************)
EXTENDS Naturals, Sequences

CONSTANTS
    MaxItems,       \* tool calls of one answer, a bound
    Wall,           \* ticks a turn over the socket may take
    Stall,          \* ticks it may take without progress
    MaxRequests     \* calls of the client, a bound

ASSUME CallAssumption ==
    /\ MaxItems \in Nat /\ MaxRequests \in Nat
    /\ Wall \in Nat \ {0} /\ Stall \in Nat \ {0}

VARIABLES
    line,       \* what the client waits for
    now, quietSince,    \* ticks of the turn, and when it last made progress
    items,      \* the tool calls received so far, in the order they were first mentioned
    objects,    \* JSON objects of the text: none, open, one
    known,      \* a response id is stored for the next turn of this task
    sentKnown,  \* this turn continues a stored response
    answer,     \* what the call returned or raised
    turns,      \* turns this call has opened
    requests,   \* calls so far
    early       \* history: the answer was taken before the stream was complete

callVars == <<line, now, quietSince, items, objects, known, sentKnown, answer,
              turns, requests, early>>

\* What a tool call's arguments are: nothing yet, a part of the JSON text, a
\* final text that is no JSON, an empty object, or an object with something in.
Arguments == {"none", "part", "wrong", "empty", "whole"}
Calls == [named : BOOLEAN, args : Arguments]
NoCall == [named |-> FALSE, args |-> "none"]
Lines == {"idle", "text", "tools", "http", "stream"}
Answers == {"none", "calls", "text", "stalled", "error"}

LlmTypeOK ==
    /\ line \in Lines
    /\ now \in Nat /\ quietSince \in 0 .. now
    /\ items \in Seq(Calls) /\ Len(items) <= MaxItems
    /\ objects \in {"none", "open", "one"}
    /\ known \in BOOLEAN /\ sentKnown \in BOOLEAN /\ early \in BOOLEAN
    /\ answer \in Answers
    /\ turns \in 0 .. 2
    /\ requests \in 0 .. MaxRequests

LlmInit ==
    /\ line = "idle" /\ now = 0 /\ quietSince = 0
    /\ items = <<>> /\ objects = "none"
    /\ known = FALSE /\ sentKnown = FALSE
    /\ answer = "none" /\ turns = 0 /\ requests = 0 /\ early = FALSE

-----------------------------------------------------------------------------

OnSocket == line \in {"text", "tools"}

\* When the receive that is under way gives up.
Deadline == IF quietSince + Stall < Wall THEN quietSince + Stall ELSE Wall

Receiving == OnSocket /\ now < Deadline

Fresh ==
    /\ now' = 0 /\ quietSince' = 0
    /\ items' = <<>> /\ objects' = "none"

Return(a) ==
    /\ answer' = a
    /\ line' = "idle"

\* complete over the socket: a text turn, which continues the stored response.
AskText ==
    /\ line = "idle" /\ requests < MaxRequests
    /\ line' = "text" /\ sentKnown' = known
    /\ Fresh /\ answer' = "none" /\ early' = FALSE
    /\ turns' = 1 /\ requests' = requests + 1
    /\ UNCHANGED known

\* tool_complete over the socket; it keeps no response.
AskTools ==
    /\ line = "idle" /\ requests < MaxRequests
    /\ line' = "tools" /\ sentKnown' = FALSE
    /\ Fresh /\ answer' = "none" /\ early' = FALSE
    /\ turns' = 1 /\ requests' = requests + 1
    /\ UNCHANGED known

\* Without an API key, or when the socket does not open.
AskRefused ==
    /\ line = "idle" /\ requests < MaxRequests
    /\ Fresh /\ Return("error") /\ early' = FALSE
    /\ turns' = 1 /\ requests' = requests + 1 /\ sentKnown' = FALSE
    /\ UNCHANGED known

-----------------------------------------------------------------------------
(* The socket.                                                             *)

\* Time passes until the receive gives up.
Tick ==
    /\ Receiving
    /\ now' = now + 1
    /\ UNCHANGED <<line, quietSince, items, objects, known, sentKnown, answer,
                   turns, requests, early>>

GiveUp ==
    /\ OnSocket /\ now >= Deadline
    /\ Return("stalled")
    /\ UNCHANGED <<now, quietSince, items, objects, known, sentKnown, turns,
                   requests, early>>

\* A frame that shows progress.
Progress == quietSince' = now

FrameKeeps == UNCHANGED <<line, now, known, sentKnown, answer, turns, requests, early>>

\* The response was created or goes on, or it is text of no object, or
\* reasoning.
Created ==
    /\ Receiving /\ Progress
    /\ FrameKeeps /\ UNCHANGED <<items, objects>>

\* Text: a part of an object, or the brace that completes one.
TextDelta ==
    /\ Receiving /\ objects # "one" /\ Progress
    /\ objects' \in {"open", "one"}
    /\ FrameKeeps /\ UNCHANGED items

\* A second object in a stream of JSON is a repetition.
TextRepeats ==
    /\ Receiving /\ objects = "one"
    /\ Return("stalled")
    /\ UNCHANGED <<now, quietSince, items, objects, known, sentKnown, turns,
                   requests, early>>

\* The call a frame is about, which may be a new one.
Call(i) == IF i <= Len(items) THEN items[i] ELSE NoCall
Put(i, call) ==
    items' = IF i <= Len(items) THEN [items EXCEPT ![i] = call] ELSE Append(items, call)
Mentioned == {i \in 1 .. MaxItems : i <= Len(items) + 1}

\* A frame may name its call, and may hold all of its arguments.
Tell(i) ==
    \E named \in BOOLEAN, a \in {"none", "wrong", "empty", "whole"} :
        Put(i, [named |-> Call(i).named \/ named, args |-> IF a = "none" THEN Call(i).args ELSE a])

\* A tool call begins. Nothing says that the others are done, or begun.
CallBegins ==
    /\ Receiving /\ Progress
    /\ \E i \in Mentioned : Tell(i)
    /\ FrameKeeps /\ UNCHANGED objects

ArgumentsDelta ==
    /\ Receiving /\ Progress
    /\ \E i \in Mentioned, a \in {"part", "empty", "whole"} :
          /\ Call(i).args \in {"none", "part"}
          /\ Put(i, [Call(i) EXCEPT !.args = a])
    /\ FrameKeeps /\ UNCHANGED objects

\* Some call has a name and an object of arguments that is not empty.
Ready(calls) == \E i \in 1 .. Len(calls) : calls[i].named /\ calls[i].args = "whole"

\* The arguments, or the call, are done. With tools the turn ends here as soon
\* as any call is ready, without waiting for the rest of the stream.
CallDone ==
    /\ Receiving
    /\ \E i \in Mentioned : Tell(i)
    /\ IF line = "tools" /\ Ready(items')
       THEN Return("calls") /\ early' = TRUE /\ UNCHANGED quietSince
       ELSE Progress /\ UNCHANGED <<line, answer, early>>
    /\ UNCHANGED <<now, objects, known, sentKnown, turns, requests>>

\* A call without a name is left out of the answer.
SomeNamed == \E i \in 1 .. Len(items) : items[i].named

\* The response is complete; a text turn remembers its id.
Completed ==
    /\ Receiving
    /\ Return(IF SomeNamed /\ line = "tools" THEN "calls" ELSE "text")
    /\ known' = (known \/ line = "text")
    /\ UNCHANGED <<now, quietSince, items, objects, sentKnown, turns, requests, early>>

\* A frame that is not JSON or shows no progress does not hold off the watchdog.
Noise ==
    /\ Receiving
    /\ FrameKeeps /\ UNCHANGED <<quietSince, items, objects>>

\* The lost response is sent again with the next turn.
PreviousLost_KeepsId ==
    /\ Receiving /\ sentKnown
    /\ Fresh /\ turns' = 2
    /\ UNCHANGED <<known, sentKnown, line, answer, requests, early>>

\* The provider does not know the response this turn continues: it is dropped
\* and the turn is opened once more.
PreviousLost ==
    /\ Receiving /\ sentKnown
    /\ known' = FALSE /\ sentKnown' = FALSE
    /\ Fresh /\ turns' = turns + 1
    /\ UNCHANGED <<line, answer, requests, early>>

\* Any other error of the provider, or the socket closes.
SocketFails ==
    /\ Receiving
    /\ Return("error")
    /\ UNCHANGED <<now, quietSince, items, objects, known, sentKnown, turns,
                   requests, early>>

-----------------------------------------------------------------------------
(* HTTP. The timeout is one of each read: a stream that goes on slowly has  *)
(* no end in time.                                                         *)

AskHttp(streamed) ==
    /\ line = "idle" /\ requests < MaxRequests
    /\ line' = IF streamed THEN "stream" ELSE "http"
    /\ Fresh /\ answer' = "none" /\ early' = FALSE
    /\ turns' = 1 /\ requests' = requests + 1 /\ sentKnown' = FALSE
    /\ UNCHANGED known

\* One body with the text and the calls. Arguments that do not parse are kept
\* as an empty object.
HttpAnswer ==
    /\ line = "http"
    /\ \E n \in 0 .. MaxItems :
          /\ items' \in [1 .. n -> [named : {TRUE}, args : {"empty", "whole"}]]
          /\ Return(IF n = 0 THEN "text" ELSE "calls")
    /\ UNCHANGED <<now, quietSince, objects, known, sentKnown, turns, requests, early>>

StreamDelta ==
    /\ line = "stream"
    /\ \E i \in Mentioned, named \in BOOLEAN, a \in {"none", "part", "empty", "whole"} :
          /\ Call(i).args \in {"none", "part"}
          /\ Put(i, [named |-> Call(i).named \/ named, args |-> IF a = "none" THEN Call(i).args ELSE a])
    /\ UNCHANGED <<line, now, quietSince, objects, known, sentKnown, answer,
                   turns, requests, early>>

\* The end of the stream makes the answer of what has come.
StreamEnds ==
    /\ line = "stream"
    /\ Return(IF SomeNamed THEN "calls" ELSE "text")
    /\ UNCHANGED <<now, quietSince, items, objects, known, sentKnown, turns,
                   requests, early>>

HttpFails ==
    /\ line \in {"http", "stream"}
    /\ Return("error")
    /\ UNCHANGED <<now, quietSince, items, objects, known, sentKnown, turns,
                   requests, early>>

LlmNext ==
    \/ AskText \/ AskTools \/ AskRefused \/ AskHttp(TRUE) \/ AskHttp(FALSE)
    \/ Tick \/ GiveUp \/ Created \/ TextDelta \/ TextRepeats
    \/ CallBegins \/ ArgumentsDelta \/ CallDone \/ Completed \/ Noise
    \/ PreviousLost \/ SocketFails
    \/ HttpAnswer \/ StreamDelta \/ StreamEnds \/ HttpFails

\* The clock goes on and the event loop wakes a receive whose time is up.
LlmFairness == WF_callVars(Tick) /\ WF_callVars(GiveUp)

LlmSpec == LlmInit /\ [][LlmNext]_callVars /\ LlmFairness

-----------------------------------------------------------------------------
(* Properties.                                                             *)

\* Every turn over the socket comes to an end, whatever the provider sends.
TurnEnds == \A r \in 1 .. MaxRequests : requests = r /\ OnSocket ~> ~(requests = r /\ OnSocket)

\* An answer taken before the stream was complete has all of its calls whole.
EarlyAnswerIsWhole ==
    early => \A i \in 1 .. Len(items) : items[i].named => items[i].args \in {"empty", "whole"}
=============================================================================
