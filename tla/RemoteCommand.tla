--------------------------- MODULE RemoteCommand ---------------------------
(***************************************************************************)
(* What the relay link promises a phone about the commands it sends: each  *)
(* request gets one answer; a command runs at most once, unless the client *)
(* lost track of its first run; "ok" means it ran and "disabled" that it   *)
(* did not and will not.  A request that was given up may still run.       *)
(***************************************************************************)
EXTENDS Naturals

CONSTANTS Requests

VARIABLES
  out,   \* what the phone was told of each request
  ran,   \* how often each command ran
  lost   \* commands the client has lost track of

vars == <<out, ran, lost>>

Open == {"new", "waiting"}

Init ==
  /\ out = [c \in Requests |-> "new"]
  /\ ran = [c \in Requests |-> 0]
  /\ lost = {}

(* The request is taken on. *)
Send(c) ==
  /\ out[c] = "new"
  /\ out' = [out EXCEPT ![c] = "waiting"]
  /\ UNCHANGED <<ran, lost>>

(* The command runs, whether or not anybody still waits for it. *)
Run(c) ==
  /\ c \in lost \/ (ran[c] = 0 /\ out[c] # "disabled")
  /\ ran' = [ran EXCEPT ![c] = @ + 1]
  /\ UNCHANGED <<out, lost>>

(* The answer of the client. *)
Answer(c, r) ==
  /\ out[c] = "waiting"
  /\ r = "ok" => ran[c] > 0
  /\ r = "disabled" => c \in lost \/ ran[c] = 0
  /\ out' = [out EXCEPT ![c] = r]
  /\ UNCHANGED <<ran, lost>>

(* Requests are given up together, without an answer of the client. *)
GiveUp(S, r) ==
  /\ \A c \in S : out[c] \in Open
  /\ out' = [c \in Requests |-> IF c \in S THEN r ELSE out[c]]
  /\ UNCHANGED <<ran, lost>>

(* The client loses track of commands. *)
Lose(S) ==
  /\ lost' = lost \cup S
  /\ UNCHANGED <<out, ran>>

Next ==
  \/ \E c \in Requests :
       \/ Send(c) \/ Run(c)
       \/ \E r \in {"ok", "failed", "disabled", "replay"} : Answer(c, r)
  \/ \E S \in SUBSET Requests :
       \/ Lose(S)
       \/ \E r \in {"machine_offline", "error"} : GiveUp(S, r)

Spec == Init /\ [][Next]_vars

=============================================================================
