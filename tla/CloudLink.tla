----------------------------- MODULE CloudLink ------------------------------
(***************************************************************************)
(* How the program comes by its link to the relay: CloudManager's connect, *)
(* disconnect and status, and the threads that dial. A caller holds the    *)
(* lock; a dialling thread does not, and leaves its loop and its task in   *)
(* the manager's fields after it was started. What goes over the link is   *)
(* RelayLink's.                                                            *)
(***************************************************************************)
EXTENDS Naturals, FiniteSets

CONSTANTS
    Dialers,    \* numbers of the threads at once, a bound
    Settings    \* relay and key as saved; the first thing saved is one of them

ASSUME CloudAssumption == Dialers \subseteq Nat \ {0} /\ "none" \notin Settings

VARIABLES
    setting,    \* what is saved, or "none"
    saving,     \* settings are saved and the link not yet stopped
    asked,      \* what the caller with the lock is doing
    loop, task, \* the fields of the manager: dialers, or 0
    phase,      \* where each dialer is
    with,       \* the setting a dialer was started with
    connected,  \* what status() says
    error,
    slipped     \* history: a stop came before a dialer had left its task

linkVars ==
    <<setting, saving, asked, loop, task, phase, with, connected, error, slipped>>

Configured == setting # "none"

Before == {"started", "looped"}
Online == {"dialing", "up", "backoff"}

CloudInit ==
    /\ setting = "none" /\ saving = FALSE /\ asked = "no"
    /\ loop = 0 /\ task = 0
    /\ phase = [d \in Dialers |-> "unused"]
    /\ with = [d \in Dialers |-> "none"]
    /\ connected = FALSE /\ error = "" /\ slipped = FALSE

-----------------------------------------------------------------------------
(* connect, disconnect and the saving of the settings.                     *)

ForgetDialer_Uncancelled ==
    /\ loop' = 0 /\ task' = 0
    /\ UNCHANGED phase

\* The fields are taken and cleared, and the task cancelled if both it and
\* its loop were there.
ForgetDialer ==
    /\ loop' = 0 /\ task' = 0
    /\ phase' = IF loop # 0 /\ task # 0 /\ phase[task] \in Online
                THEN [phase EXCEPT ![task] = "cancelled"] ELSE phase

\* A caller takes the lock and stops the dialer there is. A connect without
\* settings does no more than that.
Ask(what) ==
    /\ asked = "no"
    /\ asked' = IF what = "connect" /\ ~Configured THEN "unset" ELSE what
    /\ ForgetDialer
    /\ slipped' = (slipped \/ \E d \in Dialers : phase[d] \in Before)
    /\ UNCHANGED <<setting, with, connected, error>>

Connect == Ask("connect") /\ UNCHANGED saving
Disconnect == Ask("disconnect") /\ UNCHANGED saving

\* New settings are saved, or cleared; a disconnect follows.
Save(v) ==
    /\ v # setting /\ ~saving
    /\ setting' = v /\ saving' = TRUE
    /\ UNCHANGED <<asked, loop, task, phase, with, connected, error, slipped>>

SavedDisconnects ==
    /\ saving /\ saving' = FALSE
    /\ Ask("disconnect")

\* The old thread has ended, or three seconds have passed: a connect dials anew.
Dial ==
    /\ asked = "connect" /\ asked' = "no"
    /\ \E d \in Dialers :
          /\ phase[d] \in {"unused", "done"}
          /\ phase' = [phase EXCEPT ![d] = "started"]
          /\ with' = [with EXCEPT ![d] = setting]
    /\ error' = ""
    /\ UNCHANGED <<setting, saving, loop, task, connected, slipped>>

LinkStopped ==
    /\ asked \in {"unset", "disconnect"} /\ asked' = "no"
    /\ connected' = FALSE
    /\ error' = IF asked = "unset" THEN "not_configured" ELSE ""
    /\ UNCHANGED <<setting, saving, loop, task, phase, with, slipped>>

-----------------------------------------------------------------------------
(* A dialling thread.                                                      *)

DialerLoops(d) ==
    /\ phase[d] = "started"
    /\ phase' = [phase EXCEPT ![d] = "looped"]
    /\ loop' = d
    /\ UNCHANGED <<setting, saving, asked, task, with, connected, error, slipped>>

DialerDials(d) ==
    /\ phase[d] = "looped"
    /\ phase' = [phase EXCEPT ![d] = "dialing"]
    /\ task' = d
    /\ UNCHANGED <<setting, saving, asked, loop, with, connected, error, slipped>>

\* The relay takes the key.
Handshake(d) ==
    /\ phase[d] = "dialing"
    /\ phase' = [phase EXCEPT ![d] = "up"]
    /\ connected' = TRUE /\ error' = ""
    /\ UNCHANGED <<setting, saving, asked, loop, task, with, slipped>>

\* The dial fails or the line drops; a line that was up is reported down.
Drops(d) ==
    /\ phase[d] \in {"dialing", "up"}
    /\ phase' = [phase EXCEPT ![d] = "backoff"]
    /\ connected' = (connected /\ phase[d] # "up")
    /\ error' = "unreachable"
    /\ UNCHANGED <<setting, saving, asked, loop, task, with, slipped>>

Redials(d) ==
    /\ phase[d] = "backoff"
    /\ phase' = [phase EXCEPT ![d] = "dialing"]
    /\ UNCHANGED <<setting, saving, asked, loop, task, with, connected, error, slipped>>

\* The relay refuses the key, or the cancelled task has unwound.
DialerEnds(d) ==
    /\ phase[d] \in {"dialing", "cancelled"}
    /\ phase' = [phase EXCEPT ![d] = "done"]
    /\ connected' = FALSE
    /\ error' = IF phase[d] = "dialing" THEN "auth" ELSE error
    /\ UNCHANGED <<setting, saving, asked, loop, task, with, slipped>>

DialerStep(d) ==
    \/ DialerLoops(d) \/ DialerDials(d) \/ Handshake(d)
    \/ Drops(d) \/ Redials(d) \/ DialerEnds(d)

CloudNext ==
    \/ Connect \/ Disconnect \/ Dial \/ LinkStopped \/ SavedDisconnects
    \/ \E v \in Settings \cup {"none"} : Save(v)
    \/ \E d \in Dialers : DialerStep(d)

CloudSpec == CloudInit /\ [][CloudNext]_linkVars

-----------------------------------------------------------------------------
(* Properties.                                                             *)

\* At rest there is one dialer at most, and it goes by what is saved: no save,
\* disconnect or second connect leaves an older one behind, as long as none
\* came before a dialer had left its task.
LinkIsCurrent ==
    ~slipped /\ ~saving /\ asked = "no" =>
        \A d \in Dialers : phase[d] \in Online \cup Before =>
            /\ with[d] = setting
            /\ \A e \in Dialers \ {d} : phase[e] \notin Online \cup Before
=============================================================================
