------------------------------ MODULE Accounts ------------------------------
(***************************************************************************)
(* The accounts of the team server (src/foreman/server/auth_manager.py and *)
(* the account, invite and session tables of server/store/db.py), with the *)
(* routes of server/app.py that guard them.                                *)
(*                                                                         *)
(* A handler awaits nothing between its checks and its writes, so a call   *)
(* is one step; RedeemCut is the one call of several commits whose cut     *)
(* leaves them apart.  Passwords, codes and tokens are identities: a code  *)
(* is the number it was issued under, a token is whose it is and when it   *)
(* ends.  Sign-in attempts come from one address, so the throttle's key is *)
(* the name alone.                                                         *)
(***************************************************************************)
EXTENDS Integers, FiniteSets, Sequences

CONSTANTS
    Users,              \* accounts that can be made
    FirstAdmin,         \* the one `create-admin` makes on the server
    MaxClock,           \* bound on the clock
    MaxCodes,           \* bound on the codes issued
    MaxSessions,        \* bound on the sessions kept
    InviteTtl, TokenTtl,
    MaxFailures,        \* wrong passwords before the lockout
    Lockout,            \* length of the lockout
    MaxTracked,         \* names the throttle keeps a record of
    Guessed             \* the names a wrong password is tried on

ASSUME AccountsAssumption ==
    /\ FirstAdmin \in Users /\ Guessed \subseteq Users
    /\ {MaxClock, MaxCodes, MaxSessions} \subseteq Nat
    /\ {InviteTtl, TokenTtl, MaxFailures, Lockout, MaxTracked} \subseteq Nat \ {0}

VARIABLES
    accounts,           \* the accounts table: status, role, whether a password is set
    invites,            \* the invites table, in the order issued
    sessions,           \* the auth_sessions table
    failures,           \* _login_failures: count, locked_until, seen_at
    guesses,            \* history: when the wrong passwords of a name were checked,
                        \* since the throttle was last made to forget it
    clock

accountVars == <<accounts, invites, sessions, failures, guesses, clock>>

Never == 0 - 1          \* no lockout and no attempt yet
NoRecord == [count |-> 0, until |-> Never, seen |-> Never]
NoAccount == [status |-> "none", role |-> "member", password |-> FALSE]

AccountsInit ==
    /\ accounts = [u \in Users |-> IF u = FirstAdmin
          THEN [status |-> "active", role |-> "admin", password |-> TRUE] ELSE NoAccount]
    /\ invites = <<>>
    /\ sessions = {}
    /\ failures = [u \in Users |-> NoRecord]
    /\ guesses = [u \in Users |-> <<>>]
    /\ clock = 0

Expired(at) == at <= clock
Exists(u) == accounts[u].status # "none"

-----------------------------------------------------------------------------
(* Sessions *)

Resolved_AnyStatus(s) == ~Expired(s.until)

\* The account a session stands for: only an active one is anybody's.
Resolved(s) == ~Expired(s.until) /\ accounts[s.user].status = "active"

\* A caller the admin routes let in.
IsAdmin(s) == s \in sessions /\ Resolved(s) /\ accounts[s.user].role = "admin"

IssueSession(u) ==
    /\ Cardinality(sessions) < MaxSessions
    /\ sessions' = sessions \union {[user |-> u, until |-> clock + TokenTtl]}

\* A session that is presented after its end is deleted.
Present(s) ==
    /\ s \in sessions /\ Expired(s.until)
    /\ sessions' = sessions \ {s}
    /\ UNCHANGED <<accounts, invites, failures, guesses, clock>>

Logout(s) ==
    /\ s \in sessions
    /\ sessions' = sessions \ {s}
    /\ UNCHANGED <<accounts, invites, failures, guesses, clock>>

-----------------------------------------------------------------------------
(* What an admin does *)

\* A code for u that works until its time, unless it is used or burned.
IssueInvite(u, kept) ==
    /\ Len(invites) < MaxCodes
    /\ invites' = Append(kept, [user |-> u, until |-> clock + InviteTtl, used |-> FALSE])

\* With a password the account is active at once, without one it is invited.
CreateAccount(s, u, role) ==
    /\ IsAdmin(s) /\ ~Exists(u)
    /\ accounts' = [accounts EXCEPT ![u] = [status |-> "active", role |-> role, password |-> TRUE]]
    /\ UNCHANGED <<invites, sessions, failures, guesses, clock>>

InviteAccount(s, u, role) ==
    /\ IsAdmin(s) /\ ~Exists(u)
    /\ accounts' = [accounts EXCEPT ![u] = [status |-> "invited", role |-> role, password |-> FALSE]]
    /\ IssueInvite(u, invites)
    /\ UNCHANGED <<sessions, failures, guesses, clock>>

Burned_None(u) == invites

\* A second code burns the ones that are still unused.
Burned(u) == [i \in DOMAIN invites |->
    IF invites[i].user = u THEN [invites[i] EXCEPT !.used = TRUE] ELSE invites[i]]

Reinvite(s, u) ==
    /\ IsAdmin(s) /\ Exists(u)
    /\ IssueInvite(u, Burned(u))
    /\ UNCHANGED <<accounts, sessions, failures, guesses, clock>>

\* An admin may not disable its own account.
SetEnabled(s, u, enabled) ==
    /\ IsAdmin(s) /\ Exists(u)
    /\ enabled \/ u # s.user
    /\ accounts' = [accounts EXCEPT ![u].status = IF enabled THEN "active" ELSE "disabled"]
    /\ UNCHANGED <<invites, sessions, failures, guesses, clock>>

-----------------------------------------------------------------------------
(* What a user does *)

Live(i) == ~invites[i].used /\ ~Expired(invites[i].until)

Redeemable(i) == Live(i) /\ accounts[invites[i].user].status # "disabled"

Redeemed(u) == [accounts EXCEPT ![u].status = "active", ![u].password = TRUE]

Redeem(i) ==
    /\ Redeemable(i)
    /\ accounts' = Redeemed(invites[i].user)
    /\ invites' = [invites EXCEPT ![i].used = TRUE]
    /\ IssueSession(invites[i].user)
    /\ UNCHANGED <<failures, guesses, clock>>

\* The server dies after the password and the status are written.
RedeemCut(i) ==
    /\ Redeemable(i)
    /\ accounts' = Redeemed(invites[i].user)
    /\ failures' = [u \in Users |-> NoRecord]
    /\ guesses' = [u \in Users |-> <<>>]
    /\ UNCHANGED <<invites, sessions, clock>>

Locked(u) == failures[u].until # Never /\ ~Expired(failures[u].until)

Usable(u) == accounts[u].status = "active" /\ accounts[u].password

Login(u) ==
    /\ ~Locked(u) /\ Usable(u)
    /\ IssueSession(u)
    /\ failures' = [failures EXCEPT ![u] = NoRecord]
    /\ guesses' = [guesses EXCEPT ![u] = <<>>]
    /\ UNCHANGED <<accounts, invites, clock>>

\* A record lapses with its lockout, or when it was idle for as long.
Lapsed(f) == IF f.until # Never THEN Expired(f.until) ELSE Expired(f.seen + Lockout)

Counted_OneMore(f) ==
    LET n == f.count + 1
    IN IF n > MaxFailures
       THEN [count |-> 0, until |-> clock + Lockout, seen |-> clock]
       ELSE [count |-> n, until |-> f.until, seen |-> clock]

\* The failure that reaches the limit starts a lockout and a new count.
Counted(f) ==
    LET n == f.count + 1
    IN IF n >= MaxFailures
       THEN [count |-> 0, until |-> clock + Lockout, seen |-> clock]
       ELSE [count |-> n, until |-> f.until, seen |-> clock]

\* What is left of a name's record when the lapsed ones are dropped.
Pruned(v) == IF Lapsed(failures[v]) THEN NoRecord ELSE failures[v]

Tracked(u) == {v \in Users : v = u \/ Pruned(v) # NoRecord}

\* The names dropped to keep the records within the cap: the ones seen the
\* longest ago, never the one just counted.
Evicted(u) ==
    {out \in SUBSET (Tracked(u) \ {u}) :
        /\ Cardinality(Tracked(u) \ out) =
               IF Cardinality(Tracked(u)) > MaxTracked THEN MaxTracked ELSE Cardinality(Tracked(u))
        /\ \A v \in out, w \in Tracked(u) \ (out \union {u}) : failures[v].seen <= failures[w].seen}

\* The history keeps the guesses that matter to the limit.
Remembered(u) ==
    LET all == Append(guesses[u], clock)
    IN SubSeq(all, IF Len(all) > MaxFailures + 1 THEN 2 ELSE 1, Len(all))

LoginFails(u) ==
    /\ ~Locked(u)
    /\ \E out \in Evicted(u) :
          /\ failures' = [v \in Users |->
                IF v = u THEN Counted(Pruned(v)) ELSE IF v \in out THEN NoRecord ELSE Pruned(v)]
          /\ guesses' = [v \in Users |->
                IF v = u THEN Remembered(u) ELSE IF v \in out THEN <<>> ELSE guesses[v]]
    /\ UNCHANGED <<accounts, invites, sessions, clock>>

Tick ==
    /\ clock < MaxClock
    /\ clock' = clock + 1
    /\ UNCHANGED <<accounts, invites, sessions, failures, guesses>>

AccountsNext ==
    \/ \E s \in sessions : Present(s) \/ Logout(s)
    \/ \E s \in sessions, u \in Users :
          \/ \E role \in {"admin", "member"} : CreateAccount(s, u, role) \/ InviteAccount(s, u, role)
          \/ Reinvite(s, u)
          \/ \E enabled \in BOOLEAN : SetEnabled(s, u, enabled)
    \/ \E i \in DOMAIN invites : Redeem(i) \/ RedeemCut(i)
    \/ \E u \in Users : Login(u)
    \/ \E u \in Guessed : LoginFails(u)
    \/ Tick

AccountsSpec == AccountsInit /\ [][AccountsNext]_accountVars

-----------------------------------------------------------------------------
(* Properties *)

\* Every account is in one of the states the server gives it, and every
\* session and code is somebody's.
AccountsTypeOK ==
    /\ accounts \in [Users -> [status : {"none", "invited", "active", "disabled"},
                               role : {"admin", "member"}, password : BOOLEAN]]
    /\ invites \in Seq([user : Users, until : Nat, used : BOOLEAN])
    /\ sessions \subseteq [user : Users, until : Nat]
    /\ failures \in [Users -> [count : Nat, until : Int, seen : Int]]
    /\ guesses \in [Users -> Seq(Nat)]
    /\ clock \in Nat

\* However admins make, invite and disable one another (app.py,
\* admin_set_status: "so an admin can't lock themselves out"), an active
\* admin with a password is left to run the server.
AnAdminRemains ==
    \E u \in Users : Usable(u) /\ accounts[u].role = "admin"

\* The throttle of login(): as long as it is not made to forget the name, by
\* a success, a restart or the cap on its records, no more than MaxFailures
\* wrong passwords of it are checked within a lockout's length, however they
\* are spaced and whatever lapses in between.
GuessesAreSpaced ==
    \A u \in Users :
        Len(guesses[u]) > MaxFailures =>
            guesses[u][Len(guesses[u])] - guesses[u][Len(guesses[u]) - MaxFailures] >= Lockout

\* login: "After max_login_failures failures the throttle locks for the
\* lockout window".  It does not hold: enough other names push the record of
\* a locked one out of the throttle (_enforce_login_failure_cap).
LockoutsLast ==
    [][\A u \in Users : Locked(u) /\ failures'[u] = NoRecord
            => \A v \in Users : failures'[v] = NoRecord]_accountVars

\* reinvite_account: "there's always exactly one live code".
OneLiveCode ==
    \A i, j \in DOMAIN invites :
        Live(i) /\ Live(j) /\ invites[i].user = invites[j].user => i = j

=============================================================================
