------------------------------ MODULE MCUpkeep ------------------------------
(* What runs beside the sessions' work: the server's accounts, the program's *)
(* update, the upgrade of its database, the library of definitions, approvals *)
(* with their notices, the runner of the agents and its watchdog. A behaviour *)
(* follows one of them.                                                      *)
EXTENDS Accounts, Updater, Definitions, Approvals, AgentRunner, SchemaMigrations, Watchdog, CloudLink,
        TLC

CONSTANTS D1, D2, D3

VARIABLE part

allVars == <<part, accountVars, updaterVars, definitionVars, approvalVars, runnerVars,
             schemaVars, watchVars, linkVars>>

\* Both names are guessed when no codes are about, else the admin's is not.
MCAccounts == part = "accounts" /\ AccountsNext /\ guesses'[FirstAdmin] = <<>>
MCThrottle == part = "throttle" /\ AccountsNext /\ invites' = <<>>

\* A library exported elsewhere, two versions of it live after a cut import.
MCIds == {D1, D2, D3}
MCVersion(v, live) == [name |-> "flow", version |-> v, live |-> live]
MCForeign == {[rows |-> D1 :> MCVersion(1, TRUE) @@ D2 :> MCVersion(3, FALSE) @@ D3 :> MCVersion(2, TRUE),
               links |-> {<<D1, D2>>}]}

Init ==
    /\ part \in {"accounts", "throttle", "updater", "definitions", "approvals", "agents", "schema", "watchdog", "cloud"}
    /\ AccountsInit /\ UpdaterInit /\ DefinitionsInit /\ ApprovalsInit /\ RunnerInit
    /\ SchemaInit /\ WatchInit /\ CloudInit

Next ==
    \/ /\ MCAccounts \/ MCThrottle
       /\ UNCHANGED <<part, updaterVars, definitionVars, approvalVars,
                      runnerVars, schemaVars, watchVars, linkVars>>
    \/ /\ part = "updater" /\ UpdaterNext
       /\ UNCHANGED <<part, accountVars, definitionVars, approvalVars,
                      runnerVars, schemaVars, watchVars, linkVars>>
    \/ /\ part = "definitions" /\ DefinitionsNext
       /\ UNCHANGED <<part, accountVars, updaterVars, approvalVars,
                      runnerVars, schemaVars, watchVars, linkVars>>
    \/ /\ part = "approvals" /\ ApprovalsNext
       /\ UNCHANGED <<part, accountVars, updaterVars, definitionVars,
                      runnerVars, schemaVars, watchVars, linkVars>>
    \/ /\ part = "agents" /\ RunnerNext
       /\ UNCHANGED <<part, accountVars, updaterVars, definitionVars,
                      approvalVars, schemaVars, watchVars, linkVars>>
    \/ /\ part = "schema" /\ SchemaNext
       /\ UNCHANGED <<part, accountVars, updaterVars, definitionVars,
                      approvalVars, runnerVars, watchVars, linkVars>>
    \/ /\ part = "watchdog" /\ WatchNext
       /\ UNCHANGED <<part, accountVars, updaterVars, definitionVars,
                      approvalVars, runnerVars, schemaVars, linkVars>>
    \/ /\ part = "cloud" /\ CloudNext
       /\ UNCHANGED <<part, accountVars, updaterVars, definitionVars,
                      approvalVars, runnerVars, schemaVars, watchVars>>

Spec == Init /\ [][Next]_allVars
=============================================================================
