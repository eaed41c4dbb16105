----------------------------- MODULE Workspaces -----------------------------
(***************************************************************************)
(* Where a session works: the workspace of its row, the one its turn goes  *)
(* by, the directories its PM's tools may reach (the PathGuard of          *)
(* PMToolRuntime) and those its agents are launched in. Each is a copy of  *)
(* its own that a bind or a cleanup of a worktree changes or leaves alone. *)
(* The leases themselves are WorktreeLeases'.                              *)
(***************************************************************************)
EXTENDS FiniteSets

CONSTANTS
    Owners,     \* sessions
    Roots,      \* the configured workspaces, which always exist
    Wts,        \* paths of worktrees, none of them inside a root
    Nobody      \* no session, no directory

ASSUME WorkspaceAssumption ==
    /\ Roots # {} /\ Roots \cap Wts = {}
    /\ Nobody \notin Owners \cup Roots \cup Wts

VARIABLES
    present,    \* worktrees whose directory exists
    holder,     \* the session with the active lease of a worktree
    held,       \* history: worktrees a session has had a lease of
    home,       \* Session.workspace and Session.main_workspace
    turn,       \* the workspace the session's turn goes by
    tools,      \* the directory and the roots of the PM's tools
    astray      \* history: where a PM or an agent has been without a right to

workspaceVars == <<present, holder, held, home, turn, tools, astray>>

Dirs == Roots \cup Wts
NoTools == [cwd |-> Nobody, roots |-> {}]
NewSession == [ws |-> Nobody, main |-> Nobody]

WorkspaceInit ==
    /\ present = {}
    /\ holder = [w \in Wts |-> Nobody]
    /\ held = {}
    /\ home = [s \in Owners |-> NewSession]
    /\ turn = [s \in Owners |-> Nobody]
    /\ tools = [s \in Owners |-> NoTools]
    /\ astray = {}

-----------------------------------------------------------------------------
(* Resolving a workspace.                                                  *)

Exists(d) == d \in Roots \cup present

Recorded_AnyDirectory(s, d) == Exists(d)

\* A directory is the session's own if its row names it.
Recorded(s, d) == Exists(d) /\ d \in {home[s].ws, home[s].main}

\* The live worktree of the session, or else the checkout it came from.
Effective(s) == IF Exists(home[s].ws) THEN home[s].ws ELSE home[s].main

Allowed(s, d) == d \in Roots \/ Recorded(s, d)

-----------------------------------------------------------------------------
(* A turn: its dispatch, the plan, the launches.                           *)

\* Session s works in directory d.
Reach(s, d) ==
    astray' = IF d \in Roots \/ <<s, d>> \in held THEN astray ELSE astray \cup {<<s, d>>}

Dispatch(s, wanted) ==
    /\ turn[s] = Nobody
    /\ \E d \in (IF wanted # Nobody THEN {wanted}
                 ELSE IF home[s] # NewSession THEN {Effective(s)} ELSE Roots) :
          /\ Allowed(s, d)
          /\ turn' = [turn EXCEPT ![s] = d]
          /\ home' = [home EXCEPT ![s] = IF @ = NewSession THEN [ws |-> d, main |-> d] ELSE @]
    /\ UNCHANGED <<present, holder, held, tools, astray>>

\* A plan, review or recovery begins, with tools of its own.
CallBegins(s) ==
    /\ turn[s] # Nobody /\ tools[s] = NoTools
    /\ tools' = [tools EXCEPT ![s] = [cwd |-> turn[s], roots |-> Roots]]
    /\ UNCHANGED <<present, holder, held, home, turn, astray>>

\* A plan names no workspace, the one the turn is at, or one the session may
\* work in.
Selectable(s, wanted) ==
    wanted # Nobody => Exists(wanted) /\ (wanted = Effective(s) \/ Allowed(s, wanted))

\* The plan is there: the turn goes by the workspace of the row, or by the one
\* the plan names, which is then the row's too; the agent is launched in it. A
\* plan that names another one ends the turn (TurnEnds).
PlanEnds(s, wanted) ==
    /\ tools[s] # NoTools
    /\ Selectable(s, wanted)
    /\ LET d == IF wanted = Nobody THEN Effective(s) ELSE wanted IN
          /\ turn' = [turn EXCEPT ![s] = d]
          /\ home' = [home EXCEPT ![s].ws = IF d = Effective(s) THEN @ ELSE d]
          /\ Reach(s, d)
    /\ tools' = [tools EXCEPT ![s] = NoTools]
    /\ UNCHANGED <<present, holder, held>>

\* A review or a recovery ends; the agent goes on, or another one is launched,
\* where the turn began.
CallEnds(s, launched) ==
    /\ tools[s] # NoTools
    /\ tools' = [tools EXCEPT ![s] = NoTools]
    /\ IF launched /\ Exists(turn[s]) THEN Reach(s, turn[s]) ELSE UNCHANGED astray
    /\ UNCHANGED <<present, holder, held, home, turn>>

\* A workflow step goes by the row, whether or not the directory is there.
StepLaunch(s) ==
    /\ home[s] # NewSession /\ Exists(home[s].ws)
    /\ Reach(s, home[s].ws)
    /\ UNCHANGED <<present, holder, held, home, turn, tools>>

TurnEnds(s) ==
    /\ turn[s] # Nobody
    /\ turn' = [turn EXCEPT ![s] = Nobody]
    /\ tools' = [tools EXCEPT ![s] = NoTools]
    /\ holder' = [w \in Wts |-> IF holder[w] = s THEN Nobody ELSE holder[w]]
    /\ UNCHANGED <<present, held, home, astray>>

-----------------------------------------------------------------------------
(* The PM's tools.                                                         *)

\* A file tool takes an absolute path, or one below its directory.
FileTool(s, d) ==
    /\ d \in tools[s].roots /\ Exists(d)
    /\ Reach(s, d)
    /\ UNCHANGED <<present, holder, held, home, turn, tools>>

\* The logs and patches the tools have left: those of the tools' directory
\* and of the main checkout.
ArtifactDirs(s) == {tools[s].cwd, home[s].main}

ReadArtifact(s, d) ==
    /\ tools[s] # NoTools /\ d \in ArtifactDirs(s) /\ Exists(d)
    /\ Reach(s, d)
    /\ UNCHANGED <<present, holder, held, home, turn, tools>>

\* worktree_list and worktree_status also take a worktree the session holds.
LookAt(s, d) ==
    /\ tools[s] # NoTools /\ Exists(d)
    /\ d \in tools[s].roots \/ (d \in Wts /\ holder[d] = s)
    /\ Reach(s, d)
    /\ UNCHANGED <<present, holder, held, home, turn, tools>>

\* The row and the tools of a session that was bound to worktree w.
BoundTo(s, w) ==
    /\ home' = [home EXCEPT ![s].ws = w]
    /\ tools' = [tools EXCEPT ![s] = [cwd |-> w, roots |-> {w}]]

CreateWorktree(s, w, bind) ==
    /\ tools[s] # NoTools /\ w \notin present /\ holder[w] = Nobody
    /\ present' = present \cup {w}
    /\ holder' = [holder EXCEPT ![w] = s]
    /\ held' = held \cup {<<s, w>>}
    /\ IF bind THEN BoundTo(s, w) ELSE UNCHANGED <<home, tools>>
    /\ UNCHANGED <<turn, astray>>

BindTool(s, w) ==
    /\ tools[s] # NoTools /\ w \in present /\ holder[w] = s
    /\ BoundTo(s, w)
    /\ UNCHANGED <<present, holder, held, turn, astray>>

ToMain(s) == [cwd |-> home[s].main, roots |-> {home[s].main}]

\* A cleanup that removes the directory the tools stand in takes them to the
\* main checkout; the row keeps the worktree.
CleanupTool(s, w) ==
    /\ tools[s] # NoTools
    /\ holder[w] = s \/ (<<s, w>> \in held /\ \A v \in Wts : holder[v] # s)
    /\ present' = present \ {w}
    /\ holder' = [holder EXCEPT ![w] = IF @ = s THEN Nobody ELSE @]
    /\ tools' = [tools EXCEPT ![s] =
                    IF @.cwd = w THEN ToMain(s) ELSE @]
    /\ UNCHANGED <<held, home, turn, astray>>

UserDeletes(w) ==
    /\ w \in present
    /\ present' = present \ {w}
    /\ UNCHANGED <<holder, held, home, turn, tools, astray>>

OwnerStep(s) ==
    \/ \E d \in Dirs \cup {Nobody} : Dispatch(s, d) \/ PlanEnds(s, d)
    \/ CallBegins(s) \/ StepLaunch(s) \/ TurnEnds(s)
    \/ \E launched \in BOOLEAN : CallEnds(s, launched)
    \/ \E d \in Dirs : FileTool(s, d) \/ ReadArtifact(s, d) \/ LookAt(s, d)
    \/ \E w \in Wts :
          \/ \E bind \in BOOLEAN : CreateWorktree(s, w, bind)
          \/ BindTool(s, w) \/ CleanupTool(s, w)

WorkspaceNext == (\E s \in Owners : OwnerStep(s)) \/ \E w \in Wts : UserDeletes(w)

WorkspaceSpec == WorkspaceInit /\ [][WorkspaceNext]_workspaceVars

-----------------------------------------------------------------------------
(* Properties.                                                             *)

\* Whatever is bound, removed and asked for in whatever order, a session's PM
\* and agents are only ever in the configured workspaces and in worktrees the
\* session has had a lease of.
OnlyOwnPlaces == astray = {}
=============================================================================
