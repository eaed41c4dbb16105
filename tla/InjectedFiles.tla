---------------------------- MODULE InjectedFiles ----------------------------
(***************************************************************************)
(* What WorkspaceInjector writes into a workspace for an agent to read and *)
(* takes away again: a marked block in CLAUDE.md or AGENTS.md, one native  *)
(* directory per skill which tasks share, one file per skill and task, a   *)
(* manifest of a task's native directories, and a section of               *)
(* .git/info/exclude. Each call is synchronous.                            *)
(*                                                                         *)
(* A task's files carry its key; all workflow runs use the key "default".  *)
(***************************************************************************)
EXTENDS Naturals, FiniteSets

CONSTANTS
    Tasks,      \* keys of dispatched tasks
    Skills,     \* slugs of skills
    Agents,     \* kinds of agents that are launched
    Trees       \* linked worktrees, next to the "main" checkout

ASSUME FilesAssumption ==
    "default" \notin Tasks /\ "main" \notin Trees /\ Agents \subseteq {"claude", "codex", "other"}

VARIABLES
    blocks,     \* <<place, file, key>> of the marked blocks
    native,     \* <<place, skill>> of .claude/skills/foreman-<slug>
    manifest,   \* native skills each key's manifest names, by place
    codex,      \* <<place, key, skill>> of .foreman/skills
    excluded,   \* <<place, key>> of the sections of .git/info/exclude
    need,       \* history: where and what a key was last given
    strayed,    \* history: a key was given other skills, or cleared elsewhere
    forgotten   \* history: keys whose files nobody will clear any more

fileVars == <<blocks, native, manifest, codex, excluded, need, strayed, forgotten>>

FileKeys == Tasks \cup {"default"}
Places == Trees \cup {"main"}
Guidance == {"CLAUDE.md", "AGENTS.md"}
Needs == [place : Places, files : SUBSET Guidance, skills : SUBSET Skills]
NoNeed == [place |-> "main", files |-> {}, skills |-> {}]

FilesTypeOK ==
    /\ blocks \subseteq Places \X Guidance \X FileKeys
    /\ native \subseteq Places \X Skills
    /\ manifest \in [Places \X FileKeys -> SUBSET Skills]
    /\ codex \subseteq Places \X FileKeys \X Skills
    /\ excluded \subseteq Places \X FileKeys
    /\ need \in [FileKeys -> Needs]
    /\ strayed \in BOOLEAN /\ forgotten \subseteq FileKeys

FilesInit ==
    /\ blocks = {} /\ native = {} /\ codex = {} /\ excluded = {}
    /\ manifest = [pk \in Places \X FileKeys |-> {}]
    /\ need = [k \in FileKeys |-> NoNeed]
    /\ strayed = FALSE /\ forgotten = {}

\* The guidance files of an agent; without a known agent, both.
GuidanceFor(agent) ==
    CASE agent = "claude" -> {"CLAUDE.md"}
      [] agent = "codex" -> {"AGENTS.md"}
      [] OTHER -> Guidance

-----------------------------------------------------------------------------

\* A new manifest replaces the key's last one. In a linked worktree .git is a
\* file and the exclude section cannot be written.
Inject(p, k, files, skills) ==
    LET claude == "CLAUDE.md" \in files /\ skills # {}
    IN  /\ blocks' = blocks \cup {<<p, f, k>> : f \in files}
        /\ native' = native \cup (IF claude THEN {p} \X skills ELSE {})
        /\ manifest' = IF claude THEN [manifest EXCEPT ![<<p, k>>] = skills] ELSE manifest
        /\ codex' = codex \cup (IF "AGENTS.md" \in files THEN {p} \X {k} \X skills ELSE {})
        /\ excluded' = excluded \cup (IF p = "main" /\ skills # {} THEN {<<p, k>>} ELSE {})
        /\ need' = [need EXCEPT ![k] = [place |-> p, files |-> files, skills |-> skills]]
        /\ strayed' = (strayed \/ (need[k].files # {} /\ need[k].place # p)
                               \/ (claude /\ ~(manifest[<<p, k>>] \subseteq skills)))
        /\ UNCHANGED forgotten

Claimed_Nobody(p, k) == {}

\* Native skills another key's manifest names.
Claimed(p, k) == UNION {manifest[<<p, j>>] : j \in FileKeys \ {k}}

Clear_ManifestGoesFirst(p, k) ==
    /\ blocks' = {b \in blocks : b[1] # p \/ b[3] # k}
    /\ manifest' = [manifest EXCEPT ![<<p, k>>] = {}]
    /\ native' = native \ ({p} \X (manifest'[<<p, k>>] \ Claimed(p, k)))
    /\ codex' = {c \in codex : c[1] # p \/ c[2] # k}
    /\ excluded' = excluded \ {<<p, k>>}
    /\ strayed' = (strayed \/ (need[k].files # {} /\ need[k].place # p))
    /\ need' = [need EXCEPT ![k] = NoNeed]
    /\ UNCHANGED forgotten

\* The blocks, the native directories nobody else claims, the key's own files
\* and its exclude section.
Clear(p, k) ==
    /\ blocks' = {b \in blocks : b[1] # p \/ b[3] # k}
    /\ native' = native \ ({p} \X (manifest[<<p, k>>] \ Claimed(p, k)))
    /\ manifest' = [manifest EXCEPT ![<<p, k>>] = {}]
    /\ codex' = {c \in codex : c[1] # p \/ c[2] # k}
    /\ excluded' = excluded \ {<<p, k>>}
    /\ strayed' = (strayed \/ (need[k].files # {} /\ need[k].place # p))
    /\ need' = [need EXCEPT ![k] = NoNeed]
    /\ UNCHANGED forgotten

\* A clear that fails at its first file leaves everything, and its caller goes
\* on as if it had not.
ClearFails(k) ==
    /\ forgotten' = forgotten \cup {k}
    /\ UNCHANGED <<blocks, native, manifest, codex, excluded, need, strayed>>

-----------------------------------------------------------------------------
(* Properties.                                                             *)

\* All that was injected is of these keys.
BelongsTo(keys) ==
    /\ \A b \in blocks : b[3] \in keys
    /\ \A c \in codex : c[2] \in keys
    /\ \A x \in excluded : x[2] \in keys
    /\ \A n \in native : \E k \in keys : n[2] \in manifest[<<n[1], k>>]

\* What a dispatched task was given stays in its place until the task is
\* cleared, whatever other tasks and runs inject and clear next to it.
TaskFilesStay ==
    \A t \in Tasks :
        LET n == need[t] IN
        /\ \A f \in n.files : <<n.place, f, t>> \in blocks
        /\ "CLAUDE.md" \in n.files => {n.place} \X n.skills \subseteq native
        /\ "AGENTS.md" \in n.files => {n.place} \X {t} \X n.skills \subseteq codex
=============================================================================
