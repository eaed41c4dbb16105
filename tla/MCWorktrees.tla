----------------------------- MODULE MCWorktrees -----------------------------
(* The leases of worktrees, the files that tasks and workflow runs put into  *)
(* them, what is told of the work in them, and where a session works: a      *)
(* behaviour follows one.                                                    *)
EXTENDS WorktreeLeases, WorkflowRuns, WorktreeReview, Workspaces

CONSTANTS SkillA, SkillB

VARIABLE part

allVars == <<part, leaseVars, workflowVars, reviewVars, workspaceVars>>

MCSkills == {SkillA, SkillB}
MCTaskSkills == {{SkillA}}

\* Two runs of two steps: a rubric then an approval, and two rubrics.
MCStep(qa, approval, skill) == [qa |-> qa, approval |-> approval, skills |-> {skill}]
MCWorkflows ==
    {<<MCStep(FALSE, TRUE, SkillA), MCStep(TRUE, FALSE, SkillB)>>,
     <<MCStep(TRUE, FALSE, SkillA), MCStep(TRUE, FALSE, SkillA)>>}

Init ==
    /\ part \in {"leases", "files", "reviews", "places"}
    /\ LeaseInit /\ WorkflowInit /\ ReviewInit /\ WorkspaceInit

Next ==
    \/ part = "leases" /\ LeaseNext /\ UNCHANGED <<part, workflowVars, reviewVars, workspaceVars>>
    \/ part = "files" /\ WorkflowNext /\ UNCHANGED <<part, leaseVars, reviewVars, workspaceVars>>
    \/ part = "reviews" /\ ReviewNext /\ UNCHANGED <<part, leaseVars, workflowVars, workspaceVars>>
    \/ part = "places" /\ WorkspaceNext /\ UNCHANGED <<part, leaseVars, workflowVars, reviewVars>>

Spec == Init /\ [][Next]_allVars
=============================================================================
