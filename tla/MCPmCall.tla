------------------------------ MODULE MCPmCall ------------------------------
(* A PM call, a call of the language model under it, the context ledger both *)
(* write to, the packs it is compacted into, and the work modes a planning   *)
(* selects: a behaviour follows one of them.                                 *)
EXTENDS PmCall, LlmCall, ContextLedger, ContextPacks, WorkModes

VARIABLE part

allVars == <<part, pmVars, callVars, ledgerVars, packVars, modeVars>>

\* Two modes that apply, the first gaining by an edit and the second losing,
\* and a third that does not apply and is not described.
MCRow(applies, words, alike) ==
    [fits |-> applies, described |-> applies, words |-> words, alike |-> alike,
     priority |-> 0, size |-> 1]
MCProfile ==
    << <<MCRow(TRUE, 1, 1), MCRow(TRUE, 1, 3)>>,
       <<MCRow(TRUE, 0, 2), MCRow(TRUE, 2, 0)>>,
       <<MCRow(FALSE, 2, 2), MCRow(TRUE, 2, 2)>> >>
MCOfKind == {{2}}

\* A short and a long line of the timeline, two commands, a small and a big constraint, a fact.
MCItemOf(section, importance, size) == [section |-> section, importance |-> importance, size |-> size]
MCItem ==
    <<MCItemOf("dynamic_tail", 5, 1), MCItemOf("dynamic_tail", 5, 2), MCItemOf("commands", 3, 2),
      MCItemOf("commands", 5, 3), MCItemOf("constraints", 5, 2), MCItemOf("constraints", 9, 6),
      MCItemOf("verified_facts", 5, 2)>>

Init ==
    /\ part \in {"pm", "llm", "ledger", "packs", "modes"}
    /\ PmInit /\ LlmInit /\ LedgerInit /\ PackInit /\ ModesInit

Next ==
    \/ part = "pm" /\ PmNext /\ UNCHANGED <<part, callVars, ledgerVars, packVars, modeVars>>
    \/ part = "llm" /\ LlmNext /\ UNCHANGED <<part, pmVars, ledgerVars, packVars, modeVars>>
    \/ part = "ledger" /\ LedgerNext /\ UNCHANGED <<part, pmVars, callVars, packVars, modeVars>>
    \/ part = "packs" /\ PackNext /\ UNCHANGED <<part, pmVars, callVars, ledgerVars, modeVars>>
    \/ part = "modes" /\ ModesNext /\ UNCHANGED <<part, pmVars, callVars, ledgerVars, packVars>>

\* LlmFairness, in the behaviours that follow the model's call.
Spec ==
    /\ Init /\ [][Next]_allVars
    /\ WF_allVars(part = "llm" /\ Tick /\ UNCHANGED <<part, pmVars, ledgerVars, packVars, modeVars>>)
    /\ WF_allVars(part = "llm" /\ GiveUp /\ UNCHANGED <<part, pmVars, ledgerVars, packVars, modeVars>>)
=============================================================================
