-------------------------- MODULE MCDecisionCards --------------------------
(* Instances of DecisionCards for TLC. *)
EXTENDS DecisionCards, TLC

(* Question cards share nothing with the rest but the event loop: an       *)
(* instance follows either the questions or the actions of a behaviour.    *)
Apart == \/ \A q \in Questions : waiting[q] = "none"
         \/ job = [r \in Runners |-> "idle"] /\ worktree = {} /\ refs = <<>>

ApartSpec == Init /\ [][Next /\ Apart']_vars

(* Actions, taps and options are interchangeable. *)
Symmetry == Permutations(Actions) \cup Permutations(Taps) \cup Permutations(Options)
=============================================================================
