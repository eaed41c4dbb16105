------------------------- MODULE MCDispatchSession -------------------------
(* Instances of DispatchSession for TLC. *)
EXTENDS DispatchSession, TLC

(* Launches are interchangeable until a request picks one. *)
LaunchSymmetry == Permutations(Launches)
=============================================================================
