---------------------------- MODULE MCRelayLink ----------------------------
(* Instances of RelayLink for TLC. *)
EXTENDS RelayLink, TLC

(* Requests are interchangeable until one is routed. *)
RequestSymmetry == Permutations(Requests)
=============================================================================
