------------------------------ MODULE MCHandback ------------------------------
(***************************************************************************)
(* One ticket of two criteria, a rewording of one, a criterion a planner   *)
(* adds because the spec entails it and one a person states.               *)
(***************************************************************************)
EXTENDS Handback, TLC

AnyHand == Permutations(Hands)
=============================================================================
