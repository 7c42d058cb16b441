---------------------------- MODULE MCUsageLimits ----------------------------
(***************************************************************************)
(* A small instance of UsageLimits for TLC.                                *)
(***************************************************************************)
EXTENDS UsageLimits, TLC

Twice == [h \in Hazards |-> 2]

(* Callers are alike; every property here is one of states or of steps.     *)
SymmetryCallers == Permutations(Callers)
=============================================================================
