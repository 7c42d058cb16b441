---------------------------- MODULE MCStoreGates -----------------------------
(* The small instance of StoreGates for TLC is what GatesAssumption says.   *)
EXTENDS StoreGates

ASSUME GatesAssumption
=============================================================================
