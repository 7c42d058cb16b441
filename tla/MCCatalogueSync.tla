--------------------------- MODULE MCCatalogueSync ---------------------------
(***************************************************************************)
(* A small instance of CatalogueSync for TLC: two products on two pages.    *)
(***************************************************************************)
EXTENDS CatalogueSync, TLC

Once == [h \in Hazards |-> 1]
=============================================================================
