-------------------------- MODULE MCPricePublishing --------------------------
(***************************************************************************)
(* Small instances of PricePublishing for TLC: one product, or a product   *)
(* and its variant; three prices around the initial ones; two roles.       *)
(***************************************************************************)
EXTENDS PricePublishing, Functions, TLC

CONSTANTS product, variant

OneProduct == {product}
ProductAndVariant == {product, variant}
ParentProduct == [i \in Items |-> product]

(* From 90 a price may be raised to a floor of 100 or lowered to 80; from   *)
(* 100, lowered to 90 or to 80.  The manager may move a price by 12% and   *)
(* set at most 90; 100 to 80 needs the owner.                              *)
ThreePrices == {80, 90, 100}
TwoRoles == [owner |-> [bps |-> 3000, cap |-> None],
             manager |-> [bps |-> 1200, cap |-> 90]]

SymmetryWorkers == Permutations(Workers)
SymmetryAll == Permutations(Workers) \cup Permutations(Requests)

(* Bounds: each run allows the hazards its question is about, and how many  *)
(* of them together, generations included.                                 *)
Few(most, bound) ==
    {times \in [Hazards -> 0..2] : /\ \A h \in Hazards : times[h] <= bound[h]
                                   /\ FoldFunction(+, 0, times) <= most}

Calm == [[h \in Hazards |-> 0] EXCEPT !["generation"] = 1]
Everything == [[h \in Hazards |-> 1] EXCEPT !["fault"] = 2]

(* An edit of the store multiplies the states by the listings it may lead   *)
(* to; it meets one fault, one use of the kill switch and one rollback, the *)
(* hazards a worker can run into together with it.                         *)
OneRequest ==
    {times \in Few(4, Everything) :
        times["storeEdit"] > 0 =>
            /\ times["fault"] <= 1
            /\ \A h \in {"termEdit", "drop", "day", "schedule"} : times[h] = 0}

TwoRequests == Few(3, [Calm EXCEPT !["generation"] = 2, !["fault"] = 1, !["rollback"] = 1])
WithRollbacks == Few(4, [Calm EXCEPT !["fault"] = 1, !["toggle"] = 1, !["rollback"] = 1])
WithOneEdit == Few(2, [Calm EXCEPT !["storeEdit"] = 1])
WithToggle == Few(2, [Calm EXCEPT !["toggle"] = 1])

(* Behaviours end where a worker is overtaken between its read and write:   *)
(* the price it then overwrites is lost to the catalogue.                  *)
NobodyOvertaken == \A w \in Workers : ~worker[w].raced
=============================================================================
