----------------------------- MODULE MCRepricing -----------------------------
(* A variant of a categorized product.  Costs and margins put the floor at  *)
(* any of the prices, on both sides of the listed one, and, rounded to     *)
(* 100, above all of them; steps between prices straddle the guardrail of  *)
(* 1500.  Two category rules tie in scope; one rule applies only to cheap  *)
(* items and one only to items in stock; a rule for the store and one with *)
(* no margin are refused.  Listings differ in stock status and quantity,    *)
(* which need not agree, nor the quantity be known.  A cost file names the  *)
(* item's SKU twice, one the SKU of its product, one that of two variants.  *)
EXTENDS Repricing

MCItem == [product |-> "p", variant |-> "v", categories |-> {"c"}, sku |-> "own", created |-> 1]

MCCatalogue ==
    {MCItem, [MCItem EXCEPT !.variant = NoVariant, !.sku = "parent"],
     [MCItem EXCEPT !.variant = "twin", !.sku = "shared"],
     [MCItem EXCEPT !.variant = "other", !.sku = "shared"]}

MCFiles ==
    {<<[sku |-> "own", valid |-> TRUE, cost |-> 72], [sku |-> "own", valid |-> TRUE, cost |-> 64]>>,
     <<[sku |-> "parent", valid |-> TRUE, cost |-> 64], [sku |-> "shared", valid |-> TRUE, cost |-> 64],
       [sku |-> "own", valid |-> FALSE, cost |-> 0], [sku |-> "own", valid |-> TRUE, cost |-> 64]>>}

MCListings ==
    [regular : {80, 90, 100}, sale : {None}, inStock : {TRUE}, quantity : {{5}},
     published : {TRUE}]
        \cup {[regular |-> 100, sale |-> 80, inStock |-> TRUE, quantity |-> {}, published |-> TRUE],
              [regular |-> 90, sale |-> None, inStock |-> FALSE, quantity |-> {5}, published |-> TRUE],
              [regular |-> 80, sale |-> None, inStock |-> FALSE, quantity |-> {}, published |-> FALSE]}

MCCosts == {64, 72}

MCRule(scope, of, margin, change, maximum, priority) ==
    [scope |-> scope, of |-> of, margin |-> margin, change |-> change,
     maximum |-> maximum, rounding |-> 10, priority |-> priority,
     inStock |-> FALSE, minStock |-> {}, maxCurrent |-> {}]

MCRuleBook ==
    {[MCRule("product", "p", 2500, 10000, None, 2) EXCEPT !.maxCurrent = {85}],
     [MCRule("variant", "v", 1000, 1500, 90, 1) EXCEPT !.inStock = TRUE],
     [MCRule("category", "c", 2000, 10000, None, 1) EXCEPT !.minStock = {3}],
     MCRule("category", "c", 1000, 1500, None, 2),
     MCRule("store", "", 1000, 10000, None, 1), MCRule("variant", "v", 0, 1500, None, 1)}

MCPolicyBook ==
    {[scope |-> "variant", of |-> "v", minimum |-> 90, maximum |-> None, rounding |-> 10],
     [scope |-> "variant", of |-> "v", minimum |-> None, maximum |-> 90, rounding |-> 10],
     [scope |-> "store", of |-> "", minimum |-> None, maximum |-> 100, rounding |-> 100]}

MCLockBook == {[product |-> "p", variant |-> "v"]}

Usual == [price |-> 80, current |-> TRUE, confident |-> TRUE]
MCObservations ==
    {Usual, [Usual EXCEPT !.price = 90], [Usual EXCEPT !.current = FALSE],
     [Usual EXCEPT !.confident = FALSE], [Usual EXCEPT !.price = None]}

ASSUME AmountsInRange
=============================================================================
