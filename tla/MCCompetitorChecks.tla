------------------------- MODULE MCCompetitorChecks -------------------------
(***************************************************************************)
(* A small instance of CompetitorChecks for TLC: one page, two workers, so  *)
(* that two checks of the page can overlap.                                *)
(***************************************************************************)
EXTENDS CompetitorChecks

Nothing == [named |-> FALSE, price |-> 0]

(* A price in the tags only, a range in the product's own data which hides  *)
(* the tags' price, and an error page.                                     *)
MCContents ==
    {[answers |-> TRUE, ld |-> Nothing, meta |-> [named |-> TRUE, price |-> 1]],
     [answers |-> TRUE, ld |-> [named |-> TRUE, price |-> 0], meta |-> [named |-> TRUE, price |-> 1]],
     [answers |-> FALSE, ld |-> Nothing, meta |-> [named |-> TRUE, price |-> 1]]}

Twice == [h \in Hazards |-> 2]
=============================================================================
