------------------------ MODULE RecommendationEngine ------------------------
(***************************************************************************)
(* The recommendation engine, internal/recommendation/engine.go: a pure    *)
(* decision about one product or variant from its current price, its       *)
(* computed floor and ceiling, and the competitors' confirmed prices.      *)
(*                                                                         *)
(* An input is a record                                                    *)
(*   current, floor, ceiling (None when unset), guardrail (basis points),  *)
(*   locked, fresh (CompetitorDataFresh), signals: a set of records        *)
(*   [price, confident], confident being ExtractionBPS >= 5000.            *)
(* Texts, reasons, urgency and confidence are left out: nothing downstream *)
(* decides on them.                                                        *)
(***************************************************************************)
EXTENDS PriceCalculator

Actionable == {"raise", "lower"}
RecommendationStates == Actionable \cup {"hold", "investigate", "pause"}

(* competitorSignals: the newest observation of each confirmed competitor   *)
(* product, [price, current, confident], where price is None when none was *)
(* extracted and current means in stock, in the organization's currency,   *)
(* within its freshness window and matched with confidence.                *)
Usable(o) == o.price > 0 /\ o.current /\ o.confident

UsableSignals(observations) ==
    {[price |-> o.price, confident |-> o.confident] : o \in {p \in observations : Usable(p)}}

(* Competitors without one usable observation are stale data, not no data.  *)
CompetitorDataFresh(observations) ==
    observations = {} \/ UsableSignals(observations) # {}

(* lowestConfirmedInStock: None when no signal can be trusted.             *)
LowestConfirmedInStock(signals) ==
    LET trusted == {s.price : s \in {t \in signals : t.price > 0 /\ t.confident}}
    IN  IF trusted = {} THEN None
        ELSE CHOOSE p \in trusted : \A q \in trusted : p <= q

Exceeds(price, ceiling) == ceiling # None /\ price > ceiling

Decision(state, price) == [state |-> state, recommended |-> price]

(* Mutant: it raises to the ceiling.                                        *)
RaiseToCeiling(in) == Decision("raise", in.ceiling)

(* Below the floor the only safe action is a raise to it; the ceiling and   *)
(* the guardrail turn it into an investigation that still carries the floor.*)
RaiseToFloor(in) ==
    Decision(IF \/ Exceeds(in.floor, in.ceiling)
                \/ ChangeBPS(in.current, in.floor) > in.guardrail
             THEN "investigate" ELSE "raise",
             in.floor)

(* Mutants: no guardrail; the comparison with the floor is inverted.        *)
FollowUnguarded(in, lowest) ==
    IF lowest < in.floor \/ Exceeds(lowest, in.ceiling)
    THEN Decision("hold", in.current) ELSE Decision("lower", lowest)
FollowInverted(in, lowest) ==
    IF lowest > in.floor THEN Decision("hold", in.current) ELSE Decision("lower", lowest)

(* Above the market: follow the lowest competitor unless that breaches the *)
(* floor, the ceiling or the guardrail.                                    *)
FollowMarket(in, lowest) ==
    IF lowest < in.floor \/ Exceeds(lowest, in.ceiling)
    THEN Decision("hold", in.current)
    ELSE IF ChangeBPS(in.current, lowest) > in.guardrail
    THEN Decision("investigate", in.current)
    ELSE Decision("lower", lowest)

(* Mutant: a price at the floor is raised to it.                            *)
RaisesAtFloor(in) ==
    IF in.locked THEN Decision("pause", in.current)
    ELSE IF ~in.fresh THEN Decision("investigate", in.current)
    ELSE IF in.current <= in.floor THEN RaiseToFloor(in)
    ELSE FollowMarket(in, LowestConfirmedInStock(in.signals))

Engine(in) ==
    LET lowest == LowestConfirmedInStock(in.signals)
    IN  IF in.locked THEN Decision("pause", in.current)
        ELSE IF ~in.fresh THEN Decision("investigate", in.current)
        ELSE IF in.current < in.floor THEN RaiseToFloor(in)
        ELSE IF lowest # None /\ in.current > lowest THEN FollowMarket(in, lowest)
        ELSE Decision("hold", in.current)

=============================================================================
