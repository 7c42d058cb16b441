-------------------------- MODULE PriceCalculator --------------------------
(***************************************************************************)
(* The deterministic price arithmetic of internal/pricing/calculator.go:   *)
(* the landed cost, the minimum profitable price (the floor), the change   *)
(* between two prices in basis points, rule selection, and Calculate, which*)
(* combines them.  Amounts are integers in kobo.  The code computes in     *)
(* int64; MaxInt is that width, and Wrap is what the multiplications that  *)
(* the code leaves unguarded do beyond it.                                 *)
(***************************************************************************)
EXTENDS Integers, FiniteSets

CONSTANTS
    BPS,      \* basis points in one whole: 10000 in the code
    MaxInt    \* the largest int64

ASSUME ScaleAssumption ==
    /\ BPS \in Nat \ {0}
    /\ MaxInt \in Nat
    /\ MaxInt > BPS

None == 0     \* a nil *int64: no bound, no sale price.  Real amounts are > 0

Abs(n) == IF n < 0 THEN -n ELSE n

(* Two's complement: the value an int64 product really takes.              *)
Wrap(n) == LET width == 2 * (MaxInt + 1)
           IN  ((n + MaxInt + 1) % width) - (MaxInt + 1)

(* Integer division by a positive divisor: Go truncates toward zero.        *)
GoDiv(a, b) == IF a < 0 THEN -((-a) \div b) ELSE a \div b

(* ChangeBPS (and changeBetween of the recommendation service): the size of *)
(* a price change, in basis points of the current price.                   *)
ChangeBPS(current, desired) ==
    IF current <= 0 THEN 0
    ELSE GoDiv(Wrap(Abs(desired - current) * BPS), current)

CeilDiv(a, b) == GoDiv(Wrap(a + b - 1), b)

RoundUp(value, increment) ==
    IF increment <= 0 \/ value <= 0 \/ value > MaxInt - (increment - 1)
    THEN value
    ELSE CeilDiv(value, increment) * increment

(* The lowest price that leaves a margin, in basis points of the price, over *)
(* a landed cost; None where the code returns an error.                    *)
MinimumProfitablePrice(cost, margin) ==
    IF cost \in 1..(MaxInt \div BPS) /\ margin \in 1..(BPS - 1)
    THEN CeilDiv(cost * BPS, BPS - margin)
    ELSE None

Larger(a, b) == IF a < b THEN b ELSE a
SmallerBound(a, b) == IF a = None THEN b ELSE IF b = None \/ a < b THEN a ELSE b

(* A rule is a record with at least margin, change, maximum and rounding.   *)
NoRule == [margin |-> 1, change |-> BPS, maximum |-> None, rounding |-> 100]
Refused == [status |-> "refused"]

(* Mutant: an explicit minimum is ignored.                                  *)
ForgetsMinimum(in) ==
    RoundUp(MinimumProfitablePrice(in.landed, in.rule.margin),
            IF in.rounding > 0 THEN in.rounding ELSE in.rule.rounding)

(* The floor: the policy's rounding goes before the rule's, and an explicit *)
(* minimum is only ever raised.                                            *)
Floor(in) ==
    LET computed == RoundUp(MinimumProfitablePrice(in.landed, in.rule.margin),
                            IF in.rounding > 0 THEN in.rounding ELSE in.rule.rounding)
    IN  IF in.minimum # None THEN Larger(in.minimum, computed) ELSE computed

(* Calculate, of the landed cost (None when no cost is set), the current    *)
(* regular and sale price, the selected rule or NoRule, the policy's       *)
(* minimum, maximum and rounding, and the lock.  Texts, the margin and the *)
(* profit it reports are left out: nothing decides on them.                *)
Calculate(in) ==
    LET price == IF in.sale # None THEN in.sale ELSE in.regular
        minimum == Floor(in)
        maximum == SmallerBound(in.maximum, in.rule.maximum)
        required == ChangeBPS(price, minimum)
    IN  IF \/ price <= 0
           \/ MinimumProfitablePrice(in.landed, in.rule.margin) = None
           \/ maximum # None /\ maximum < minimum
        THEN Refused
        ELSE [status |-> IF in.locked THEN "locked"
                         ELSE IF price >= minimum THEN "compliant"
                         ELSE IF required > in.rule.change THEN "guardrail_blocked"
                         ELSE "below_floor",
              current |-> price, floor |-> minimum, ceiling |-> maximum,
              guardrail |-> in.rule.change, locked |-> in.locked]

=============================================================================
