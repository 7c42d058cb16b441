--------------------------- MODULE RepricingProofs ---------------------------
(***************************************************************************)
(* Proofs about Repricing, and about the calculator and the engine it is   *)
(* made of: types, that an actionable recommendation is safe and rests     *)
(* once accepted, and that a higher cost never lowers a price.             *)
(***************************************************************************)
EXTENDS Repricing, WellFoundedInduction, TLAPS

-----------------------------------------------------------------------------
(* Arithmetic *)

LEMMA SmallRemainder ==
    ASSUME NEW a \in Nat, NEW b \in Nat \ {0}, a < b
    PROVE  a % b = a
OBVIOUS

LEMMA Quotient ==
    ASSUME NEW a \in Nat, NEW b \in Nat \ {0}, NEW q, q = a \div b
    PROVE  q \in Nat /\ q * b <= a /\ a < (q + 1) * b
OBVIOUS

LEMMA QuotientGrows ==
    ASSUME NEW a \in Nat, NEW c \in Nat, NEW b \in Nat \ {0}, a <= c
    PROVE  a \div b <= c \div b
OBVIOUS

LEMMA ProductGrows ==
    ASSUME NEW a \in Nat, NEW b \in Nat, NEW c \in Nat, a <= b
    PROVE  a * c \in Nat /\ a * c <= b * c
OBVIOUS

(* Any set of natural numbers has a least one.                              *)
LEMMA Least ==
    ASSUME NEW S \in SUBSET Nat, S # {}
    PROVE  \E n \in S : \A m \in S : n <= m
<1>1. \E x \in S : \A y \in S : ~ (<<y, x>> \in OpToRel(<, Nat))
  BY NatLessThanWellFounded, WFMin, Zenon
<1>2. \A x, y \in Nat : <<y, x>> \in OpToRel(<, Nat) <=> y < x
  BY Zenon DEF OpToRel
<1>3. \E x \in S : \A y \in S : ~(y < x)
  BY <1>1, <1>2, Zenon
<1> QED BY <1>3

(* A number that fits is not changed by the width.                          *)
LEMMA WrapsNothing ==
    ASSUME NEW n \in Nat, n <= MaxInt
    PROVE  Wrap(n) = n
<1>1. MaxInt \in Nat
  BY ScaleAssumption
<1>2. (n + MaxInt + 1) % (2 * (MaxInt + 1)) = n + MaxInt + 1
  BY <1>1, SmallRemainder
<1> QED BY <1>1, <1>2 DEF Wrap

(* Whatever an overflow makes of it, the arithmetic yields an integer.      *)
LEMMA WrapType ==
    ASSUME NEW n \in Int PROVE Wrap(n) \in Int
<1>1. MaxInt \in Nat
  BY ScaleAssumption
<1>2. PICK w \in Nat \ {0} : w = 2 * (MaxInt + 1)
  BY <1>1
<1>3. (n + MaxInt + 1) % w \in Int
  BY <1>1
<1> QED BY <1>1, <1>2, <1>3 DEF Wrap

LEMMA GoDivType ==
    ASSUME NEW a \in Int, NEW b \in Nat \ {0} PROVE GoDiv(a, b) \in Int
<1>1. CASE a < 0
  <2>1. -a \in Nat
    BY <1>1
  <2>2. (-a) \div b \in Nat
    BY <2>1, Quotient
  <2> QED BY <1>1, <2>2 DEF GoDiv
<1>2. CASE ~(a < 0)
  <2>1. a \in Nat
    BY <1>2
  <2>2. a \div b \in Nat
    BY <2>1, Quotient
  <2> QED BY <1>2, <2>2 DEF GoDiv
<1> QED BY <1>1, <1>2

LEMMA CeilDivType ==
    ASSUME NEW a \in Int, NEW b \in Nat \ {0} PROVE CeilDiv(a, b) \in Int
BY WrapType, GoDivType DEF CeilDiv

(* ceilDiv rounds up, and keeps an order, where its numerator fits.         *)
LEMMA CeilDivRoundsUp ==
    ASSUME NEW a \in Nat, NEW b \in Nat \ {0}, a + b - 1 <= MaxInt
    PROVE  CeilDiv(a, b) \in Nat /\ CeilDiv(a, b) * b >= a
<1>1. PICK n \in Nat : n = a + b - 1
  OBVIOUS
<1>2. Wrap(n) = n
  BY <1>1, WrapsNothing
<1>3. PICK q : q = n \div b
  OBVIOUS
<1>4. q \in Nat /\ n < (q + 1) * b
  BY <1>3, Quotient
<1>5. CeilDiv(a, b) = q
  BY <1>1, <1>2, <1>3 DEF CeilDiv, GoDiv
<1>6. (q + 1) * b = q * b + b
  BY <1>4
<1> QED BY <1>1, <1>4, <1>5, <1>6

LEMMA CeilDivGrows ==
    ASSUME NEW a \in Nat, NEW c \in Nat, NEW b \in Nat \ {0}, a <= c, c + b - 1 <= MaxInt
    PROVE  CeilDiv(a, b) <= CeilDiv(c, b)
<1>1. PICK n, m \in Nat : n = a + b - 1 /\ m = c + b - 1
  OBVIOUS
<1>2. n <= m /\ m <= MaxInt /\ n <= MaxInt
  BY <1>1, ScaleAssumption
<1>3. Wrap(n) = n /\ Wrap(m) = m
  BY <1>2, WrapsNothing
<1>4. CeilDiv(a, b) = n \div b /\ CeilDiv(c, b) = m \div b
  BY <1>1, <1>3 DEF CeilDiv, GoDiv
<1> QED BY <1>2, <1>4, QuotientGrows

LEMMA RoundUpType ==
    ASSUME NEW v \in Int, NEW i \in Int PROVE RoundUp(v, i) \in Int
<1>1. CASE i > 0
  <2>1. CeilDiv(v, i) \in Int
    BY <1>1, CeilDivType
  <2>2. CeilDiv(v, i) * i \in Int
    BY <2>1
  <2> QED BY <2>2 DEF RoundUp
<1>2. CASE ~(i > 0)
  BY <1>2 DEF RoundUp
<1> QED BY <1>1, <1>2

(* Rounding never lowers an amount.                                         *)
LEMMA RoundUpRaises ==
    ASSUME NEW v \in Nat, NEW i \in Int PROVE RoundUp(v, i) \in Int /\ RoundUp(v, i) >= v
<1>1. CASE i <= 0 \/ v <= 0 \/ v > MaxInt - (i - 1)
  BY <1>1 DEF RoundUp
<1>2. CASE ~(i <= 0 \/ v <= 0 \/ v > MaxInt - (i - 1))
  <2>1. i \in Nat \ {0} /\ v + i - 1 <= MaxInt
    BY <1>2, ScaleAssumption
  <2>2. CeilDiv(v, i) \in Nat /\ CeilDiv(v, i) * i >= v
    BY <2>1, CeilDivRoundsUp
  <2> QED BY <1>2, <2>2, RoundUpType DEF RoundUp
<1> QED BY <1>1, <1>2

LEMMA RoundUpGrows ==
    ASSUME NEW v \in Nat, NEW w \in Nat, NEW i \in Int, v <= w, w + i - 1 <= MaxInt
    PROVE  RoundUp(v, i) <= RoundUp(w, i)
<1>1. CASE i <= 0 \/ v <= 0
  BY <1>1, RoundUpRaises DEF RoundUp
<1>2. CASE ~(i <= 0 \/ v <= 0)
  <2>1. i \in Nat \ {0} /\ ~(w <= 0) /\ ~(w > MaxInt - (i - 1)) /\ ~(v > MaxInt - (i - 1))
    BY <1>2, ScaleAssumption
  <2>2. PICK p, q \in Nat : p = CeilDiv(v, i) /\ q = CeilDiv(w, i)
    <3>1. v + i - 1 <= MaxInt
      BY <2>1, ScaleAssumption
    <3> QED BY <2>1, <3>1, CeilDivRoundsUp
  <2>3. p <= q
    BY <2>1, <2>2, CeilDivGrows
  <2>4. p * i <= q * i
    BY <2>1, <2>3, ProductGrows
  <2> QED BY <1>2, <2>1, <2>2, <2>4 DEF RoundUp
<1> QED BY <1>1, <1>2

-----------------------------------------------------------------------------
(* The floor *)

AllRules == RuleBook \cup {NoRule}
AllPolicies == PolicyBook \cup {NoPolicy}
FloorOf(cost, rule, policy) ==
    Floor([landed |-> cost, rule |-> rule, minimum |-> policy.minimum,
           rounding |-> policy.rounding])

LEMMA RuleFields ==
    ASSUME NEW r \in AllRules
    PROVE  r.margin \in Int /\ r.change \in Int /\ r.rounding \in Int /\ r.maximum \in Nat
BY TermsAssumption, ScaleAssumption DEF AllRules, NoRule, None

LEMMA PolicyFields ==
    ASSUME NEW p \in AllPolicies
    PROVE  p.minimum \in Nat /\ p.maximum \in Nat /\ p.rounding \in Nat
BY TermsAssumption DEF AllPolicies, NoPolicy, None

LEMMA CostFields ==
    ASSUME NEW cost \in Costs \cup {None} PROVE cost \in Nat
BY TermsAssumption DEF None

LEMMA MinimumType ==
    ASSUME NEW cost \in Nat, NEW margin \in Int
    PROVE  MinimumProfitablePrice(cost, margin) \in Int
<1>1. CASE cost \in 1..(MaxInt \div BPS) /\ margin \in 1..(BPS - 1)
  <2>1. PICK a \in Int, b \in Nat \ {0} : a = cost * BPS /\ b = BPS - margin
    BY <1>1, ScaleAssumption
  <2> QED BY <1>1, <2>1, CeilDivType DEF MinimumProfitablePrice
<1>2. CASE ~(cost \in 1..(MaxInt \div BPS) /\ margin \in 1..(BPS - 1))
  BY <1>2 DEF MinimumProfitablePrice, None
<1> QED BY <1>1, <1>2

(* A price of at least the minimum leaves the margin over the cost.         *)
LEMMA MinimumEarnsMargin ==
    ASSUME NEW cost \in Nat, NEW margin \in Int, cost * BPS + BPS <= MaxInt,
           MinimumProfitablePrice(cost, margin) # None,
           NEW price \in Nat, price >= MinimumProfitablePrice(cost, margin)
    PROVE  /\ cost # None
           /\ (price - cost) * BPS >= margin * price
<1>1. cost > 0 /\ margin \in 1..(BPS - 1) /\ BPS \in Nat
  BY ScaleAssumption DEF MinimumProfitablePrice
<1>2. PICK a \in Nat, b \in Nat \ {0} : a = cost * BPS /\ b = BPS - margin
  BY <1>1
<1>3. PICK m : m = MinimumProfitablePrice(cost, margin)
  OBVIOUS
<1>4. m = CeilDiv(a, b)
  BY <1>2, <1>3 DEF MinimumProfitablePrice
<1>5. a + b - 1 <= MaxInt
  BY <1>1, <1>2, ScaleAssumption
<1>6. m \in Nat /\ m * b >= a
  BY <1>4, <1>5, CeilDivRoundsUp
<1>7. price * b >= m * b
  BY <1>3, <1>6, ProductGrows
<1>8. price * b >= cost * BPS
  <2>1. m * b \in Int /\ price * b \in Int
    BY <1>6
  <2> QED BY <1>2, <1>6, <1>7, <2>1
<1>9. price * (BPS - margin) >= cost * BPS
  BY <1>2, <1>8
<1>10. (price - cost) * BPS >= margin * price
  BY <1>1, <1>9
<1> QED BY <1>1, <1>10 DEF None

LEMMA MinimumGrows ==
    ASSUME NEW cost \in Nat, NEW higher \in Nat, NEW margin \in Int,
           cost <= higher, higher * BPS + BPS <= MaxInt,
           MinimumProfitablePrice(cost, margin) # None,
           MinimumProfitablePrice(higher, margin) # None
    PROVE  /\ MinimumProfitablePrice(cost, margin) \in Nat
           /\ MinimumProfitablePrice(higher, margin) \in Nat
           /\ MinimumProfitablePrice(cost, margin) <= MinimumProfitablePrice(higher, margin)
<1>1. margin \in 1..(BPS - 1) /\ BPS \in Nat
  BY ScaleAssumption DEF MinimumProfitablePrice
<1>2. PICK a, c \in Nat, b \in Nat \ {0} : /\ a = cost * BPS /\ c = higher * BPS
                                          /\ b = BPS - margin
  BY <1>1
<1>3. a <= c
  BY <1>1, <1>2, ProductGrows
<1>4. c + b - 1 <= MaxInt /\ a + b - 1 <= MaxInt
  BY <1>1, <1>2, <1>3, ScaleAssumption
<1>5. /\ MinimumProfitablePrice(cost, margin) = CeilDiv(a, b)
      /\ MinimumProfitablePrice(higher, margin) = CeilDiv(c, b)
  BY <1>2 DEF MinimumProfitablePrice
<1> QED BY <1>3, <1>4, <1>5, CeilDivRoundsUp, CeilDivGrows

(* The floor is at least the explicit minimum, and, where nothing           *)
(* overflows, at least what the margin asks for.                            *)
LEMMA FloorCovers ==
    ASSUME NEW cost \in Costs \cup {None}, NEW rule \in AllRules, NEW policy \in AllPolicies
    PROVE  /\ FloorOf(cost, rule, policy) \in Int
           /\ policy.minimum # None => FloorOf(cost, rule, policy) >= policy.minimum
           /\ MinimumProfitablePrice(cost, rule.margin) \in Nat =>
                 FloorOf(cost, rule, policy) >= MinimumProfitablePrice(cost, rule.margin)
<1>1. PICK m \in Int : m = MinimumProfitablePrice(cost, rule.margin)
  BY CostFields, RuleFields, MinimumType
<1>2. PICK i \in Int : i = IF policy.rounding > 0 THEN policy.rounding ELSE rule.rounding
  BY RuleFields, PolicyFields
<1>3. PICK k \in Int : k = RoundUp(m, i)
  BY RoundUpType
<1>4. FloorOf(cost, rule, policy) = IF policy.minimum # None THEN Larger(policy.minimum, k) ELSE k
  BY <1>1, <1>2, <1>3 DEF FloorOf, Floor
<1>5. m \in Nat => k >= m
  BY <1>3, RoundUpRaises
<1> QED BY <1>1, <1>4, <1>5, PolicyFields DEF Larger

LEMMA FloorGrows ==
    ASSUME AmountsInRange, NEW cost \in Costs, NEW higher \in Costs,
           NEW rule \in AllRules, NEW policy \in AllPolicies, cost <= higher,
           MinimumProfitablePrice(cost, rule.margin) # None,
           MinimumProfitablePrice(higher, rule.margin) # None
    PROVE  FloorOf(cost, rule, policy) <= FloorOf(higher, rule, policy)
<1>1. PICK m, n : /\ m = MinimumProfitablePrice(cost, rule.margin)
                  /\ n = MinimumProfitablePrice(higher, rule.margin)
  OBVIOUS
<1>2. m \in Nat /\ n \in Nat /\ m <= n
  <2>1. higher * BPS + BPS <= MaxInt
    BY DEF AmountsInRange
  <2> QED BY <1>1, <2>1, CostFields, RuleFields, MinimumGrows
<1>3. PICK i \in Int : i = IF policy.rounding > 0 THEN policy.rounding ELSE rule.rounding
  BY RuleFields, PolicyFields
<1>4. i * BPS <= MaxInt
  BY <1>3 DEF AmountsInRange, InRange, AllRules, AllPolicies
<1>5. PICK f \in Int : f = FloorOf(higher, rule, policy) /\ f >= n
  BY <1>1, <1>2, FloorCovers
<1>6. f * BPS <= MaxInt
  BY <1>5 DEF AmountsInRange, InRange, AllRules, AllPolicies, FloorOf
<1>7. BPS \in Nat /\ BPS > 1 /\ MaxInt \in Nat
  BY ScaleAssumption DEF AmountsInRange
<1>8. n * BPS <= MaxInt
  <2>1. n * BPS <= f * BPS
    BY <1>2, <1>5, <1>7, ProductGrows
  <2> QED BY <1>2, <1>5, <1>6, <1>7, <2>1
<1>9. n + i - 1 <= MaxInt
  <2>1. n * 2 <= n * BPS /\ n * BPS \in Nat
    BY <1>2, <1>7
  <2>2. CASE i >= 0
    <3>1. i * 2 <= i * BPS /\ i * BPS \in Nat
      BY <1>7, <2>2
    <3> QED BY <1>2, <1>4, <1>7, <1>8, <2>1, <3>1
  <2>3. CASE i < 0
    BY <1>2, <1>7, <1>8, <2>1, <2>3
  <2> QED BY <2>2, <2>3
<1>10. PICK k, l \in Int : k = RoundUp(m, i) /\ l = RoundUp(n, i)
  <2>1. RoundUp(m, i) \in Int /\ RoundUp(n, i) \in Int
    BY <1>2, RoundUpType
  <2> QED BY <2>1
<1>11. k <= l
  BY <1>2, <1>9, <1>10, RoundUpGrows
<1>12. /\ FloorOf(cost, rule, policy)
             = IF policy.minimum # None THEN Larger(policy.minimum, k) ELSE k
       /\ FloorOf(higher, rule, policy)
             = IF policy.minimum # None THEN Larger(policy.minimum, l) ELSE l
  BY <1>1, <1>3, <1>10 DEF FloorOf, Floor
<1> QED BY <1>11, <1>12, PolicyFields DEF Larger

-----------------------------------------------------------------------------
(* The change between two prices *)

(* A change that is not above a guardrail is within it, rounded down to a   *)
(* basis point, where its product fits.                                     *)
LEMMA ChangeWithin ==
    ASSUME NEW current \in Nat \ {0}, NEW desired \in Nat, NEW most \in Int,
           InRange(current), InRange(desired), ~(ChangeBPS(current, desired) > most)
    PROVE  Abs(desired - current) * BPS < (most + 1) * current
<1>1. BPS \in Nat /\ MaxInt \in Nat
  BY ScaleAssumption
<1>2. PICK d \in Nat : d = Abs(desired - current) /\ (d <= desired \/ d <= current)
  BY DEF Abs
<1>3. d * BPS \in Nat /\ d * BPS <= MaxInt
  BY <1>1, <1>2, ProductGrows DEF InRange
<1>4. PICK n \in Nat : n = d * BPS
  BY <1>3
<1>5. PICK q : q = n \div current
  OBVIOUS
<1>6. q \in Nat /\ n < (q + 1) * current
  BY <1>5, Quotient
<1>7. ChangeBPS(current, desired) = q
  BY <1>2, <1>3, <1>4, <1>5, WrapsNothing DEF ChangeBPS, GoDiv
<1>8. q + 1 <= most + 1 /\ q + 1 \in Nat /\ most + 1 \in Nat
  BY <1>6, <1>7
<1>9. (q + 1) * current <= (most + 1) * current
  BY <1>8, ProductGrows
<1> QED BY <1>2, <1>4, <1>6, <1>8, <1>9

-----------------------------------------------------------------------------
(* What an evaluation says *)

Highest(rule, policy) == SmallerBound(policy.maximum, rule.maximum)
PriceOf(l) == IF l.sale # None THEN l.sale ELSE l.regular

LEMMA EvaluationSays ==
    ASSUME NEW l, NEW cost, NEW rule, NEW policy, NEW held,
           NEW e, e = Evaluation(Item, l, cost, rule, policy, held)
    PROVE  /\ e # Refused =>
                /\ ~(PriceOf(l) <= 0)
                /\ MinimumProfitablePrice(cost, rule.margin) # None
                /\ ~(Highest(rule, policy) # None
                       /\ Highest(rule, policy) < FloorOf(cost, rule, policy))
           /\ (/\ ~(PriceOf(l) <= 0)
               /\ MinimumProfitablePrice(cost, rule.margin) # None
               /\ ~(Highest(rule, policy) # None
                      /\ Highest(rule, policy) < FloorOf(cost, rule, policy)))
              => /\ e.current = PriceOf(l)
                 /\ e.floor = FloorOf(cost, rule, policy)
                 /\ e.ceiling = Highest(rule, policy)
                 /\ e.guardrail = rule.change
                 /\ e.locked = LockSeen(held, Item)
<1>1. PICK in : in = [landed |-> cost, regular |-> l.regular, sale |-> l.sale,
               rule |-> rule, minimum |-> policy.minimum, maximum |-> policy.maximum,
               rounding |-> policy.rounding, locked |-> LockSeen(held, Item)]
  OBVIOUS
<1>2. e = Calculate(in)
  BY <1>1 DEF Evaluation
<1>3. /\ in.landed = cost /\ in.regular = l.regular /\ in.sale = l.sale
      /\ in.rule = rule /\ in.minimum = policy.minimum /\ in.maximum = policy.maximum
      /\ in.rounding = policy.rounding /\ in.locked = LockSeen(held, Item)
  BY <1>1
<1>4. Floor(in) = FloorOf(cost, rule, policy)
  BY <1>3 DEF FloorOf, Floor
<1>5. SmallerBound(in.maximum, in.rule.maximum) = Highest(rule, policy)
  BY <1>3 DEF Highest
<1>6. (IF in.sale # None THEN in.sale ELSE in.regular) = PriceOf(l)
  BY <1>3 DEF PriceOf
<1> QED BY <1>2, <1>3, <1>4, <1>5, <1>6 DEF Calculate

LEMMA HighestType ==
    ASSUME NEW rule \in AllRules, NEW policy \in AllPolicies
    PROVE  /\ Highest(rule, policy) \in Nat
           /\ \A n \in Nat : ~Exceeds(n, Highest(rule, policy)) =>
                 ~Exceeds(n, policy.maximum) /\ ~Exceeds(n, rule.maximum)
BY RuleFields, PolicyFields DEF Highest, SmallerBound, Exceeds, None

-----------------------------------------------------------------------------
(* The market *)

LEMMA LowestIsLeast ==
    ASSUME NEW signals, \A s \in signals : s.price \in Nat,
           NEW lowest, lowest = LowestConfirmedInStock(signals)
    PROVE  /\ lowest \in Nat
           /\ lowest # None => \E s \in signals : s.confident /\ s.price = lowest
           /\ \A s \in signals : s.price > 0 /\ s.confident =>
                 lowest # None /\ lowest <= s.price
<1>1. PICK trusted : trusted = {s.price : s \in {t \in signals : t.price > 0 /\ t.confident}}
  OBVIOUS
<1>2. trusted \in SUBSET Nat /\ \A n \in trusted : n > 0
  BY <1>1
<1>3. CASE trusted = {}
  BY <1>1, <1>3 DEF LowestConfirmedInStock, None
<1>4. CASE trusted # {}
  <2>1. \E n \in trusted : \A m \in trusted : n <= m
    BY <1>2, <1>4, Least
  <2>2. lowest = CHOOSE p \in trusted : \A q \in trusted : p <= q
    BY <1>1, <1>4 DEF LowestConfirmedInStock
  <2>3. lowest \in trusted /\ \A q \in trusted : lowest <= q
    BY <2>1, <2>2
  <2> QED BY <1>1, <1>2, <2>3 DEF None
<1> QED BY <1>3, <1>4

LEMMA SeenLowest ==
    ASSUME market \in [Competitors -> Observations \cup {NoObservation}],
           NEW lowest, lowest = LowestConfirmedInStock(UsableSignals(Seen))
    PROVE  /\ lowest \in Nat
           /\ lowest # None => \E o \in Seen : Usable(o) /\ o.price = lowest
           /\ \A o \in Seen : Usable(o) => lowest # None /\ lowest <= o.price
<1>1. Seen \subseteq Observations
  BY DEF Seen
<1>2. PICK signals : signals = UsableSignals(Seen)
  OBVIOUS
<1>3. signals = {[price |-> o.price, confident |-> o.confident] : o \in {p \in Seen : Usable(p)}}
  BY <1>2 DEF UsableSignals
<1>4. \A s \in signals : /\ s.price \in Nat
                         /\ \E o \in Seen : Usable(o) /\ o.price = s.price
  BY <1>1, <1>3, TermsAssumption
<1>5. \A o \in Seen : Usable(o) =>
         \E s \in signals : s.price = o.price /\ s.price > 0 /\ s.confident
  <2> SUFFICES ASSUME NEW o \in Seen, Usable(o)
               PROVE  \E s \in signals : s.price = o.price /\ s.price > 0 /\ s.confident
    OBVIOUS
  <2>1. PICK s : s = [price |-> o.price, confident |-> o.confident]
    OBVIOUS
  <2>2. s \in signals
    BY <1>3, <2>1
  <2> QED BY <2>1, <2>2 DEF Usable
<1>6. /\ lowest \in Nat
      /\ lowest # None => \E s \in signals : s.confident /\ s.price = lowest
      /\ \A s \in signals : s.price > 0 /\ s.confident =>
            lowest # None /\ lowest <= s.price
  BY <1>2, <1>4, LowestIsLeast
<1> QED BY <1>4, <1>5, <1>6

LEMMA FreshMarket ==
    CompetitorDataFresh(Seen) => (Seen # {} => \E o \in Seen : Usable(o))
BY DEF CompetitorDataFresh, UsableSignals

-----------------------------------------------------------------------------
(* What the engine decides *)

LEMMA EngineDecides ==
    ASSUME NEW in, in.current \in Nat \ {0}, in.floor \in Int,
           NEW lowest \in Nat, lowest = LowestConfirmedInStock(in.signals),
           NEW d, d = Engine(in)
    PROVE  /\ d.state \in RecommendationStates /\ d.recommended \in Nat \ {0}
           /\ d.state = "raise" =>
                 /\ ~in.locked /\ in.fresh /\ in.current < in.floor
                 /\ d.recommended = in.floor
                 /\ ~Exceeds(in.floor, in.ceiling)
                 /\ ~(ChangeBPS(in.current, in.floor) > in.guardrail)
           /\ d.state = "lower" =>
                 /\ ~in.locked /\ in.fresh /\ in.floor <= in.current
                 /\ lowest # None /\ lowest < in.current /\ in.floor <= lowest
                 /\ d.recommended = lowest
                 /\ ~Exceeds(lowest, in.ceiling)
                 /\ ~(ChangeBPS(in.current, lowest) > in.guardrail)
<1>1. CASE in.locked
  BY <1>1 DEF Engine, Decision, RecommendationStates, Actionable
<1>2. CASE ~in.locked /\ ~in.fresh
  BY <1>2 DEF Engine, Decision, RecommendationStates, Actionable
<1>3. CASE ~in.locked /\ in.fresh /\ in.current < in.floor
  <2>1. d = RaiseToFloor(in)
    BY <1>3 DEF Engine
  <2> QED BY <1>3, <2>1 DEF RaiseToFloor, Decision, RecommendationStates, Actionable
<1>4. CASE /\ ~in.locked /\ in.fresh /\ ~(in.current < in.floor)
           /\ lowest # None /\ in.current > lowest
  <2>1. d = FollowMarket(in, lowest)
    BY <1>4 DEF Engine
  <2> QED BY <1>4, <2>1 DEF FollowMarket, Decision, RecommendationStates, Actionable, None
<1>5. CASE /\ ~in.locked /\ in.fresh /\ ~(in.current < in.floor)
           /\ ~(lowest # None /\ in.current > lowest)
  <2>1. d = Decision("hold", in.current)
    BY <1>5 DEF Engine
  <2> QED BY <2>1 DEF Decision, RecommendationStates, Actionable
<1> QED BY <1>1, <1>2, <1>3, <1>4, <1>5

(* A higher floor, all else equal, never yields a lower price.              *)
LEMMA EngineGrows ==
    ASSUME NEW in, NEW up, in.current \in Nat \ {0}, in.floor \in Int, up.floor \in Int,
           in.floor <= up.floor, up.current = in.current, up.ceiling = in.ceiling,
           up.guardrail = in.guardrail, up.locked = in.locked, up.fresh = in.fresh,
           up.signals = in.signals,
           NEW lowest \in Nat, lowest = LowestConfirmedInStock(in.signals)
    PROVE  /\ Engine(up).recommended >= Engine(in).recommended
           /\ Engine(up).state = "lower" => Engine(in).state = "lower"
<1>1. PICK d, e : d = Engine(in) /\ e = Engine(up)
  OBVIOUS
<1>2. CASE in.locked \/ ~in.fresh
  BY <1>2 DEF Engine, Decision
<1>3. CASE ~in.locked /\ in.fresh /\ in.current < in.floor
  <2>1. Engine(in) = RaiseToFloor(in) /\ Engine(up) = RaiseToFloor(up)
    BY <1>3 DEF Engine
  <2> QED BY <1>3, <2>1 DEF RaiseToFloor, Decision
<1>4. CASE ~in.locked /\ in.fresh /\ ~(in.current < in.floor) /\ in.current < up.floor
  <2>1. Engine(up) = RaiseToFloor(up)
    BY <1>4 DEF Engine
  <2>2. Engine(in).recommended <= in.current /\ Engine(in).recommended \in Nat
    BY <1>4 DEF Engine, FollowMarket, Decision
  <2> QED BY <1>4, <2>1, <2>2 DEF RaiseToFloor, Decision
<1>5. CASE ~in.locked /\ in.fresh /\ ~(in.current < in.floor) /\ ~(in.current < up.floor)
  <2>1. CASE lowest # None /\ in.current > lowest
    <3>1. Engine(in) = FollowMarket(in, lowest) /\ Engine(up) = FollowMarket(up, lowest)
      BY <1>5, <2>1 DEF Engine
    <3> QED BY <1>5, <2>1, <3>1 DEF FollowMarket, Decision
  <2>2. CASE ~(lowest # None /\ in.current > lowest)
    BY <1>5, <2>2 DEF Engine, Decision
  <2> QED BY <2>1, <2>2
<1> QED BY <1>2, <1>3, <1>4, <1>5

-----------------------------------------------------------------------------
(* Which rule decides *)

LEMMA Ranks == \A scope \in DOMAIN Rank : Rank[scope] \in Nat
BY DEF Rank

(* SelectRule leaves one of the most specific rules, and none only of none. *)
LEMMA SelectedRule ==
    ASSUME NEW R,
           \A r \in R : /\ r.scope \in DOMAIN Rank
                       /\ r.priority \in Int /\ r.priority >= -MaxInt - 1,
           NEW p \in SelectRule(R)
    PROVE  IF R = {} THEN p = NoRule
           ELSE p \in R /\ \A q \in R : Rank[p.scope] <= Rank[q.scope]
<1>1. CASE R = {}
  BY <1>1 DEF SelectRule
<1>2. CASE R # {}
  <2>1. \A r \in R : Rank[r.scope] \in Nat
    BY Ranks
  <2>2. PICK a \in R : \A q \in R : Rank[a.scope] <= Rank[q.scope]
    <3>1. PICK S \in SUBSET Nat : S = {Rank[r.scope] : r \in R}
      BY <2>1
    <3>2. S # {}
      BY <1>2, <3>1
    <3>3. PICK n \in S : \A m \in S : n <= m
      BY <3>2, Least
    <3> QED BY <3>1, <3>3
  <2>3. PICK T : T = {r \in R : Rank[r.scope] = Rank[a.scope]}
    OBVIOUS
  <2>4. PICK b \in T : \A q \in T : b.priority <= q.priority
    <3>1. \A r \in T : r.priority + MaxInt + 1 \in Nat
      BY <2>3, ScaleAssumption
    <3>2. PICK S \in SUBSET Nat : S = {r.priority + MaxInt + 1 : r \in T}
      BY <3>1
    <3>3. S # {}
      BY <2>2, <2>3, <3>2
    <3>4. PICK n \in S : \A m \in S : n <= m
      BY <3>3, Least
    <3>5. PICK r \in T : n = r.priority + MaxInt + 1
      BY <3>2, <3>4
    <3>6. \A q \in T : r.priority + MaxInt + 1 <= q.priority + MaxInt + 1
      BY <3>2, <3>4, <3>5
    <3> QED BY <2>3, <3>5, <3>6, ScaleAssumption
  <2>5. b \in R /\ \A q \in R : Precedes(b, q)
    BY <2>1, <2>2, <2>3, <2>4 DEF Precedes
  <2>6. p \in R /\ \A q \in R : Precedes(p, q)
    BY <2>5 DEF SelectRule
  <2> QED BY <1>2, <2>1, <2>6 DEF Precedes
<1> QED BY <1>1, <1>2

LEMMA SelectionTypes ==
    ASSUME NEW l
    PROVE  /\ RulesFor(rules, Item, l) \subseteq rules \cup {NoRule}
           /\ PoliciesFor(policies, Item) \subseteq policies \cup {NoPolicy}
BY DEF RulesFor, PoliciesFor, SelectRule, SelectPolicy

-----------------------------------------------------------------------------
(* The invariant: a decision is the engine's, on the terms of now.          *)

RecIsCurrent ==
    rec # NoDecision =>
        /\ rec.rule \in RulesFor(rules, Item, listing)
        /\ rec.policy \in PoliciesFor(policies, Item)
        /\ Evaluation(Item, listing, landed, rec.rule, rec.policy, locks) # Refused
        /\ rec.state = Decide(listing, landed, rec.rule, rec.policy).state
        /\ rec.recommended = Decide(listing, landed, rec.rule, rec.policy).recommended

IInv == TypeOK /\ RecIsCurrent

(* What the engine is given for the listing as it is.                       *)
LEMMA InputSays ==
    ASSUME TypeOK, NEW cost \in Costs \cup {None},
           NEW rule \in AllRules, NEW policy \in AllPolicies,
           NEW e, e = Evaluation(Item, listing, cost, rule, policy, locks), e # Refused,
           NEW in, in = Input(e, Seen)
    PROVE  /\ in.current \in Nat \ {0} /\ in.current = Current
           /\ in.floor \in Int /\ in.floor = FloorOf(cost, rule, policy)
           /\ MinimumProfitablePrice(cost, rule.margin) # None
           /\ ~(Highest(rule, policy) # None
                  /\ Highest(rule, policy) < FloorOf(cost, rule, policy))
           /\ in.ceiling = Highest(rule, policy) /\ in.guardrail = rule.change
           /\ in.locked = LockSeen(locks, Item)
           /\ in.fresh = CompetitorDataFresh(Seen) /\ in.signals = UsableSignals(Seen)
<1>1. Current \in Nat /\ PriceOf(listing) = Current
  BY DEF TypeOK, Listed, Current, PriceOf
<1>2. /\ ~(PriceOf(listing) <= 0)
      /\ MinimumProfitablePrice(cost, rule.margin) # None
      /\ ~(Highest(rule, policy) # None
             /\ Highest(rule, policy) < FloorOf(cost, rule, policy))
      /\ e.current = PriceOf(listing)
      /\ e.floor = FloorOf(cost, rule, policy)
      /\ e.ceiling = Highest(rule, policy)
      /\ e.guardrail = rule.change
      /\ e.locked = LockSeen(locks, Item)
  BY EvaluationSays
<1>3. /\ in.current = e.current /\ in.floor = e.floor /\ in.ceiling = e.ceiling
      /\ in.guardrail = e.guardrail /\ in.locked = e.locked
      /\ in.fresh = CompetitorDataFresh(Seen) /\ in.signals = UsableSignals(Seen)
  BY DEF Input
<1> QED BY <1>1, <1>2, <1>3, FloorCovers

LEMMA GenerateOK ==
    ASSUME IInv, Generate PROVE IInv'
<1>1. PICK rule \in RulesFor(rules, Item, listing), policy \in PoliciesFor(policies, Item) :
        /\ Evaluation(Item, listing, landed, rule, policy, locks) # Refused
        /\ rec' = [state |-> Decide(listing, landed, rule, policy).state,
                   recommended |-> Decide(listing, landed, rule, policy).recommended,
                   rule |-> rule, policy |-> policy]
        /\ UNCHANGED <<listing, terms, market>>
  BY DEF Generate, Decide
<1>2. /\ rule \in rules \cup {NoRule} /\ policy \in policies \cup {NoPolicy}
      /\ rule \in AllRules /\ policy \in AllPolicies /\ landed \in Costs \cup {None}
  BY <1>1, SelectionTypes DEF IInv, TypeOK, AllRules, AllPolicies
<1>3. PICK e : e = Evaluation(Item, listing, landed, rule, policy, locks)
  OBVIOUS
<1>4. PICK in : in = Input(e, Seen)
  OBVIOUS
<1>5. /\ in.current \in Nat \ {0} /\ in.floor \in Int /\ in.signals = UsableSignals(Seen)
  BY <1>1, <1>2, <1>3, <1>4, InputSays DEF IInv
<1>6. PICK lowest \in Nat : lowest = LowestConfirmedInStock(in.signals)
  <2>1. market \in [Competitors -> Observations \cup {NoObservation}]
    BY DEF IInv, TypeOK
  <2> QED BY <1>5, <2>1, SeenLowest
<1>7. PICK d : d = Engine(in)
  OBVIOUS
<1>8. d.state \in RecommendationStates /\ d.recommended \in Nat \ {0}
  BY <1>5, <1>6, <1>7, EngineDecides
<1>9. /\ rec'.state = d.state /\ rec'.recommended = d.recommended
      /\ rec'.rule = rule /\ rec'.policy = policy
      /\ d = Decide(listing, landed, rule, policy)
  BY <1>1, <1>3, <1>4, <1>7 DEF Decide
<1>10. UNCHANGED <<listing, landed, rules, policies, locks, market>> /\ Seen' = Seen
  BY <1>1 DEF terms, Seen
<1>11. TypeOK'
  BY <1>2, <1>8, <1>9, <1>10 DEF IInv, TypeOK
<1>12. RecIsCurrent'
  <2>1. Decide(listing, landed, rule, policy)' = Decide(listing, landed, rule, policy)
    BY <1>10 DEF Decide
  <2> QED BY <1>1, <1>9, <1>10, <2>1 DEF RecIsCurrent
<1> QED BY <1>11, <1>12 DEF IInv

LEMMA AcceptOK ==
    ASSUME IInv, Accept PROVE IInv'
<1>1. /\ rec.state \in Actionable /\ rec' = NoDecision
      /\ listing' = [listing EXCEPT !.regular = rec.recommended]
      /\ UNCHANGED <<landed, rules, policies, locks, market>>
  BY DEF Accept, terms
<1>2. rec # NoDecision
  BY <1>1 DEF NoDecision, Actionable
<1>3. rec.recommended \in Nat
  BY <1>2 DEF IInv, TypeOK
<1>4. listing' \in Listed
  BY <1>1, <1>3 DEF IInv, TypeOK, Listed
<1> QED BY <1>1, <1>4 DEF IInv, TypeOK, RecIsCurrent

(* The terms change, and a new decision is waited for.                      *)
LEMMA EditOK ==
    ASSUME IInv, rec' = NoDecision,
           listing' \in Listed,
           landed' \in Costs \cup {None}, rules' \subseteq RuleBook,
           policies' \subseteq PolicyBook,
           \A p, q \in policies' : SameTarget(p, q) => p = q,
           locks' \subseteq LockBook,
           market' \in [Competitors -> Observations \cup {NoObservation}]
    PROVE  IInv'
BY DEF IInv, TypeOK, RecIsCurrent

LEMMA NextOK ==
    ASSUME IInv, [Next]_vars PROVE IInv'
<1> USE DEF IInv, TypeOK, terms
<1>1. CASE Generate
  BY <1>1, GenerateOK
<1>2. CASE Accept
  BY <1>2, AcceptOK
<1>3. CASE SyncListing
  <2>1. listing' \in Listed
    BY <1>3, TermsAssumption DEF SyncListing
  <2> QED BY <1>3, <2>1, EditOK DEF SyncListing
<1>4. CASE SetCost
  BY <1>4, EditOK DEF SetCost
<1>5. ASSUME NEW file \in Files, ImportCosts(file) PROVE IInv'
  BY <1>5, EditOK, TermsAssumption DEF ImportCosts
<1>6. ASSUME NEW c \in Competitors, Observe(c) PROVE IInv'
  BY <1>6, EditOK DEF Observe
<1>7. ASSUME NEW r \in RuleBook, ActivateRule(r) PROVE IInv'
  BY <1>7, EditOK DEF ActivateRule
<1>8. ASSUME NEW r \in RuleBook, RetireRule(r) PROVE IInv'
  BY <1>8, EditOK DEF RetireRule
<1>9. ASSUME NEW p \in PolicyBook, UpsertPolicy(p) PROVE IInv'
  <2>1. \A q, r \in policies' : SameTarget(q, r) => q = r
    BY <1>9 DEF UpsertPolicy, SameTarget
  <2> QED BY <1>9, <2>1, EditOK DEF UpsertPolicy
<1>10. ASSUME NEW l \in LockBook, SetLock(l) PROVE IInv'
  BY <1>10, EditOK DEF SetLock
<1>11. CASE UNCHANGED vars
  <2>1. UNCHANGED <<listing, landed, rules, policies, locks, market, rec>>
    BY <1>11 DEF vars
  <2>2. TypeOK'
    BY <2>1
  <2>3. RecIsCurrent'
    BY <2>1 DEF RecIsCurrent, Decide, Seen
  <2> QED BY <2>2, <2>3
<1> QED BY <1>1, <1>2, <1>3, <1>4, <1>5, <1>6, <1>7, <1>8, <1>9, <1>10, <1>11 DEF Next

LEMMA InitOK ==
    ASSUME Init PROVE IInv
<1>1. listing \in Listed
  BY TermsAssumption DEF Init
<1>2. market \in [Competitors -> Observations \cup {NoObservation}]
  BY DEF Init
<1> QED BY <1>1, <1>2 DEF Init, IInv, TypeOK, RecIsCurrent

(* The terms keep their types, and every decision is the engine's on them.  *)
THEOREM Invariance == Spec => []IInv
<1>1. Init => IInv
  BY InitOK
<1>2. IInv /\ [Next]_vars => IInv'
  BY NextOK
<1> QED BY <1>1, <1>2, PTL DEF Spec

(* Each target has one policy, and the engine answers within its states     *)
(* with a positive price, even where the arithmetic overflows.              *)
THEOREM TypeCorrect == Spec => []TypeOK
<1>1. IInv => TypeOK
  BY DEF IInv
<1> QED BY <1>1, Invariance, PTL

-----------------------------------------------------------------------------
(* An actionable recommendation *)

(* What stands behind one: the engine's input, and what it decides on.      *)
LEMMA ActionableSays ==
    ASSUME IInv, rec.state \in Actionable,
           NEW lowest, lowest = LowestConfirmedInStock(UsableSignals(Seen))
    PROVE  /\ rec # NoDecision
           /\ rec.rule \in AllRules /\ rec.policy \in AllPolicies
           /\ landed \in Costs
           /\ Current \in Nat \ {0} /\ rec.recommended \in Nat \ {0} /\ lowest \in Nat
           /\ MinimumProfitablePrice(landed, rec.rule.margin) # None
           /\ ~(Highest(rec.rule, rec.policy) # None
                  /\ Highest(rec.rule, rec.policy) < FloorOf(landed, rec.rule, rec.policy))
           /\ ~LockSeen(locks, Item) /\ CompetitorDataFresh(Seen)
           /\ ~Exceeds(rec.recommended, Highest(rec.rule, rec.policy))
           /\ ~(ChangeBPS(Current, rec.recommended) > rec.rule.change)
           /\ FloorOf(landed, rec.rule, rec.policy) <= rec.recommended
           /\ rec.state = "raise" =>
                 /\ rec.recommended = FloorOf(landed, rec.rule, rec.policy)
                 /\ Current < rec.recommended
           /\ rec.state = "lower" =>
                 /\ rec.recommended = lowest /\ lowest # None
                 /\ rec.recommended < Current
<1>1. rec # NoDecision
  BY DEF NoDecision, Actionable
<1>2. PICK rule, policy : rule = rec.rule /\ policy = rec.policy
  OBVIOUS
<1>3. PICK e : e = Evaluation(Item, listing, landed, rule, policy, locks)
  OBVIOUS
<1>4. PICK in : in = Input(e, Seen)
  OBVIOUS
<1>5. PICK d : d = Engine(in)
  OBVIOUS
<1>6. /\ rule \in RulesFor(rules, Item, listing) /\ policy \in PoliciesFor(policies, Item)
      /\ e # Refused /\ rec.state = d.state /\ rec.recommended = d.recommended
  BY <1>1, <1>2, <1>3, <1>4, <1>5 DEF IInv, RecIsCurrent, Decide
<1>7. /\ rule \in AllRules /\ policy \in AllPolicies /\ landed \in Costs \cup {None}
  BY <1>6, SelectionTypes DEF IInv, TypeOK, AllRules, AllPolicies
<1>8. /\ in.current \in Nat \ {0} /\ in.current = Current
      /\ in.floor \in Int /\ in.floor = FloorOf(landed, rule, policy)
      /\ MinimumProfitablePrice(landed, rule.margin) # None
      /\ ~(Highest(rule, policy) # None
             /\ Highest(rule, policy) < FloorOf(landed, rule, policy))
      /\ in.ceiling = Highest(rule, policy) /\ in.guardrail = rule.change
      /\ in.locked = LockSeen(locks, Item)
      /\ in.fresh = CompetitorDataFresh(Seen) /\ in.signals = UsableSignals(Seen)
  BY <1>3, <1>4, <1>6, <1>7, InputSays DEF IInv
<1>9. lowest \in Nat
  BY SeenLowest DEF IInv, TypeOK
<1>10. /\ d.recommended \in Nat \ {0}
       /\ d.state = "raise" =>
             /\ ~in.locked /\ in.fresh /\ in.current < in.floor
             /\ d.recommended = in.floor
             /\ ~Exceeds(in.floor, in.ceiling)
             /\ ~(ChangeBPS(in.current, in.floor) > in.guardrail)
       /\ d.state = "lower" =>
             /\ ~in.locked /\ in.fresh /\ in.floor <= in.current
             /\ lowest # None /\ lowest < in.current /\ in.floor <= lowest
             /\ d.recommended = lowest
             /\ ~Exceeds(lowest, in.ceiling)
             /\ ~(ChangeBPS(in.current, lowest) > in.guardrail)
  BY <1>5, <1>8, <1>9, EngineDecides
<1>11. d.state = "raise" \/ d.state = "lower"
  BY <1>6 DEF Actionable
<1>12. landed \in Costs
  BY <1>7, <1>8 DEF MinimumProfitablePrice, None
<1>13. in.floor <= d.recommended
  BY <1>8, <1>10, <1>11
<1> QED BY <1>1, <1>2, <1>6, <1>7, <1>8, <1>9, <1>10, <1>11, <1>12, <1>13

(* The listed prices stay within the range the listings start in.           *)
ListingInRange == InRange(listing.regular) /\ InRange(listing.sale)

LEMMA RecommendedInRange ==
    ASSUME AmountsInRange, IInv, ListingInRange, rec.state \in Actionable
    PROVE  InRange(rec.recommended) /\ InRange(Current)
<1>1. PICK lowest : lowest = LowestConfirmedInStock(UsableSignals(Seen))
  OBVIOUS
<1>2. InRange(Current)
  BY DEF ListingInRange, Current
<1>3. CASE rec.state = "raise"
  <2>1. /\ rec.rule \in AllRules /\ rec.policy \in AllPolicies /\ landed \in Costs
        /\ rec.recommended = FloorOf(landed, rec.rule, rec.policy)
    BY <1>1, <1>3, ActionableSays
  <2>2. PICK r \in AllRules, p \in AllPolicies, c \in Costs :
          r = rec.rule /\ p = rec.policy /\ c = landed
    BY <2>1
  <2>3. InRange(FloorOf(c, r, p))
    BY DEF AmountsInRange, AllRules, AllPolicies, FloorOf
  <2> QED BY <1>2, <2>1, <2>2, <2>3
<1>4. CASE rec.state = "lower"
  <2>1. rec.recommended \in Nat /\ Current \in Nat /\ rec.recommended < Current
    BY <1>1, <1>4, ActionableSays
  <2>2. BPS \in Nat /\ MaxInt \in Nat
    BY ScaleAssumption
  <2>3. PICK a, b \in Nat : a = rec.recommended /\ b = Current
    BY <2>1
  <2>4. a * BPS <= b * BPS /\ a * BPS \in Nat /\ b * BPS \in Nat
    BY <2>1, <2>2, <2>3, ProductGrows
  <2>5. b * BPS <= MaxInt
    BY <1>2, <2>3 DEF InRange
  <2>6. InRange(a)
    BY <2>2, <2>4, <2>5 DEF InRange
  <2> QED BY <1>2, <2>3, <2>6
<1> QED BY <1>3, <1>4 DEF Actionable

LEMMA ListingKeepsRange ==
    ASSUME AmountsInRange, IInv, ListingInRange, [Next]_vars
    PROVE  ListingInRange'
<1>1. CASE UNCHANGED listing
  BY <1>1 DEF ListingInRange
<1>2. CASE SyncListing
  BY <1>2 DEF SyncListing, ListingInRange, AmountsInRange
<1>3. CASE Accept
  <2>1. InRange(rec.recommended)
    BY <1>3, RecommendedInRange DEF Accept
  <2>2. PICK l \in Listed : l = listing
    BY DEF IInv, TypeOK
  <2>3. listing' = [l EXCEPT !.regular = rec.recommended]
    BY <1>3, <2>2 DEF Accept
  <2>4. listing'.regular = rec.recommended /\ listing'.sale = l.sale
    BY <2>3
  <2> QED BY <2>1, <2>2, <2>4 DEF ListingInRange
<1> QED BY <1>1, <1>2, <1>3 DEF Next, vars, Generate, SetCost, ImportCosts, Observe,
           ActivateRule, RetireRule, UpsertPolicy, SetLock

(* The rule behind a decision is one of the most specific that match.       *)
LEMMA MostSpecificDecides ==
    ASSUME IInv, rec # NoDecision
    PROVE  IF Matching = {} THEN rec.rule = NoRule ELSE rec.rule \in Deciding
<1>1. rec.rule \in SelectRule(Matching)
  BY DEF IInv, RecIsCurrent, RulesFor, Matching
<1>2. \A r \in Matching : /\ r.scope \in DOMAIN Rank
                          /\ r.priority \in Int /\ r.priority >= -MaxInt - 1
  <2>1. \A r \in Matching : r \in RuleBook /\ Applies(r, Item)
    BY DEF Matching, IInv, TypeOK
  <2>2. \A r : Applies(r, Item) => r.scope \in DOMAIN Rank
    BY DEF Applies, Target, Rank
  <2> QED BY <2>1, <2>2, TermsAssumption
<1>3. PICK R, p : R = Matching /\ p = rec.rule
  OBVIOUS
<1>4. IF R = {} THEN p = NoRule
      ELSE p \in R /\ \A q \in R : Rank[p.scope] <= Rank[q.scope]
  BY <1>1, <1>2, <1>3, SelectedRule
<1> QED BY <1>3, <1>4 DEF Deciding

LEMMA SafeOnInvariant ==
    ASSUME AmountsInRange, IInv, ListingInRange PROVE ActionableIsSafe
<1> SUFFICES ASSUME rec.state \in Actionable PROVE ActionableIsSafe
  BY DEF ActionableIsSafe
<1>1. PICK lowest : lowest = LowestConfirmedInStock(UsableSignals(Seen))
  OBVIOUS
<1>2. PICK rule \in AllRules, policy \in AllPolicies, cost \in Costs :
        rule = rec.rule /\ policy = rec.policy /\ cost = landed
  BY <1>1, ActionableSays
<1>3. PICK current, price \in Nat \ {0} : current = Current /\ price = rec.recommended
  BY <1>1, ActionableSays
<1>4. /\ MinimumProfitablePrice(cost, rule.margin) # None
      /\ CompetitorDataFresh(Seen)
      /\ ~Exceeds(price, Highest(rule, policy))
      /\ ~(ChangeBPS(current, price) > rule.change)
      /\ FloorOf(cost, rule, policy) <= price
      /\ rec.state = "lower" => price = lowest /\ lowest # None /\ price < current
      /\ rec # NoDecision
  BY <1>1, <1>2, <1>3, ActionableSays
<1>5. cost \in Nat /\ cost # None /\ (price - cost) * BPS >= rule.margin * price
  <2>1. cost * BPS + BPS <= MaxInt
    BY DEF AmountsInRange
  <2>2. cost \in Nat /\ rule.margin \in Int
    BY CostFields, RuleFields
  <2>3. PICK m \in Int : m = MinimumProfitablePrice(cost, rule.margin)
    BY <2>2, MinimumType
  <2>4. PICK f \in Int : f = FloorOf(cost, rule, policy)
    BY FloorCovers
  <2>5. m \in Nat => f >= m
    BY <2>3, <2>4, FloorCovers
  <2>6. price >= m
    BY <1>4, <2>3, <2>4, <2>5
  <2> QED BY <1>4, <2>1, <2>2, <2>3, <2>6, MinimumEarnsMargin
<1>6. price >= policy.minimum
  <2>1. PICK f \in Int : f = FloorOf(cost, rule, policy)
    BY FloorCovers
  <2>2. policy.minimum # None => f >= policy.minimum
    BY <2>1, FloorCovers
  <2> QED BY <1>4, <2>1, <2>2, PolicyFields DEF None
<1>7. ~Exceeds(price, policy.maximum) /\ ~Exceeds(price, rule.maximum)
  BY <1>4, HighestType
<1>8. Abs(price - current) * BPS < (rule.change + 1) * current
  <2>1. InRange(current) /\ InRange(price)
    BY <1>3, RecommendedInRange
  <2> QED BY <1>4, <2>1, RuleFields, ChangeWithin
<1>9. Seen # {} => \E o \in Seen : Usable(o)
  BY <1>4, FreshMarket
<1>10. rec.state = "lower" =>
         /\ price < current
         /\ \E o \in Seen : Usable(o) /\ o.price = price
         /\ \A o \in Seen : Usable(o) => o.price >= price
  <2> SUFFICES ASSUME rec.state = "lower"
               PROVE  /\ price < current
                      /\ \E o \in Seen : Usable(o) /\ o.price = price
                      /\ \A o \in Seen : Usable(o) => o.price >= price
    OBVIOUS
  <2>1. market \in [Competitors -> Observations \cup {NoObservation}]
    BY DEF IInv, TypeOK
  <2>2. /\ \E o \in Seen : Usable(o) /\ o.price = lowest
        /\ \A o \in Seen : Usable(o) => lowest <= o.price
    BY <1>1, <1>4, <2>1, SeenLowest
  <2>3. \A o \in Seen : o.price \in Nat
    BY <2>1, TermsAssumption DEF Seen
  <2> QED BY <1>4, <2>2, <2>3
<1>11. IF Matching = {} THEN rec.rule = NoRule ELSE rec.rule \in Deciding
  BY <1>4, MostSpecificDecides
<1> QED BY <1>2, <1>3, <1>5, <1>6, <1>7, <1>8, <1>9, <1>10, <1>11 DEF ActionableIsSafe

(* Where nothing overflows, a price the engine asks for is above the floor, *)
(* within the bounds and the guardrail, and rests on usable data.           *)
THEOREM RecommendationsAreSafe ==
    ASSUME AmountsInRange PROVE Spec => []ActionableIsSafe
<1>1. Init => ListingInRange
  BY DEF Init, ListingInRange, AmountsInRange
<1>2. IInv /\ ListingInRange /\ [Next]_vars => ListingInRange'
  BY ListingKeepsRange
<1>3. IInv /\ ListingInRange => ActionableIsSafe
  BY SafeOnInvariant
<1> QED BY <1>1, <1>2, <1>3, Invariance, PTL DEF Spec

-----------------------------------------------------------------------------
(* Costs *)

LEMMA MonotoneOnInvariant ==
    ASSUME AmountsInRange, IInv PROVE CostIsMonotone
<1> SUFFICES ASSUME rec # NoDecision, NEW higher \in Costs, higher >= landed,
                    Evaluation(Item, listing, higher, rec.rule, rec.policy, locks) # Refused
             PROVE  /\ Decide(listing, higher, rec.rule, rec.policy).recommended
                          >= rec.recommended
                    /\ Decide(listing, higher, rec.rule, rec.policy).state = "lower"
                          => rec.state = "lower"
  BY DEF CostIsMonotone, Decide
<1>1. PICK rule, policy : rule = rec.rule /\ policy = rec.policy
  OBVIOUS
<1>2. PICK e, up : /\ e = Evaluation(Item, listing, landed, rule, policy, locks)
                   /\ up = Evaluation(Item, listing, higher, rule, policy, locks)
  OBVIOUS
<1>3. PICK in, more : in = Input(e, Seen) /\ more = Input(up, Seen)
  OBVIOUS
<1>4. /\ rule \in RulesFor(rules, Item, listing) /\ policy \in PoliciesFor(policies, Item)
      /\ e # Refused /\ up # Refused
      /\ rec.state = Engine(in).state /\ rec.recommended = Engine(in).recommended
  BY <1>1, <1>2, <1>3 DEF IInv, RecIsCurrent, Decide
<1>5. /\ rule \in AllRules /\ policy \in AllPolicies
      /\ landed \in Costs \cup {None} /\ higher \in Costs \cup {None}
  BY <1>4, SelectionTypes DEF IInv, TypeOK, AllRules, AllPolicies
<1>6. /\ in.current \in Nat \ {0} /\ in.current = Current
      /\ in.floor \in Int /\ in.floor = FloorOf(landed, rule, policy)
      /\ MinimumProfitablePrice(landed, rule.margin) # None
      /\ in.ceiling = Highest(rule, policy) /\ in.guardrail = rule.change
      /\ in.locked = LockSeen(locks, Item)
      /\ in.fresh = CompetitorDataFresh(Seen) /\ in.signals = UsableSignals(Seen)
  BY <1>2, <1>3, <1>4, <1>5, InputSays DEF IInv
<1>7. /\ more.current = Current
      /\ more.floor \in Int /\ more.floor = FloorOf(higher, rule, policy)
      /\ MinimumProfitablePrice(higher, rule.margin) # None
      /\ more.ceiling = Highest(rule, policy) /\ more.guardrail = rule.change
      /\ more.locked = LockSeen(locks, Item)
      /\ more.fresh = CompetitorDataFresh(Seen) /\ more.signals = UsableSignals(Seen)
  BY <1>2, <1>3, <1>4, <1>5, InputSays DEF IInv
<1>8. in.floor <= more.floor
  <2>1. PICK cost \in Costs : cost = landed
    BY <1>5, <1>6 DEF MinimumProfitablePrice, None
  <2>2. cost <= higher
    BY <2>1, CostFields
  <2>3. FloorOf(cost, rule, policy) <= FloorOf(higher, rule, policy)
    BY <1>5, <1>6, <1>7, <2>1, <2>2, FloorGrows
  <2> QED BY <1>6, <1>7, <2>1, <2>3
<1>9. PICK lowest \in Nat : lowest = LowestConfirmedInStock(in.signals)
  <2>1. market \in [Competitors -> Observations \cup {NoObservation}]
    BY DEF IInv, TypeOK
  <2> QED BY <1>6, <2>1, SeenLowest
<1>10. /\ Engine(more).recommended >= Engine(in).recommended
       /\ Engine(more).state = "lower" => Engine(in).state = "lower"
  BY <1>6, <1>7, <1>8, <1>9, EngineGrows
<1> QED BY <1>1, <1>2, <1>3, <1>4, <1>10 DEF Decide

(* Where nothing overflows, a higher landed cost never leads to a lower     *)
(* price, and never to lowering one.                                        *)
THEOREM CostsRaisePrices ==
    ASSUME AmountsInRange PROVE Spec => []CostIsMonotone
<1>1. IInv => CostIsMonotone
  BY MonotoneOnInvariant
<1> QED BY <1>1, Invariance, PTL

-----------------------------------------------------------------------------
(* Acceptance *)

LEMMA AcceptedHolds ==
    ASSUME IInv, Accept
    PROVE  Decide(listing', landed, rec.rule, rec.policy) = Decision("hold", rec.recommended)
<1>1. PICK lowest : lowest = LowestConfirmedInStock(UsableSignals(Seen))
  OBVIOUS
<1>2. PICK rule, policy, price, cost :
        rule = rec.rule /\ policy = rec.policy /\ price = rec.recommended /\ cost = landed
  OBVIOUS
<1>3. rec.state \in Actionable
  BY DEF Accept
<1>4. /\ rule \in AllRules /\ policy \in AllPolicies /\ cost \in Costs \cup {None}
      /\ price \in Nat \ {0} /\ lowest \in Nat
      /\ MinimumProfitablePrice(cost, rule.margin) # None
      /\ ~(Highest(rule, policy) # None
             /\ Highest(rule, policy) < FloorOf(cost, rule, policy))
      /\ ~LockSeen(locks, Item) /\ CompetitorDataFresh(Seen)
      /\ FloorOf(cost, rule, policy) <= price
      /\ price = FloorOf(cost, rule, policy) \/ price = lowest
  BY <1>1, <1>2, <1>3, ActionableSays DEF Actionable
<1>5. PICK floor \in Int : floor = FloorOf(cost, rule, policy)
  BY <1>4, FloorCovers
<1>6. PICK l : l = listing'
  OBVIOUS
<1>7. l.regular = price /\ l.sale = None
  <2>1. PICK k \in Listed : k = listing
    BY DEF IInv, TypeOK
  <2>2. l = [k EXCEPT !.regular = price] /\ k.sale = None
    BY <1>2, <1>6, <2>1 DEF Accept
  <2> QED BY <2>2
<1>8. PriceOf(l) = price /\ ~(PriceOf(l) <= 0)
  BY <1>4, <1>7 DEF PriceOf
<1>9. PICK e : e = Evaluation(Item, l, cost, rule, policy, locks)
  OBVIOUS
<1>10. /\ e.current = price /\ e.floor = floor
       /\ e.locked = LockSeen(locks, Item)
  BY <1>4, <1>5, <1>8, <1>9, EvaluationSays
<1>11. PICK in : in = Input(e, Seen)
  OBVIOUS
<1>12. /\ in.current = price /\ in.floor = floor /\ ~in.locked /\ in.fresh
       /\ in.signals = UsableSignals(Seen)
  BY <1>4, <1>10, <1>11 DEF Input
<1>13. Engine(in) = Decision("hold", price)
  <2>1. ~(in.current < in.floor)
    BY <1>4, <1>5, <1>12
  <2>2. CASE lowest # None /\ in.current > lowest
    <3>1. lowest < in.floor
      BY <1>4, <1>5, <1>12, <2>2
    <3>2. Engine(in) = FollowMarket(in, lowest)
      BY <1>1, <1>12, <2>1, <2>2 DEF Engine
    <3> QED BY <1>12, <3>1, <3>2 DEF FollowMarket
  <2>3. CASE ~(lowest # None /\ in.current > lowest)
    BY <1>1, <1>12, <2>1, <2>3 DEF Engine
  <2> QED BY <2>2, <2>3
<1> QED BY <1>2, <1>6, <1>9, <1>11, <1>13 DEF Decide

(* An accepted recommendation is not followed by another one of the same    *)
(* rule and policy: they hold the price they asked for.                     *)
THEOREM AcceptedPricesHold == Spec => AcceptedPriceHolds
<1>1. IInv /\ [Next]_vars =>
        [Accept /\ rec.rule \in RulesFor(rules, Item, listing')
         => Decide(listing', landed, rec.rule, rec.policy)
              = Decision("hold", rec.recommended)]_vars
  BY AcceptedHolds
<1> QED BY <1>1, Invariance, PTL DEF Spec, AcceptedPriceHolds
=============================================================================
