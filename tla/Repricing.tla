----------------------------- MODULE Repricing ------------------------------
(***************************************************************************)
(* The pricing terms and the engine in their loop: one item whose owner    *)
(* edits costs, rules, policies and locks, whose competitors move, whose   *)
(* recommendation is recomputed, and whose price follows an accepted one.  *)
(* It asks whether following the engine is safe and comes to rest;         *)
(* PricePublishing says how a price is really changed, and how a           *)
(* recommendation outlives the terms it was made under.                    *)
(***************************************************************************)
EXTENDS PriceEvaluation, FiniteSets, Sequences

CONSTANTS
    Item,              \* the product or variant
    Catalogue,         \* the store's items, each with its SKU and its age
    Listings,          \* the prices and stocks it can be synchronized with
    Costs,             \* landed costs an owner sets
    Files,             \* cost files: sequences of [sku, valid, cost]
    RuleBook, PolicyBook, LockBook,
    Observations,      \* what a competitor may show
    NoObservation,     \* of a competitor that is not confirmed
    Competitors

ASSUME CatalogueAssumption == Item \in Catalogue /\ IsFiniteSet(Catalogue)

(* A row of products or product_variants, as far as an evaluation reads it. *)
Listed == [regular : Nat, sale : Nat, inStock : BOOLEAN, quantity : SUBSET Int,
           published : BOOLEAN]

(* The columns' types and their CHECKs.  A priority is any integer;         *)
(* what validateRule asks is left to ValidRule.                             *)
ASSUME TermsAssumption ==
    /\ Listings \subseteq Listed
    /\ Costs \subseteq Nat \ {0}
    /\ \A file \in Files : \A i \in DOMAIN file : file[i].valid => file[i].cost \in Costs
    /\ \A r \in RuleBook :
          /\ r.margin \in Int /\ r.change \in Int /\ r.rounding \in Int
          /\ r.maximum \in Nat /\ r.priority \in Int /\ r.priority >= -MaxInt - 1
    /\ \A p \in PolicyBook : /\ p.minimum \in Nat /\ p.maximum \in Nat /\ p.rounding \in Nat
                             /\ p.scope \in DOMAIN Rank
    /\ \A o \in Observations : /\ o.price \in Nat
                               /\ o.current \in BOOLEAN /\ o.confident \in BOOLEAN

VARIABLES
    listing,    \* its catalogue row: regular and sale price, stock, status
    landed,     \* the active product_costs row, None before one is set
    rules,      \* the active pricing_rules
    policies,   \* product_price_policies, one per target
    locks,      \* product_price_locks that are locked
    market,     \* the newest observation of each confirmed competitor
    rec         \* the engine's latest decision and the rule and policy behind it

terms == <<landed, rules, policies, locks>>
vars == <<listing, terms, market, rec>>

NoDecision == [state |-> "none", recommended |-> None, rule |-> NoRule, policy |-> NoPolicy]

SameTarget(p, q) == p.scope = q.scope /\ p.of = q.of

Init ==
    /\ listing \in Listings
    /\ landed = None
    /\ rules = {}
    /\ policies = {}
    /\ locks = {}
    /\ market = [c \in Competitors |-> NoObservation]
    /\ rec = NoDecision

Seen == {market[c] : c \in Competitors} \ {NoObservation}

(* The input Generate builds from an evaluation.                            *)
Input(calculated, observations) ==
    [current |-> calculated.current, floor |-> calculated.floor,
     ceiling |-> calculated.ceiling, guardrail |-> calculated.guardrail,
     locked |-> calculated.locked, fresh |-> CompetitorDataFresh(observations),
     signals |-> UsableSignals(observations)]

(* catalogCandidates: what is published in the store, and its variants.     *)
Candidate == listing.published

(* One candidate of Generate; one that cannot be evaluated is skipped.  The *)
(* row's CHECK refuses a floor that wrapped around to below zero.           *)
Generate == \E rule \in RulesFor(rules, Item, listing), policy \in PoliciesFor(policies, Item) :
    LET calculated == Evaluation(Item, listing, landed, rule, policy, locks)
        decision == Engine(Input(calculated, Seen))
    IN  /\ Candidate /\ calculated # Refused
        /\ calculated.floor >= 0
        /\ rec' = [state |-> decision.state, recommended |-> decision.recommended,
                   rule |-> rule, policy |-> policy]
        /\ UNCHANGED <<listing, terms, market>>

(* The recommendation is published; an item on sale is a conflict.          *)
Accept ==
    /\ rec.state \in Actionable
    /\ listing.sale = None
    /\ listing' = [listing EXCEPT !.regular = rec.recommended]
    /\ rec' = NoDecision
    /\ UNCHANGED <<terms, market>>

SyncListing ==
    /\ listing' \in Listings \ {listing}
    /\ rec' = NoDecision
    /\ UNCHANGED <<terms, market>>

Observe(c) ==
    /\ \E o \in Observations : o # market[c] /\ market' = [market EXCEPT ![c] = o]
    /\ rec' = NoDecision
    /\ UNCHANGED <<listing, terms>>

SetCost ==
    /\ landed' \in Costs \ {landed}
    /\ rec' = NoDecision
    /\ UNCHANGED <<listing, rules, policies, locks, market>>

(* resolveSKU: the oldest product with the SKU, or else the only variant.   *)
ResolveSKU(sku) ==
    LET named == {x \in Catalogue : x.sku = sku}
        products == {x \in named : x.variant = NoVariant}
    IN  IF products # {} THEN {x \in products : \A y \in products : x.created <= y.created}
        ELSE IF Cardinality(named) = 1 THEN named ELSE {}

(* ImportCostsCSV sets the cost of every row it accepts in a transaction of *)
(* its own.  Only the first row of a SKU can be accepted, and it hides the *)
(* later ones also when it is not valid.                                   *)
ImportCosts(file) == \E i \in DOMAIN file :
    /\ \A j \in 1..(i - 1) : file[j].sku # file[i].sku
    /\ file[i].valid
    /\ Item \in ResolveSKU(file[i].sku)
    /\ landed' = file[i].cost
    /\ rec' = NoDecision
    /\ UNCHANGED <<listing, rules, policies, locks, market>>

(* validateRule, of what a rule decides with.                               *)
ValidRule(r) ==
    /\ r.margin \in 1..9999 /\ r.change \in 1..10000 /\ r.rounding > 0
    /\ r.scope \in DOMAIN Rank

(* validateRuleTarget counts the rule's target.  For a store it counts      *)
(* nothing, and takes that for a target that does not exist.               *)
TargetFound(r) == \E x \in Catalogue : r.of \in Target(r.scope, x)

(* CreateRule, which wants it inactive, and UpdateRule, which activates it. *)
ActivateRule(r) ==
    /\ r \notin rules
    /\ ValidRule(r) /\ TargetFound(r)
    /\ rules' = rules \cup {r}
    /\ rec' = NoDecision
    /\ UNCHANGED <<listing, landed, policies, locks, market>>

(* UpdateRule, on a rule it deactivates, and DeleteRule.                    *)
RetireRule(r) ==
    /\ r \in rules
    /\ rules' = rules \ {r}
    /\ rec' = NoDecision
    /\ UNCHANGED <<listing, landed, policies, locks, market>>

UpsertPolicy(p) ==
    /\ p \notin policies
    /\ policies' = {q \in policies : ~SameTarget(p, q)} \cup {p}
    /\ rec' = NoDecision
    /\ UNCHANGED <<listing, landed, rules, locks, market>>

SetLock(l) ==
    /\ locks' = IF l \in locks THEN locks \ {l} ELSE locks \cup {l}
    /\ rec' = NoDecision
    /\ UNCHANGED <<listing, landed, rules, policies, market>>

Next ==
    \/ Generate \/ Accept \/ SyncListing \/ SetCost
    \/ \E file \in Files : ImportCosts(file)
    \/ \E c \in Competitors : Observe(c)
    \/ \E r \in RuleBook : ActivateRule(r) \/ RetireRule(r)
    \/ \E p \in PolicyBook : UpsertPolicy(p)
    \/ \E l \in LockBook : SetLock(l)

Spec == Init /\ [][Next]_vars

-----------------------------------------------------------------------------
(* No sum or product of the arithmetic leaves int64: prices, floors and     *)
(* rounding increments in basis points, and the numerators that CeilDiv     *)
(* rounds up.  MinimumProfitablePrice guards its product alone, so that of  *)
(* the largest cost it admits the sum in CeilDiv may wrap around; ChangeBPS *)
(* guards nothing.                                                          *)
InRange(amount) == amount * BPS <= MaxInt

AmountsInRange ==
    /\ BPS > 1
    /\ \A l \in Listings : InRange(l.regular) /\ InRange(l.sale)
    /\ \A cost \in Costs : cost * BPS + BPS <= MaxInt
    /\ \A r \in RuleBook \cup {NoRule}, p \in PolicyBook \cup {NoPolicy} :
          /\ InRange(r.rounding) /\ InRange(p.rounding)
          /\ \A cost \in Costs :
                InRange(Floor([landed |-> cost, rule |-> r, minimum |-> p.minimum,
                               rounding |-> p.rounding]))

Current == IF listing.sale # None THEN listing.sale ELSE listing.regular

(* The terms stay in their domains, each target has one policy, and the     *)
(* engine answers only within its states.                                  *)
TypeOK ==
    /\ listing \in Listed
    /\ landed \in Costs \cup {None}
    /\ rules \subseteq RuleBook
    /\ policies \subseteq PolicyBook
    /\ \A p, q \in policies : SameTarget(p, q) => p = q
    /\ locks \subseteq LockBook
    /\ market \in [Competitors -> Observations \cup {NoObservation}]
    /\ rec = NoDecision \/ /\ rec.state \in RecommendationStates
                           /\ rec.recommended \in Nat \ {0}
                           /\ rec.rule \in rules \cup {NoRule}
                           /\ rec.policy \in policies \cup {NoPolicy}

(* The rules that may decide: they apply, their conditions hold, and no     *)
(* such rule has a more specific scope.                                    *)
Matching == {r \in rules : Applies(r, Item) /\ ConditionsMatch(r, listing)}
Deciding == {r \in Matching : \A q \in Matching : Rank[r.scope] <= Rank[q.scope]}

(* An actionable recommendation is within the terms, whatever rounding,     *)
(* precedence and bounds interact: it earns the margin of the most specific*)
(* matching rule over the landed cost, lies within the explicit bounds,    *)
(* moves the price by no more than the rule's guardrail, and relies on     *)
(* usable data; and it lowers a price only to the lowest usable one.       *)
ActionableIsSafe ==
    rec.state \in Actionable =>
        /\ landed # None
        /\ IF Matching = {} THEN rec.rule = NoRule ELSE rec.rule \in Deciding
        /\ (rec.recommended - landed) * BPS >= rec.rule.margin * rec.recommended
        /\ rec.recommended >= rec.policy.minimum
        /\ ~Exceeds(rec.recommended, rec.policy.maximum)
        /\ ~Exceeds(rec.recommended, rec.rule.maximum)
        /\ Abs(rec.recommended - Current) * BPS < (rec.rule.change + 1) * Current
        /\ Seen # {} => \E o \in Seen : Usable(o)
        /\ rec.state = "lower" =>
             /\ rec.recommended < Current
             /\ \E o \in Seen : Usable(o) /\ o.price = rec.recommended
             /\ \A o \in Seen : Usable(o) => o.price >= rec.recommended

Decide(l, cost, rule, policy) ==
    Engine(Input(Evaluation(Item, l, cost, rule, policy, locks), Seen))

(* Following a recommendation ends the matter while its rule still matches: *)
(* the same rule and policy then hold the price they asked for, and never  *)
(* send it back and forth.  (A rule conditioned on the price itself may    *)
(* stop matching.)                                                         *)
AcceptedPriceHolds ==
    [][Accept /\ rec.rule \in RulesFor(rules, Item, listing')
       => Decide(listing', landed, rec.rule, rec.policy)
            = Decision("hold", rec.recommended)]_vars

(* A higher cost never yields a lower price, nor makes a lowering out of    *)
(* something else.                                                         *)
CostIsMonotone ==
    rec # NoDecision =>
        \A cost \in Costs :
            LET calculated == Evaluation(Item, listing, cost, rec.rule, rec.policy, locks)
                decision == Engine(Input(calculated, Seen))
            IN  cost >= landed /\ calculated # Refused =>
                    /\ decision.recommended >= rec.recommended
                    /\ decision.state = "lower" => rec.state = "lower"

=============================================================================
