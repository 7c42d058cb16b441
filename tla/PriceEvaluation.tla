-------------------------- MODULE PriceEvaluation ---------------------------
(***************************************************************************)
(* pricing.Evaluate (internal/pricing/evaluate.go): which rule, policy and *)
(* lock apply to a product or variant, and the calculation they lead to.   *)
(* Rows are read without ORDER BY and ties go to the first one read, so an *)
(* evaluation has a set of possible results.                               *)
(*                                                                         *)
(* A rule is a record [scope, of, margin, change, maximum, rounding,       *)
(* priority, inStock, minStock, maxCurrent], a policy [scope, of, minimum, *)
(* maximum, rounding]; "of" is the product, variant or category (any value *)
(* for a store).  An item is a record [product, variant, categories],      *)
(* variant being NoVariant for the product itself.                         *)
(***************************************************************************)
EXTENDS RecommendationEngine

CONSTANT NoVariant

Target(scope, item) == CASE scope = "product" -> {item.product}
                         [] scope = "variant" -> {item.variant} \ {NoVariant}
                         [] scope = "category" -> item.categories
                         [] OTHER -> {}

(* ruleApplies, and the WHERE clauses that load rules and policies.         *)
Applies(row, item) == row.scope = "store" \/ row.of \in Target(row.scope, item)

(* conditionsMatch, on a listing [regular, sale, inStock, quantity].  A     *)
(* nullable quantity, minimum or maximum is a set of at most one number: a  *)
(* minimum asks for a known quantity, whatever the stock's status.         *)
ConditionsMatch(rule, listing) ==
    /\ rule.inStock => listing.inStock
    /\ \A least \in rule.minStock : \E n \in listing.quantity : n >= least
    /\ \A most \in rule.maxCurrent :
          (IF listing.sale # None THEN listing.sale ELSE listing.regular) <= most

Rank == [product |-> 1, variant |-> 2, category |-> 3, store |-> 4]

(* Mutant: the priority comes before the scope.                             *)
PriorityFirst(p, q) ==
    \/ p.priority < q.priority
    \/ p.priority = q.priority /\ Rank[p.scope] <= Rank[q.scope]

(* SelectRule's order: the more specific scope, then the smaller priority.  *)
Precedes(p, q) ==
    \/ Rank[p.scope] < Rank[q.scope]
    \/ Rank[p.scope] = Rank[q.scope] /\ p.priority <= q.priority

SelectRule(rules) ==
    LET first == {p \in rules : \A q \in rules : Precedes(p, q)}
    IN  IF first = {} THEN {NoRule} ELSE first

NoPolicy == [minimum |-> None, maximum |-> None, rounding |-> None]

SelectPolicy(policies) ==
    LET first == {p \in policies : \A q \in policies : Rank[p.scope] <= Rank[q.scope]}
    IN  IF first = {} THEN {NoPolicy} ELSE first

(* The lock's row is looked up by its product and, where its variant should *)
(* be compared with the evaluated variant, with the product's id again     *)
(* (evaluate.go:44).                                                       *)
LockSeen(locks, item) ==
    \E lock \in locks : lock.product = item.product /\ lock.variant = item.product

(* evaluate, with one of the rules and policies that may be selected.       *)
Evaluation(item, listing, landed, rule, policy, locks) ==
    Calculate([landed |-> landed, regular |-> listing.regular, sale |-> listing.sale,
               rule |-> rule, minimum |-> policy.minimum, maximum |-> policy.maximum,
               rounding |-> policy.rounding, locked |-> LockSeen(locks, item)])

RulesFor(rules, item, listing) ==
    SelectRule({r \in rules : Applies(r, item) /\ ConditionsMatch(r, listing)})
PoliciesFor(policies, item) == SelectPolicy({p \in policies : Applies(p, item)})

=============================================================================
