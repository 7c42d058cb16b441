------------------------------ MODULE MCBilling ------------------------------
(* One tenant and one checkout, and the first events of two subscriptions:  *)
(* Paystack sends a subscription's events under the subscription's id.     *)
EXTENDS Billing, TLC

CONSTANTS starter, growth, trial, none, other, r1, s1, s2

Renewal(id, plan) == [kind |-> "renewal", id |-> id, plan |-> plan, addressed |-> TRUE]
Failure(id, addressed) == [kind |-> "failure", id |-> id, plan |-> none, addressed |-> addressed]

ApartById == {Renewal(s1, other), Failure(s2, TRUE)}
=============================================================================
