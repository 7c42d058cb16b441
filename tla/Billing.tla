------------------------------ MODULE Billing ------------------------------
(***************************************************************************)
(* The subscription of one tenant (internal/billing): checkouts and their  *)
(* confirmation, Paystack's webhooks, which arrive late, out of order,     *)
(* more than once and concurrently, the dunning pass of the worker, and    *)
(* the tenant's own cancellations.  An HTTP call and a transaction are one *)
(* action each; what happens between two of them interleaves.              *)
(*                                                                         *)
(* Time is a pair of flags: whether the trial, and whether the grace       *)
(* period, has run out.  current_period_end and retention_ends_at are left *)
(* out: nothing in the code reads them.  The catalogue of plans is fixed   *)
(* (the application cannot write it), so a payment always has the amount   *)
(* of its plan.                                                            *)
(***************************************************************************)
EXTENDS Naturals

CONSTANTS
    PaidPlans, TrialPlan,   \* plans; the trial is the only free one
    NoPlan, UnknownPlan,    \* of an event: no plan code, one that maps to none
    Refs,                   \* payment references
    Notices,                \* subscription events: [kind, id, plan, addressed]
    Handlers,               \* webhook requests being served
    Dunners,                \* worker processes
    MaxFaults               \* bound on failed transactions and dead processes

Plans == PaidPlans \cup {TrialPlan}

ASSUME BillingAssumption ==
    /\ TrialPlan \notin PaidPlans
    /\ {NoPlan, UnknownPlan} \cap Plans = {}
    /\ NoPlan # UnknownPlan
    /\ \A e \in Notices :
          /\ e.kind \in {"renewal", "failure"}
          /\ e.plan \in Plans \cup {NoPlan, UnknownPlan}
          /\ e.addressed \in BOOLEAN
    /\ MaxFaults \in Nat

VARIABLES
    sub,        \* the subscriptions row
    payment,    \* payments: what each reference is for, and its status
    paid,       \* references Paystack has charged
    sent,       \* events Paystack has sent, any number of times
    processed,  \* provider_event_ids with processed_at set
    handler,    \* the event each webhook request works on, and how far it is
    confirming, \* ConfirmPayment calls between their two transactions
    dunning,    \* how far each worker is in RunDunning
    faults,
    ledger      \* history: see NoLedger

vars == <<sub, payment, paid, sent, processed, handler, confirming, dunning,
          faults, ledger>>

NoEvent == [kind |-> "none", id |-> "none", plan |-> NoPlan, addressed |-> FALSE]

(* The metadata of a checkout carries the organization and the plan.        *)
Charge(ref) == [kind |-> "charge", id |-> ref, plan |-> payment[ref].plan,
                addressed |-> TRUE]

NoSubscription == [status |-> "none", plan |-> NoPlan, trial |-> "none",
                   grace |-> "none", readOnly |-> FALSE, cancelling |-> FALSE]

(* paidUp: a payment or renewal took effect, and no failed renewal since.   *)
(* raced: the latest one did so when a dunning pass had already chosen the *)
(* tenant as one whose trial is over.                                      *)
NoLedger == [paidUp |-> FALSE, raced |-> FALSE]

Free == [pc |-> "idle", event |-> NoEvent]
AtRest == [pc |-> "idle", due |-> FALSE]

Init ==
    /\ sub = NoSubscription
    /\ payment = [ref \in Refs |-> [status |-> "none", plan |-> NoPlan]]
    /\ paid = {}
    /\ sent = {}
    /\ processed = {}
    /\ handler = [h \in Handlers |-> Free]
    /\ confirming = {}
    /\ dunning = [d \in Dunners |-> AtRest]
    /\ faults = 0
    /\ ledger = NoLedger

-----------------------------------------------------------------------------
(* The effects on the subscriptions row *)

Settled(s) == [s EXCEPT !.grace = "none", !.readOnly = FALSE]

(* Mutant: a new plan keeps the restriction.                                *)
KeepsRestriction(s, plan) ==
    IF plan = TrialPlan
    THEN [s EXCEPT !.status = "trialing", !.plan = plan, !.trial = "running",
                   !.grace = "none", !.cancelling = FALSE]
    ELSE [s EXCEPT !.status = "active", !.plan = plan,
                   !.grace = "none", !.cancelling = FALSE]

(* changePlan, which also inserts a missing row.                            *)
OnPlan(s, plan) ==
    IF plan = TrialPlan
    THEN [Settled(s) EXCEPT !.status = "trialing", !.plan = plan,
                            !.trial = "running", !.cancelling = FALSE]
    ELSE [Settled(s) EXCEPT !.status = "active", !.plan = plan,
                            !.cancelling = FALSE]

(* Mutant: a renewal leaves the restriction.                                *)
RenewedOnly(s, plan) ==
    IF s.status = "none" \/ plan = NoPlan THEN s
    ELSE [s EXCEPT !.status = "active", !.plan = IF plan = UnknownPlan THEN @ ELSE plan]

(* setActive: an event without a plan code changes nothing.                 *)
Renewed(s, plan) ==
    IF s.status = "none" \/ plan = NoPlan THEN s
    ELSE [Settled(s) EXCEPT !.status = "active",
                            !.plan = IF plan = UnknownPlan THEN @ ELSE plan]

(* markPastDue opens a new grace period, and lifts an earlier restriction.  *)
PastDue(s) ==
    IF s.status \in {"none", "cancelled"} THEN s
    ELSE [s EXCEPT !.status = "past_due", !.grace = "open", !.readOnly = FALSE]

(* EffectiveReadOnly, which GuardWrite asks before every business write.    *)
Writable(s) == /\ ~s.readOnly
               /\ s.status = "past_due" => s.grace = "open"

Paying(l) == [l EXCEPT !.paidUp = TRUE,
                       !.raced = \E d \in Dunners : /\ dunning[d].pc = "lapse"
                                                    /\ dunning[d].due]
NotPaying(l) == [l EXCEPT !.paidUp = FALSE]

PlanTaken(l, plan) == IF plan = TrialPlan THEN NotPaying(l) ELSE Paying(l)

-----------------------------------------------------------------------------
(* Subscribing and paying *)

(* EnsureSubscription, when an organization is created.                     *)
EnsureSubscription ==
    /\ sub.status = "none"
    /\ sub' = OnPlan(sub, TrialPlan)
    /\ UNCHANGED <<payment, paid, sent, processed, handler, confirming, dunning, faults, ledger>>

(* StartCheckout of the free plan, and of a paid one: the reference is new. *)
StartTrial ==
    /\ sub' = OnPlan(sub, TrialPlan)
    /\ ledger' = NotPaying(ledger)
    /\ UNCHANGED <<payment, paid, sent, processed, handler, confirming, dunning, faults>>

StartCheckout(ref) == \E plan \in PaidPlans :
    /\ payment[ref].status = "none"
    /\ payment' = [payment EXCEPT ![ref] = [status |-> "pending", plan |-> plan]]
    /\ UNCHANGED <<sub, paid, sent, processed, handler, confirming, dunning, faults, ledger>>

(* The customer pays at Paystack, which sends the event.                    *)
Pay(ref) ==
    /\ payment[ref].status # "none"
    /\ ref \notin paid
    /\ paid' = paid \cup {ref}
    /\ sent' = sent \cup {Charge(ref)}
    /\ UNCHANGED <<sub, payment, processed, handler, confirming, dunning, faults, ledger>>

(* Paystack renews a subscription bought once, or fails to.                 *)
Notify(e) ==
    /\ paid # {}
    /\ e \notin sent
    /\ sent' = sent \cup {e}
    /\ UNCHANGED <<sub, payment, paid, processed, handler, confirming, dunning, faults, ledger>>

(* Mutant: the browser's word is enough.                                    *)
ConfirmUnverified(ref) ==
    /\ payment[ref].status # "none"
    /\ ref \notin confirming
    /\ payment' = [payment EXCEPT ![ref].status = "success"]
    /\ confirming' = confirming \cup {ref}
    /\ UNCHANGED <<sub, paid, sent, processed, handler, dunning, faults, ledger>>

(* ConfirmPayment: Paystack confirms the charge, the payment is recorded in *)
(* one transaction and the plan changed in the next.  It may be called     *)
(* again for a payment that succeeded long ago.                            *)
ConfirmPayment(ref) ==
    /\ payment[ref].status # "none"
    /\ ref \in paid
    /\ ref \notin confirming
    /\ payment' = [payment EXCEPT ![ref].status = "success"]
    /\ confirming' = confirming \cup {ref}
    /\ UNCHANGED <<sub, paid, sent, processed, handler, dunning, faults, ledger>>

ConfirmChangesPlan(ref) ==
    /\ ref \in confirming
    /\ confirming' = confirming \ {ref}
    /\ sub' = OnPlan(sub, payment[ref].plan)
    /\ ledger' = PlanTaken(ledger, payment[ref].plan)
    /\ UNCHANGED <<payment, paid, sent, processed, handler, dunning, faults>>

Cancel ==
    /\ sub.status # "none"
    /\ sub' = [sub EXCEPT !.status = "cancelled", !.cancelling = TRUE]
    /\ UNCHANGED <<payment, paid, sent, processed, handler, confirming, dunning, faults, ledger>>

Reactivate ==
    /\ sub.cancelling
    /\ sub' = [sub EXCEPT !.status = "active", !.cancelling = FALSE]
    /\ UNCHANGED <<payment, paid, sent, processed, handler, confirming, dunning, faults, ledger>>

-----------------------------------------------------------------------------
(* Webhooks *)

(* ProcessWebhook up to its check for a duplicate.  The id it deduplicates  *)
(* by is that of the event's object (ParseWebhook): the payment reference, *)
(* or the id of the subscription, whatever happened to it: of its events    *)
(* only the first has any effect, the others are answered as duplicates.   *)
Receive(h, e) ==
    /\ handler[h] = Free
    /\ e \in sent
    /\ e.id \notin processed
    /\ handler' = [handler EXCEPT ![h] = [pc |-> "apply", event |-> e]]
    /\ UNCHANGED <<sub, payment, paid, sent, processed, confirming, dunning, faults, ledger>>

(* applyWebhook of an event that names its organization (the fallback, by   *)
(* reference, runs outside the tenant's context and finds nothing).        *)
Effect(e) == CASE e.kind = "charge" -> OnPlan(sub, e.plan)
               [] e.kind = "renewal" -> Renewed(sub, e.plan)
               [] OTHER -> PastDue(sub)

Applied(e) == CASE e.kind = "charge" -> PlanTaken(ledger, e.plan)
                [] e.kind = "renewal" -> IF sub.status = "none" \/ e.plan = NoPlan
                                         THEN ledger ELSE Paying(ledger)
                [] OTHER -> NotPaying(ledger)

Apply(h) ==
    LET e == handler[h].event
    IN  /\ handler[h].pc = "apply"
        /\ handler' = [handler EXCEPT ![h].pc =
                         IF e.addressed /\ e.kind = "charge" THEN "record" ELSE "mark"]
        /\ IF e.addressed
           THEN sub' = Effect(e) /\ ledger' = Applied(e)
           ELSE UNCHANGED <<sub, ledger>>
        /\ UNCHANGED <<payment, paid, sent, processed, confirming, dunning, faults>>

(* The charge's payment is recorded in a transaction of its own, whose      *)
(* failure nobody notices.                                                 *)
RecordSuccess(h) ==
    LET ref == handler[h].event.id
    IN  /\ handler[h].pc = "record"
        /\ handler' = [handler EXCEPT ![h].pc = "mark"]
        /\ \/ /\ payment' = [payment EXCEPT ![ref].status = "success"]
              /\ UNCHANGED faults
           \/ /\ faults < MaxFaults
              /\ faults' = faults + 1
              /\ UNCHANGED payment
        /\ UNCHANGED <<sub, paid, sent, processed, confirming, dunning, ledger>>

(* The event cannot be decoded, or its transaction fails: it is marked all  *)
(* the same, and answered with an error.                                   *)
ApplyFails(h) ==
    /\ handler[h].pc = "apply"
    /\ faults < MaxFaults
    /\ faults' = faults + 1
    /\ processed' = processed \cup {handler[h].event.id}
    /\ handler' = [handler EXCEPT ![h] = Free]
    /\ UNCHANGED <<sub, payment, paid, sent, confirming, dunning, ledger>>

Mark(h) ==
    /\ handler[h].pc = "mark"
    /\ processed' = processed \cup {handler[h].event.id}
    /\ handler' = [handler EXCEPT ![h] = Free]
    /\ UNCHANGED <<sub, payment, paid, sent, confirming, dunning, faults, ledger>>

-----------------------------------------------------------------------------
(* RunDunning: two passes, each a query followed by an update.              *)

SelectGraceEnded(d) ==
    /\ dunning[d].pc = "idle"
    /\ dunning' = [dunning EXCEPT ![d] =
                     [pc |-> "restrict",
                      due |-> /\ sub.status = "past_due" /\ sub.grace = "closed"
                              /\ ~sub.readOnly]]
    /\ UNCHANGED <<sub, payment, paid, sent, processed, handler, confirming, faults, ledger>>

(* Mutant: the update looks for the wrong status.                           *)
RestrictsCancelled(d) ==
    /\ dunning[d].pc = "restrict"
    /\ sub' = IF dunning[d].due /\ sub.status = "cancelled"
              THEN [sub EXCEPT !.readOnly = TRUE] ELSE sub
    /\ dunning' = [dunning EXCEPT ![d] = [pc |-> "query", due |-> FALSE]]
    /\ UNCHANGED <<payment, paid, sent, processed, handler, confirming, faults, ledger>>

Restrict(d) ==
    /\ dunning[d].pc = "restrict"
    /\ sub' = IF dunning[d].due /\ sub.status = "past_due"
              THEN [sub EXCEPT !.readOnly = TRUE] ELSE sub
    /\ dunning' = [dunning EXCEPT ![d] = [pc |-> "query", due |-> FALSE]]
    /\ UNCHANGED <<payment, paid, sent, processed, handler, confirming, faults, ledger>>

(* Mutant: the trials are queried before they are over.                     *)
SelectsRunningTrials(d) ==
    /\ dunning[d].pc = "query"
    /\ dunning' = [dunning EXCEPT ![d] =
                     [pc |-> "lapse", due |-> sub.status = "trialing" /\ sub.trial = "running"]]
    /\ UNCHANGED <<sub, payment, paid, sent, processed, handler, confirming, faults, ledger>>

SelectTrialsEnded(d) ==
    /\ dunning[d].pc = "query"
    /\ dunning' = [dunning EXCEPT ![d] =
                     [pc |-> "lapse", due |-> sub.status = "trialing" /\ sub.trial = "over"]]
    /\ UNCHANGED <<sub, payment, paid, sent, processed, handler, confirming, faults, ledger>>

Lapse(d) ==
    /\ dunning[d].pc = "lapse"
    /\ sub' = IF dunning[d].due THEN PastDue(sub) ELSE sub
    /\ dunning' = [dunning EXCEPT ![d] = AtRest]
    /\ UNCHANGED <<payment, paid, sent, processed, handler, confirming, faults, ledger>>

Dun(d) == SelectGraceEnded(d) \/ Restrict(d) \/ SelectTrialsEnded(d) \/ Lapse(d)

-----------------------------------------------------------------------------
(* Time, and faults *)

TrialEnds ==
    /\ sub.trial = "running"
    /\ sub' = [sub EXCEPT !.trial = "over"]
    /\ UNCHANGED <<payment, paid, sent, processed, handler, confirming, dunning, faults, ledger>>

GraceEnds ==
    /\ sub.grace = "open"
    /\ sub' = [sub EXCEPT !.grace = "closed"]
    /\ UNCHANGED <<payment, paid, sent, processed, handler, confirming, dunning, faults, ledger>>

(* A process dies, or a transaction fails: a webhook before it is marked, a *)
(* confirmation between its transactions, a dunning pass anywhere.         *)
HandlerDies(h) ==
    /\ handler[h] # Free
    /\ faults < MaxFaults
    /\ faults' = faults + 1
    /\ handler' = [handler EXCEPT ![h] = Free]
    /\ UNCHANGED <<sub, payment, paid, sent, processed, confirming, dunning, ledger>>

ConfirmDies(ref) ==
    /\ ref \in confirming
    /\ faults < MaxFaults
    /\ faults' = faults + 1
    /\ confirming' = confirming \ {ref}
    /\ UNCHANGED <<sub, payment, paid, sent, processed, handler, dunning, ledger>>

DunningDies(d) ==
    /\ dunning[d] # AtRest
    /\ faults < MaxFaults
    /\ faults' = faults + 1
    /\ dunning' = [dunning EXCEPT ![d] = AtRest]
    /\ UNCHANGED <<sub, payment, paid, sent, processed, handler, confirming, ledger>>

Next ==
    \/ EnsureSubscription \/ StartTrial \/ Cancel \/ Reactivate
    \/ \E ref \in Refs : \/ StartCheckout(ref) \/ Pay(ref) \/ ConfirmPayment(ref)
                         \/ ConfirmChangesPlan(ref) \/ ConfirmDies(ref)
    \/ \E e \in Notices : Notify(e)
    \/ \E h \in Handlers : \/ \E e \in sent : Receive(h, e)
                           \/ Apply(h) \/ ApplyFails(h) \/ RecordSuccess(h) \/ Mark(h)
                           \/ HandlerDies(h)
    \/ \E d \in Dunners : Dun(d) \/ DunningDies(d)
    \/ TrialEnds \/ GraceEnds

Spec == Init /\ [][Next]_vars

(* RunDunningWorker repeats the pass on a ticker.                           *)
FairSpec == Spec /\ \A d \in Dunners : WF_vars(Dun(d))

-----------------------------------------------------------------------------
(* Properties *)

Statuses == {"trialing", "active", "past_due", "cancelled"}

(* Every variable stays in its domain, and a subscription that is past due  *)
(* always has a grace period on record.                                    *)
TypeOK ==
    /\ \/ sub = NoSubscription
       \/ sub \in [status : Statuses, plan : Plans, trial : {"none", "running", "over"},
                   grace : {"none", "open", "closed"}, readOnly : BOOLEAN,
                   cancelling : BOOLEAN]
    /\ sub.status = "past_due" => sub.grace # "none"
    /\ payment \in [Refs -> [status : {"pending", "success"}, plan : PaidPlans]
                           \cup {[status |-> "none", plan |-> NoPlan]}]
    /\ paid \subseteq {ref \in Refs : payment[ref].status # "none"}
    /\ sent \subseteq {Charge(ref) : ref \in paid} \cup Notices
    /\ processed \subseteq {e.id : e \in sent}
    /\ handler \in [Handlers -> {Free} \cup [pc : {"apply", "record", "mark"},
                                            event : sent]]
    /\ confirming \subseteq paid
    /\ dunning \in [Dunners -> [pc : {"idle", "restrict", "query", "lapse"}, due : BOOLEAN]]
    /\ faults \in 0..MaxFaults
    /\ ledger \in [paidUp : BOOLEAN, raced : BOOLEAN]

(* A tenant is on a paid plan only if Paystack charged it for that plan, or *)
(* renewed it: no browser redirect, no replayed or foreign event, and no   *)
(* reactivation yields a plan nobody paid for (PHASE8_DONE.md:32).         *)
PlanIsPaidFor ==
    sub.plan \in PaidPlans =>
        \/ \E ref \in paid : payment[ref].plan = sub.plan
        \/ \E e \in sent : e.kind = "renewal" /\ e.plan = sub.plan

(* Never read-only during a trial (PHASE8_DONE.md:22), also when it began   *)
(* in the middle of a dunning pass that had chosen to restrict the tenant. *)
TrialIsWritable == sub.status = "trialing" => Writable(sub)

(* A tenant that has paid and had no failed renewal since can write, in     *)
(* whatever order confirmations, webhooks, cancellations and dunning passes*)
(* interleave; unless its payment came while a pass was about to end its   *)
(* trial, which then overwrites it.                                        *)
PaidIsWritable == ledger.paidUp /\ ~ledger.raced => Writable(sub)

(* A grace period that has run out does make the tenant read-only, unless   *)
(* it pays or cancels first: no restart and no failed pass prevents it.    *)
Lapsed == sub.status = "past_due" /\ sub.grace = "closed" /\ ~sub.readOnly
LapsedBecomesReadOnly == Lapsed ~> ~Lapsed

(* A trial that is over ends.                                               *)
TrialOver == sub.status = "trialing" /\ sub.trial = "over"
TrialsLapse == TrialOver ~> ~TrialOver

=============================================================================
