--------------------------- MODULE BillingProofs ---------------------------
(* Proofs about Billing, for any plans, payment references, events,         *)
(* webhook requests and workers, and any number of faults.                 *)
EXTENDS Billing, TLAPS

SubType == [status : Statuses, plan : Plans, trial : {"none", "running", "over"},
            grace : {"none", "open", "closed"}, readOnly : BOOLEAN, cancelling : BOOLEAN]
SubOK(s) == /\ s = NoSubscription \/ s \in SubType
            /\ s.status = "past_due" => s.grace # "none"

(* A payment is recorded only by the request that works on its charge.      *)
OnlyChargesAreRecorded ==
    \A h \in Handlers : handler[h].pc = "record" => handler[h].event.kind = "charge"

TypeInv == TypeOK /\ OnlyChargesAreRecorded

-----------------------------------------------------------------------------
(* What the effects on the row return *)

(* Either way the row is a record of these fields.                          *)
Row == [status : Statuses \cup {"none"}, plan : Plans \cup {NoPlan},
        trial : {"none", "running", "over"}, grace : {"none", "open", "closed"},
        readOnly : BOOLEAN, cancelling : BOOLEAN]

LEMMA RowOK ==
    ASSUME NEW s, SubOK(s)
    PROVE  /\ s \in Row
           /\ s.status # "none" => s \in SubType
           /\ s.status = "none" => s = NoSubscription
<1>1. CASE s = NoSubscription
  BY <1>1 DEF Row, NoSubscription
<1>2. CASE s \in SubType
  BY <1>2 DEF Row, SubType, Statuses
<1> QED
  BY <1>1, <1>2 DEF SubOK

(* Whatever the row was, a change of plan yields a well-formed one.         *)
LEMMA OnPlanOK ==
    ASSUME NEW s, SubOK(s), NEW plan \in Plans
    PROVE  /\ SubOK(OnPlan(s, plan))
           /\ OnPlan(s, plan).plan = plan
           /\ ~OnPlan(s, plan).readOnly
           /\ OnPlan(s, plan).status = IF plan = TrialPlan THEN "trialing" ELSE "active"
<1>1. s \in Row
  BY RowOK
<1>2. CASE plan = TrialPlan
  BY <1>1, <1>2 DEF Row, SubOK, SubType, OnPlan, Settled, Statuses
<1>3. CASE plan # TrialPlan
  BY <1>1, <1>3 DEF Row, SubOK, SubType, OnPlan, Settled, Statuses
<1> QED
  BY <1>2, <1>3

(* A renewal either changes nothing or activates the subscription, on the   *)
(* plan it names or the one it had.                                        *)
LEMMA RenewedOK ==
    ASSUME NEW s, SubOK(s), NEW plan \in Plans \cup {NoPlan, UnknownPlan}
    PROVE  /\ SubOK(Renewed(s, plan))
           /\ Renewed(s, plan).plan = s.plan \/ Renewed(s, plan).plan = plan
           /\ s.status = "none" \/ plan = NoPlan => Renewed(s, plan) = s
           /\ ~(s.status = "none" \/ plan = NoPlan) =>
                ~Renewed(s, plan).readOnly /\ Renewed(s, plan).status = "active"
<1>1. CASE s.status = "none" \/ plan = NoPlan
  BY <1>1 DEF Renewed
<1>2. CASE ~(s.status = "none" \/ plan = NoPlan) /\ plan = UnknownPlan
  <2>1. s \in SubType
    BY <1>2, RowOK
  <2> QED
    BY <1>2, <2>1 DEF Renewed, Settled, SubOK, SubType, Statuses
<1>3. CASE ~(s.status = "none" \/ plan = NoPlan) /\ plan # UnknownPlan
  <2>1. s \in SubType
    BY <1>3, RowOK
  <2>2. plan \in Plans
    BY <1>3
  <2>3. Renewed(s, plan) = [Settled(s) EXCEPT !.status = "active", !.plan = plan]
    BY <1>3 DEF Renewed
  <2> QED
    BY <1>3, <2>1, <2>2, <2>3 DEF Settled, SubOK, SubType, Statuses
<1> QED
  BY <1>1, <1>2, <1>3

(* A failure never leaves a past-due row without its grace period, nor a    *)
(* restriction, and never changes the plan.                                *)
LEMMA PastDueOK ==
    ASSUME NEW s, SubOK(s)
    PROVE  /\ SubOK(PastDue(s))
           /\ PastDue(s).plan = s.plan
           /\ PastDue(s) = s \/ (~PastDue(s).readOnly /\ PastDue(s).status = "past_due")
<1>1. CASE s.status \in {"none", "cancelled"}
  BY <1>1 DEF PastDue
<1>2. CASE s.status \notin {"none", "cancelled"}
  <2>1. s \in SubType
    BY <1>2, RowOK
  <2> QED
    BY <1>2, <2>1 DEF PastDue, SubOK, SubType, Statuses
<1> QED
  BY <1>1, <1>2

(* The event a request works on has been sent, and a charge is for the plan *)
(* of its payment.                                                         *)
LEMMA EventOK ==
    ASSUME TypeOK, NEW e \in sent
    PROVE  \/ e \in Notices /\ e.kind \in {"renewal", "failure"}
              /\ e.plan \in Plans \cup {NoPlan, UnknownPlan}
           \/ /\ e.kind = "charge" /\ e.id \in paid
              /\ e.plan = payment[e.id].plan /\ e.plan \in PaidPlans
<1>1. CASE e \in Notices
  BY <1>1, BillingAssumption
<1>2. ASSUME NEW ref \in paid, e = Charge(ref)
      PROVE  e.kind = "charge" /\ e.id \in paid /\ e.plan = payment[e.id].plan
             /\ e.plan \in PaidPlans
  BY <1>2 DEF TypeOK, Charge
<1> QED
  BY <1>1, <1>2 DEF TypeOK

-----------------------------------------------------------------------------
(* Types *)

(* TypeOK, part by part: what concerns the row, what concerns payments and  *)
(* events, and what concerns the calls under way.                          *)
EventTypes ==
    /\ payment \in [Refs -> [status : {"pending", "success"}, plan : PaidPlans]
                           \cup {[status |-> "none", plan |-> NoPlan]}]
    /\ paid \subseteq {ref \in Refs : payment[ref].status # "none"}
    /\ sent \subseteq {Charge(ref) : ref \in paid} \cup Notices
    /\ processed \subseteq {e.id : e \in sent}
CallTypes ==
    /\ handler \in [Handlers -> {Free} \cup [pc : {"apply", "record", "mark"},
                                            event : sent]]
    /\ confirming \subseteq paid
    /\ dunning \in [Dunners -> [pc : {"idle", "restrict", "query", "lapse"}, due : BOOLEAN]]
    /\ faults \in 0..MaxFaults
LedgerType ==
    ledger \in [paidUp : BOOLEAN, raced : BOOLEAN]

LEMMA TypeParts == TypeOK <=> SubOK(sub) /\ EventTypes /\ CallTypes /\ LedgerType
  BY DEF TypeOK, SubOK, SubType, EventTypes, CallTypes, LedgerType

(* Paying and falling behind change only flags of the ledger.               *)
LEMMA LedgerOK ==
    ASSUME LedgerType, NEW plan
    PROVE  /\ Paying(ledger) \in [paidUp : BOOLEAN, raced : BOOLEAN]
           /\ NotPaying(ledger) \in [paidUp : BOOLEAN, raced : BOOLEAN]
           /\ PlanTaken(ledger, plan) \in [paidUp : BOOLEAN, raced : BOOLEAN]
           /\ Paying(ledger).paidUp
           /\ ~NotPaying(ledger).paidUp
  BY DEF LedgerType, Paying, NotPaying, PlanTaken

(* A new tenant's state is well-typed.                                      *)
LEMMA TypeInit == Init => TypeInv
<1> SUFFICES ASSUME Init PROVE TypeInv
  OBVIOUS
<1>1. SubOK(sub)
  BY DEF Init, SubOK, NoSubscription
<1>2. EventTypes /\ CallTypes
  BY BillingAssumption DEF Init, EventTypes, CallTypes, Free, AtRest
<1>3. LedgerType
  BY DEF Init, LedgerType, NoLedger
<1>4. OnlyChargesAreRecorded
  BY DEF Init, OnlyChargesAreRecorded, Free
<1> QED
  BY <1>1, <1>2, <1>3, <1>4, TypeParts DEF TypeInv

(* Steps on payments keep what each of them is for, so the charges already  *)
(* sent stay theirs.                                                       *)
LEMMA PaymentStep ==
    ASSUME EventTypes, NEW ref \in Refs, NEW status \in {"pending", "success"},
           NEW plan \in PaidPlans,
           payment[ref].status # "none" => plan = payment[ref].plan,
           payment' = [payment EXCEPT ![ref] = [status |-> status, plan |-> plan]],
           UNCHANGED <<paid, sent, processed>>
    PROVE  EventTypes'
<1>1. /\ payment' \in [Refs -> [status : {"pending", "success"}, plan : PaidPlans]
                              \cup {[status |-> "none", plan |-> NoPlan]}]
      /\ paid' \subseteq {r \in Refs : payment'[r].status # "none"}
  BY DEF EventTypes
<1>2. \A r \in paid : payment'[r].plan = payment[r].plan
  BY DEF EventTypes
<1>3. \A r \in paid : Charge(r)' = Charge(r)
  BY <1>2 DEF Charge
<1> QED
  BY <1>1, <1>3 DEF EventTypes

LEMMA SuccessStep ==
    ASSUME EventTypes, NEW ref \in paid,
           payment' = [payment EXCEPT ![ref].status = "success"],
           UNCHANGED <<paid, sent, processed>>
    PROVE  EventTypes'
<1>1. ref \in Refs /\ payment[ref] \in [status : {"pending", "success"}, plan : PaidPlans]
  BY DEF EventTypes
<1>2. [payment[ref] EXCEPT !.status = "success"]
        = [status |-> "success", plan |-> payment[ref].plan]
  BY <1>1
<1>3. payment' = [payment EXCEPT ![ref] = [status |-> "success", plan |-> payment[ref].plan]]
  BY <1>2
<1> QED
  BY <1>1, <1>3, PaymentStep

(* What a step can do to the row: put the tenant on the trial or on a plan  *)
(* some payment is for, renew it, let it fall behind, or edit a flag.      *)
PaidFor(plan) == \/ \E ref \in paid : payment[ref].plan = plan
                 \/ \E e \in sent : e.kind = "renewal" /\ e.plan = plan
TakesPlan == \E plan \in Plans : /\ plan \in PaidPlans => PaidFor(plan)
                                /\ sub' = OnPlan(sub, plan)
Renews == \E e \in sent : /\ e.kind = "renewal"
                          /\ e.plan \in Plans \cup {NoPlan, UnknownPlan}
                          /\ sub' = Renewed(sub, e.plan)
Restricts == sub.status = "past_due" /\ sub' = [sub EXCEPT !.readOnly = TRUE]

LEMMA RowStep ==
    ASSUME TypeInv, [Next]_vars
    PROVE  \/ UNCHANGED sub \/ TakesPlan \/ Renews \/ sub' = PastDue(sub) \/ Restricts
           \/ Cancel \/ Reactivate \/ TrialEnds \/ GraceEnds
<1> DEFINE Change == \/ UNCHANGED sub \/ TakesPlan \/ Renews \/ sub' = PastDue(sub)
                     \/ Restricts \/ Cancel \/ Reactivate \/ TrialEnds \/ GraceEnds
<1>0. EventTypes /\ CallTypes
  BY TypeParts DEF TypeInv
<1>1. CASE EnsureSubscription \/ StartTrial
  <2>1. TrialPlan \in Plans /\ TrialPlan \notin PaidPlans
    BY BillingAssumption DEF Plans
  <2> QED
    BY <1>1, <2>1 DEF EnsureSubscription, StartTrial, TakesPlan
<1>2. ASSUME NEW ref \in Refs, ConfirmChangesPlan(ref) PROVE TakesPlan
  <2>1. ref \in paid /\ payment[ref].plan \in Plans /\ sub' = OnPlan(sub, payment[ref].plan)
    BY <1>0, <1>2 DEF ConfirmChangesPlan, EventTypes, CallTypes, Plans
  <2> QED
    BY <2>1 DEF TakesPlan, PaidFor
<1>3. ASSUME NEW h \in Handlers, Apply(h) PROVE Change
  <2> DEFINE e == handler[h].event
  <2>1. CASE UNCHANGED sub
    BY <2>1
  <2>2. CASE sub' = Effect(e)
    <3>1. e \in sent
      BY <1>0, <1>3 DEF Apply, CallTypes, Free
    <3>2. CASE e.kind = "charge"
      <4>1. e.id \in paid /\ payment[e.id].plan = e.plan /\ e.plan \in Plans
        BY <3>1, <3>2, EventOK DEF Plans, TypeInv
      <4>2. sub' = OnPlan(sub, e.plan)
        BY <2>2, <3>2 DEF Effect
      <4> QED
        BY <4>1, <4>2 DEF TakesPlan, PaidFor
    <3>3. CASE e.kind = "renewal"
      <4>1. e.plan \in Plans \cup {NoPlan, UnknownPlan}
        BY <3>1, <3>3, EventOK DEF TypeInv
      <4>2. sub' = Renewed(sub, e.plan)
        BY <2>2, <3>3 DEF Effect
      <4> QED
        BY <3>1, <3>3, <4>1, <4>2 DEF Renews
    <3>4. CASE e.kind = "failure"
      BY <2>2, <3>4 DEF Effect
    <3> QED
      BY <3>1, <3>2, <3>3, <3>4, EventOK DEF TypeInv
  <2> QED
    BY <1>3, <2>1, <2>2 DEF Apply
<1>4. ASSUME NEW d \in Dunners, Dun(d) \/ DunningDies(d) PROVE Change
  BY <1>4 DEF Dun, SelectGraceEnded, Restrict, SelectTrialsEnded, Lapse, DunningDies, Restricts
<1>5. ASSUME NEW ref \in Refs,
             StartCheckout(ref) \/ Pay(ref) \/ ConfirmPayment(ref) \/ ConfirmDies(ref)
      PROVE  UNCHANGED sub
  BY <1>5 DEF StartCheckout, Pay, ConfirmPayment, ConfirmDies
<1>6. ASSUME NEW e \in Notices, Notify(e) PROVE UNCHANGED sub
  BY <1>6 DEF Notify
<1>7. ASSUME NEW h \in Handlers, NEW e \in sent, Receive(h, e) PROVE UNCHANGED sub
  BY <1>7 DEF Receive
<1>8. ASSUME NEW h \in Handlers,
             ApplyFails(h) \/ RecordSuccess(h) \/ Mark(h) \/ HandlerDies(h)
      PROVE  UNCHANGED sub
  BY <1>8 DEF ApplyFails, RecordSuccess, Mark, HandlerDies
<1>9. CASE UNCHANGED vars
  BY <1>9 DEF vars
<1> QED
  BY <1>1, <1>2, <1>3, <1>4, <1>5, <1>6, <1>7, <1>8, <1>9 DEF Next

(* The steps that need a subscription leave one that is well-formed.        *)
LEMMA EditOK ==
    ASSUME SubOK(sub), Cancel \/ Reactivate \/ TrialEnds \/ GraceEnds \/ Restricts
    PROVE  SubOK(sub') /\ sub'.plan = sub.plan
<1>1. sub \in SubType
  <2>1. CASE sub.status = "none"
    <3>1. sub = NoSubscription
      BY <2>1, RowOK
    <3> QED
      BY <3>1 DEF Cancel, Reactivate, TrialEnds, GraceEnds, Restricts, NoSubscription
  <2> QED
    BY <2>1, RowOK
<1>2. CASE Cancel \/ Reactivate
  BY <1>1, <1>2 DEF Cancel, Reactivate, SubOK, SubType, Statuses
<1>3. CASE TrialEnds \/ GraceEnds
  BY <1>1, <1>3 DEF TrialEnds, GraceEnds, SubOK, SubType, Statuses
<1>4. CASE Restricts
  BY <1>1, <1>4 DEF Restricts, SubOK, SubType
<1> QED
  BY <1>2, <1>3, <1>4

(* Every step keeps the row well-formed.                                    *)
LEMMA SubStep == ASSUME TypeInv, [Next]_vars PROVE SubOK(sub')
<1>1. SubOK(sub)
  BY TypeParts DEF TypeInv
<1>2. CASE TakesPlan
  BY <1>1, <1>2, OnPlanOK DEF TakesPlan
<1>3. CASE Renews
  BY <1>1, <1>3, RenewedOK DEF Renews
<1>4. CASE sub' = PastDue(sub)
  BY <1>1, <1>4, PastDueOK
<1> QED
  BY <1>1, <1>2, <1>3, <1>4, EditOK, RowStep

(* Every step keeps payments and events in their domains.                   *)
LEMMA EventStep == ASSUME TypeInv, [Next]_vars PROVE EventTypes'
<1>0. EventTypes /\ CallTypes /\ OnlyChargesAreRecorded
  BY TypeParts DEF TypeInv
<1>1. ASSUME NEW ref \in Refs, StartCheckout(ref) PROVE EventTypes'
  BY <1>0, <1>1, PaymentStep DEF StartCheckout
<1>2. ASSUME NEW ref \in Refs, Pay(ref) PROVE EventTypes'
  BY <1>0, <1>2 DEF Pay, EventTypes, Charge
<1>3. ASSUME NEW e \in Notices, Notify(e) PROVE EventTypes'
  BY <1>0, <1>3 DEF Notify, EventTypes, Charge
<1>4. ASSUME NEW ref \in Refs, ConfirmPayment(ref) PROVE EventTypes'
  BY <1>0, <1>4, SuccessStep DEF ConfirmPayment
<1>5. ASSUME NEW h \in Handlers, ApplyFails(h) \/ Mark(h) PROVE EventTypes'
  <2>1. handler[h].event \in sent
    BY <1>0, <1>5 DEF ApplyFails, Mark, CallTypes, Free
  <2> QED
    BY <1>0, <1>5, <2>1 DEF ApplyFails, Mark, EventTypes, Charge
<1>6. ASSUME NEW h \in Handlers, RecordSuccess(h) PROVE EventTypes'
  <2>1. handler[h].event \in sent /\ handler[h].event.kind = "charge"
    BY <1>0, <1>6 DEF RecordSuccess, CallTypes, Free, OnlyChargesAreRecorded
  <2>2. handler[h].event.id \in paid
    BY <2>1, EventOK DEF TypeInv
  <2>3. CASE payment' = [payment EXCEPT ![handler[h].event.id].status = "success"]
    BY <1>0, <1>6, <2>2, <2>3, SuccessStep DEF RecordSuccess
  <2>4. CASE UNCHANGED payment
    BY <1>0, <1>6, <2>4 DEF RecordSuccess, EventTypes, Charge
  <2> QED
    BY <1>6, <2>3, <2>4 DEF RecordSuccess
<1>7. CASE UNCHANGED <<payment, paid, sent, processed>>
  BY <1>0, <1>7 DEF EventTypes, Charge
<1> QED
  <2>1. CASE EnsureSubscription \/ StartTrial \/ Cancel \/ Reactivate \/ TrialEnds \/ GraceEnds
    BY <1>7, <2>1 DEF EnsureSubscription, StartTrial, Cancel, Reactivate, TrialEnds, GraceEnds
  <2>2. ASSUME NEW ref \in Refs, ConfirmChangesPlan(ref) \/ ConfirmDies(ref) PROVE EventTypes'
    BY <1>7, <2>2 DEF ConfirmChangesPlan, ConfirmDies
  <2>3. ASSUME NEW h \in Handlers, NEW e \in sent, Receive(h, e) PROVE EventTypes'
    BY <1>7, <2>3 DEF Receive
  <2>4. ASSUME NEW h \in Handlers, Apply(h) \/ HandlerDies(h) PROVE EventTypes'
    BY <1>7, <2>4 DEF Apply, HandlerDies
  <2>5. ASSUME NEW d \in Dunners, Dun(d) \/ DunningDies(d) PROVE EventTypes'
    BY <1>7, <2>5 DEF Dun, SelectGraceEnded, Restrict, SelectTrialsEnded, Lapse, DunningDies
  <2>6. CASE UNCHANGED vars
    BY <1>7, <2>6 DEF vars
  <2> QED
    BY <1>1, <1>2, <1>3, <1>4, <1>5, <1>6, <2>1, <2>2, <2>3, <2>4, <2>5, <2>6 DEF Next

(* Every step keeps the calls under way in their domains, and records only  *)
(* the payments of charges.                                                *)
LEMMA CallStep == ASSUME TypeInv, [Next]_vars PROVE CallTypes' /\ OnlyChargesAreRecorded'
<1> DEFINE Goal == CallTypes' /\ OnlyChargesAreRecorded'
<1>0. CallTypes /\ OnlyChargesAreRecorded /\ paid \subseteq Refs
  BY TypeParts DEF TypeInv, EventTypes
<1> USE DEF CallTypes, OnlyChargesAreRecorded
<1>1. ASSUME NEW ref \in Refs, Pay(ref) PROVE Goal
  BY <1>0, <1>1 DEF Pay
<1>2. ASSUME NEW e \in Notices, Notify(e) PROVE Goal
  BY <1>0, <1>2 DEF Notify
<1>3. ASSUME NEW ref \in Refs,
             ConfirmPayment(ref) \/ ConfirmChangesPlan(ref) \/ ConfirmDies(ref)
      PROVE  Goal
  BY <1>0, <1>3, BillingAssumption DEF ConfirmPayment, ConfirmChangesPlan, ConfirmDies
<1>4. ASSUME NEW h \in Handlers, NEW e \in sent, Receive(h, e) PROVE Goal
  BY <1>0, <1>4 DEF Receive
<1>5. ASSUME NEW h \in Handlers, Apply(h) PROVE Goal
  <2>1. handler[h] \in [pc : {"apply", "record", "mark"}, event : sent]
    BY <1>0, <1>5 DEF Apply, Free
  <2>2. PICK pc \in {"record", "mark"} :
           /\ pc = "record" => handler[h].event.kind = "charge"
           /\ handler' = [handler EXCEPT ![h].pc = pc]
    BY <1>5 DEF Apply
  <2>3. UNCHANGED <<sent, paid, confirming, dunning, faults>>
    BY <1>5 DEF Apply
  <2> QED
    BY <1>0, <2>1, <2>2, <2>3
<1>6. ASSUME NEW h \in Handlers, RecordSuccess(h) PROVE Goal
  <2>1. handler[h] \in [pc : {"apply", "record", "mark"}, event : sent]
    BY <1>0, <1>6 DEF RecordSuccess, Free
  <2>2. faults' \in 0..MaxFaults
    BY <1>0, <1>6, BillingAssumption DEF RecordSuccess
  <2>3. /\ handler' = [handler EXCEPT ![h].pc = "mark"]
        /\ UNCHANGED <<sent, paid, confirming, dunning>>
    BY <1>6 DEF RecordSuccess
  <2> QED
    BY <1>0, <2>1, <2>2, <2>3
<1>7. ASSUME NEW h \in Handlers, ApplyFails(h) \/ Mark(h) \/ HandlerDies(h) PROVE Goal
  <2>1. faults' \in 0..MaxFaults
    BY <1>0, <1>7, BillingAssumption DEF ApplyFails, Mark, HandlerDies
  <2>2. /\ handler' = [handler EXCEPT ![h] = Free]
        /\ UNCHANGED <<sent, paid, confirming, dunning>>
    BY <1>7 DEF ApplyFails, Mark, HandlerDies
  <2> QED
    BY <1>0, <2>1, <2>2 DEF Free
<1>8. ASSUME NEW d \in Dunners, Dun(d) \/ DunningDies(d) PROVE Goal
  <2>1. faults' \in 0..MaxFaults
    BY <1>0, <1>8, BillingAssumption
       DEF Dun, SelectGraceEnded, Restrict, SelectTrialsEnded, Lapse, DunningDies
  <2>2. UNCHANGED <<handler, sent, paid, confirming>>
    BY <1>8 DEF Dun, SelectGraceEnded, Restrict, SelectTrialsEnded, Lapse, DunningDies
  <2>3. dunning' \in [Dunners -> [pc : {"idle", "restrict", "query", "lapse"}, due : BOOLEAN]]
    <3>1. CASE SelectGraceEnded(d)
      <4>1. \E due \in BOOLEAN :
               dunning' = [dunning EXCEPT ![d] = [pc |-> "restrict", due |-> due]]
        BY <3>1, Zenon DEF SelectGraceEnded
      <4> QED
        BY <1>0, <4>1
    <3>2. CASE SelectTrialsEnded(d)
      <4>1. \E due \in BOOLEAN :
               dunning' = [dunning EXCEPT ![d] = [pc |-> "lapse", due |-> due]]
        BY <3>2, Zenon DEF SelectTrialsEnded
      <4> QED
        BY <1>0, <4>1
    <3>3. CASE Restrict(d) \/ Lapse(d) \/ DunningDies(d)
      <4>1. \E pc \in {"idle", "query"} :
               dunning' = [dunning EXCEPT ![d] = [pc |-> pc, due |-> FALSE]]
        BY <3>3 DEF Restrict, Lapse, DunningDies, AtRest
      <4> QED
        BY <1>0, <4>1
    <3> QED
      BY <1>8, <3>1, <3>2, <3>3 DEF Dun
  <2> QED
    BY <1>0, <2>1, <2>2, <2>3
<1>9. CASE UNCHANGED <<handler, sent, paid, confirming, dunning, faults>>
  BY <1>0, <1>9
<1> QED
  <2>1. CASE EnsureSubscription \/ StartTrial \/ Cancel \/ Reactivate \/ TrialEnds \/ GraceEnds
    BY <1>9, <2>1 DEF EnsureSubscription, StartTrial, Cancel, Reactivate, TrialEnds, GraceEnds
  <2>2. ASSUME NEW ref \in Refs, StartCheckout(ref) PROVE Goal
    BY <1>9, <2>2 DEF StartCheckout
  <2>3. CASE UNCHANGED vars
    BY <1>9, <2>3 DEF vars
  <2> QED
    BY <1>1, <1>2, <1>3, <1>4, <1>5, <1>6, <1>7, <1>8, <2>1, <2>2, <2>3 DEF Next

(* Every step keeps the ledger in its domain.                               *)
LEMMA LedgerStep == ASSUME TypeInv, [Next]_vars PROVE LedgerType'
<1>0. LedgerType /\ CallTypes
  BY TypeParts DEF TypeInv
<1> DEFINE Flags == [paidUp : BOOLEAN, raced : BOOLEAN]
<1>1. CASE StartTrial
  BY <1>0, <1>1, LedgerOK DEF StartTrial, LedgerType
<1>2. ASSUME NEW ref \in Refs, ConfirmChangesPlan(ref) PROVE LedgerType'
  <2>1. PlanTaken(ledger, payment[ref].plan) \in Flags
    BY <1>0, LedgerOK
  <2> QED
    BY <1>2, <2>1 DEF ConfirmChangesPlan, LedgerType
<1>3. ASSUME NEW h \in Handlers, NEW e \in sent, Receive(h, e) PROVE LedgerType'
  BY <1>0, <1>3 DEF Receive, LedgerType
<1>4. ASSUME NEW h \in Handlers, Apply(h) PROVE LedgerType'
  <2> DEFINE e == handler[h].event
  <2>1. e \in sent /\ UNCHANGED sent
    BY <1>0, <1>4 DEF Apply, CallTypes, Free
  <2>2. Applied(e) \in Flags
    BY <1>0, LedgerOK DEF Applied, LedgerType
  <2>3. CASE ledger' = Applied(e)
    BY <2>2, <2>3 DEF LedgerType
  <2>4. CASE UNCHANGED ledger
    BY <1>0, <2>1, <2>4 DEF LedgerType
  <2> QED
    BY <1>4, <2>3, <2>4 DEF Apply
<1>5. CASE UNCHANGED ledger /\ sent \subseteq sent'
  BY <1>0, <1>5 DEF LedgerType
<1> QED
  <2>1. CASE EnsureSubscription \/ Cancel \/ Reactivate \/ TrialEnds \/ GraceEnds
    BY <1>5, <2>1 DEF EnsureSubscription, Cancel, Reactivate, TrialEnds, GraceEnds
  <2>2. ASSUME NEW ref \in Refs,
               StartCheckout(ref) \/ Pay(ref) \/ ConfirmPayment(ref) \/ ConfirmDies(ref)
        PROVE  LedgerType'
    BY <1>5, <2>2 DEF StartCheckout, Pay, ConfirmPayment, ConfirmDies
  <2>3. ASSUME NEW e \in Notices, Notify(e) PROVE LedgerType'
    BY <1>5, <2>3 DEF Notify
  <2>4. ASSUME NEW h \in Handlers,
               ApplyFails(h) \/ RecordSuccess(h) \/ Mark(h) \/ HandlerDies(h)
        PROVE  LedgerType'
    BY <1>5, <2>4 DEF ApplyFails, RecordSuccess, Mark, HandlerDies
  <2>5. ASSUME NEW d \in Dunners, Dun(d) \/ DunningDies(d) PROVE LedgerType'
    BY <1>5, <2>5 DEF Dun, SelectGraceEnded, Restrict, SelectTrialsEnded, Lapse, DunningDies
  <2>6. CASE UNCHANGED vars
    BY <1>5, <2>6 DEF vars
  <2> QED
    BY <1>1, <1>2, <1>3, <1>4, <2>1, <2>2, <2>3, <2>4, <2>5, <2>6 DEF Next

(* Types are inductive: every step keeps all of them.                       *)
LEMMA TypeStep == ASSUME TypeInv, [Next]_vars PROVE TypeInv'
<1>1. SubOK(sub)' /\ EventTypes' /\ CallTypes' /\ OnlyChargesAreRecorded' /\ LedgerType'
  <2>1. SubOK(sub)'
    BY SubStep DEF SubOK, NoSubscription, SubType
  <2> QED
    BY <2>1, EventStep, CallStep, LedgerStep
<1>2. TypeOK'
  BY <1>1 DEF TypeOK, SubOK, SubType, EventTypes, CallTypes, LedgerType
<1> QED
  BY <1>1, <1>2 DEF TypeInv

(* The subscription, its payments and events, and the calls that work on    *)
(* them stay in their domains, and nothing is ever past due without a      *)
(* grace period on record.                                                 *)
THEOREM BillingTypeCorrect == Spec => []TypeOK
<1>1. TypeInv => TypeOK
  BY DEF TypeInv
<1> QED
  BY <1>1, TypeInit, TypeStep, PTL DEF Spec

-----------------------------------------------------------------------------
(* What a tenant has, and what it paid for *)

(* What Paystack charged or announced stays charged and announced, and a    *)
(* payment is for the same plan for ever.                                  *)
LEMMA Monotone ==
    ASSUME TypeInv, [Next]_vars
    PROVE  /\ sent \subseteq sent' /\ paid \subseteq paid'
           /\ \A ref \in paid : payment'[ref].plan = payment[ref].plan
<1> DEFINE Goal == /\ sent \subseteq sent' /\ paid \subseteq paid'
                   /\ \A ref \in paid : payment'[ref].plan = payment[ref].plan
<1>0. EventTypes /\ CallTypes /\ OnlyChargesAreRecorded
  BY TypeParts DEF TypeInv
<1>1. ASSUME NEW ref \in Refs, StartCheckout(ref) PROVE Goal
  <2>1. ref \notin paid
    BY <1>0, <1>1 DEF StartCheckout, EventTypes
  <2> QED
    BY <1>0, <1>1, <2>1 DEF StartCheckout, EventTypes
<1>2. ASSUME NEW ref \in Refs, ConfirmPayment(ref) PROVE Goal
  BY <1>0, <1>2 DEF ConfirmPayment, EventTypes
<1>3. ASSUME NEW h \in Handlers, RecordSuccess(h) PROVE Goal
  BY <1>0, <1>3 DEF RecordSuccess, EventTypes
<1>4. CASE UNCHANGED payment /\ sent \subseteq sent' /\ paid \subseteq paid'
  BY <1>4
<1> QED
  <2>1. CASE EnsureSubscription \/ StartTrial \/ Cancel \/ Reactivate \/ TrialEnds \/ GraceEnds
    BY <1>4, <2>1 DEF EnsureSubscription, StartTrial, Cancel, Reactivate, TrialEnds, GraceEnds
  <2>2. ASSUME NEW ref \in Refs, Pay(ref) \/ ConfirmChangesPlan(ref) \/ ConfirmDies(ref)
        PROVE  Goal
    BY <1>4, <2>2 DEF Pay, ConfirmChangesPlan, ConfirmDies
  <2>3. ASSUME NEW e \in Notices, Notify(e) PROVE Goal
    BY <1>4, <2>3 DEF Notify
  <2>4. ASSUME NEW h \in Handlers, NEW e \in sent, Receive(h, e) PROVE Goal
    BY <1>4, <2>4 DEF Receive
  <2>5. ASSUME NEW h \in Handlers, Apply(h) \/ ApplyFails(h) \/ Mark(h) \/ HandlerDies(h)
        PROVE  Goal
    BY <1>4, <2>5 DEF Apply, ApplyFails, Mark, HandlerDies
  <2>6. ASSUME NEW d \in Dunners, Dun(d) \/ DunningDies(d) PROVE Goal
    BY <1>4, <2>6 DEF Dun, SelectGraceEnded, Restrict, SelectTrialsEnded, Lapse, DunningDies
  <2>7. CASE UNCHANGED vars
    BY <1>4, <2>7 DEF vars
  <2> QED
    BY <1>1, <1>2, <1>3, <2>1, <2>2, <2>3, <2>4, <2>5, <2>6, <2>7 DEF Next

(* Every step keeps the tenant's plan one that was paid for.                *)
LEMMA PaidForStep == ASSUME TypeInv, PlanIsPaidFor, [Next]_vars PROVE PlanIsPaidFor'
<1>1. SubOK(sub)
  BY TypeParts DEF TypeInv
<1>2. ASSUME NEW plan, PaidFor(plan) PROVE PaidFor(plan)'
  BY <1>2, Monotone DEF PaidFor
<1>3. CASE sub'.plan = sub.plan
  BY <1>2, <1>3 DEF PlanIsPaidFor, PaidFor
<1>4. CASE TakesPlan
  <2>1. PICK plan \in Plans : (plan \in PaidPlans => PaidFor(plan)) /\ sub' = OnPlan(sub, plan)
    BY <1>4 DEF TakesPlan
  <2>2. sub'.plan = plan
    BY <1>1, <2>1, OnPlanOK
  <2> QED
    BY <1>2, <2>1, <2>2 DEF PlanIsPaidFor, PaidFor
<1>5. CASE Renews
  <2>1. PICK e \in sent : /\ e.kind = "renewal"
                         /\ e.plan \in Plans \cup {NoPlan, UnknownPlan}
                         /\ sub' = Renewed(sub, e.plan)
    BY <1>5 DEF Renews
  <2>2. CASE sub'.plan = e.plan
    BY <2>1, <2>2, Monotone DEF PlanIsPaidFor
  <2> QED
    BY <1>1, <1>3, <2>1, <2>2, RenewedOK
<1> QED
  BY <1>1, <1>3, <1>4, <1>5, RowStep, PastDueOK, EditOK

(* Whatever a browser claims and however events are repeated or reordered,  *)
(* a tenant is on a paid plan only if Paystack charged or renewed that     *)
(* plan for it.                                                            *)
THEOREM NoPlanUnpaid == Spec => []PlanIsPaidFor
<1>1. Init => TypeInv /\ PlanIsPaidFor
  BY TypeInit, BillingAssumption DEF Init, PlanIsPaidFor, NoSubscription, Plans
<1>2. TypeInv /\ PlanIsPaidFor /\ [Next]_vars => (TypeInv /\ PlanIsPaidFor)'
  BY TypeStep, PaidForStep
<1> QED
  BY <1>1, <1>2, PTL DEF Spec

-----------------------------------------------------------------------------
(* Who can write *)

(* A trial is never restricted.                                             *)
Unrestricted == sub.status = "trialing" => ~sub.readOnly

LEMMA TrialStep == ASSUME TypeInv, Unrestricted, [Next]_vars PROVE Unrestricted'
<1>1. SubOK(sub) /\ (sub.status # "none" => sub \in SubType)
  BY TypeParts, RowOK DEF TypeInv
<1>2. CASE TakesPlan
  BY <1>1, <1>2, OnPlanOK DEF TakesPlan, Unrestricted
<1>3. CASE Renews
  BY <1>1, <1>3, RenewedOK DEF Renews, Unrestricted
<1>4. CASE sub' = PastDue(sub)
  BY <1>1, <1>4, PastDueOK DEF Unrestricted
<1>5. CASE Restricts
  BY <1>1, <1>5 DEF Restricts, Unrestricted, SubType
<1>6. CASE Cancel \/ Reactivate \/ TrialEnds \/ GraceEnds
  <2>1. \/ sub'.status = sub.status /\ sub'.readOnly = sub.readOnly
        \/ sub'.status # "trialing"
    BY <1>1, <1>6 DEF Cancel, Reactivate, TrialEnds, GraceEnds, SubOK, SubType, NoSubscription
  <2> QED
    BY <2>1 DEF Unrestricted
<1>7. CASE UNCHANGED sub
  BY <1>7 DEF Unrestricted
<1> QED
  BY <1>2, <1>3, <1>4, <1>5, <1>6, <1>7, RowStep

(* A tenant can write during its whole trial, wherever in a dunning pass    *)
(* the trial began.                                                        *)
THEOREM TrialNeverReadOnly == Spec => []TrialIsWritable
<1>1. Init => TypeInv /\ Unrestricted
  BY TypeInit DEF Init, Unrestricted, NoSubscription
<1>2. TypeInv /\ Unrestricted /\ [Next]_vars => (TypeInv /\ Unrestricted)'
  BY TypeStep, TrialStep
<1>3. Unrestricted => TrialIsWritable
  BY DEF Unrestricted, TrialIsWritable, Writable
<1> QED
  BY <1>1, <1>2, <1>3, PTL DEF Spec

(* Why a paying tenant can write: its row is neither restricted nor past    *)
(* due, and no dunning pass is about to end a trial of its.                *)
Standing == /\ ~sub.readOnly
            /\ sub.status \in {"active", "cancelled"}
            /\ \A d \in Dunners : dunning[d].pc = "lapse" => ~dunning[d].due
PaidInv == ledger.paidUp /\ ~ledger.raced => Standing

(* A payment that takes effect either leaves the tenant in good standing or *)
(* raced with a dunning pass.                                              *)
LEMMA PayingStands ==
    ASSUME TypeInv, ledger' = Paying(ledger), UNCHANGED dunning,
           ~sub'.readOnly, sub'.status = "active"
    PROVE  PaidInv'
  BY TypeParts DEF TypeInv, LedgerType, Paying, PaidInv, Standing

(* A change of plan, by a confirmation or by a charge.                      *)
LEMMA PlanStands ==
    ASSUME TypeInv, NEW plan \in PaidPlans, sub' = OnPlan(sub, plan)
    PROVE  ~sub'.readOnly /\ sub'.status = "active" /\ PlanTaken(ledger, plan) = Paying(ledger)
<1>1. plan \in Plans /\ plan # TrialPlan
  BY BillingAssumption DEF Plans
<1> QED
  BY <1>1, OnPlanOK, TypeParts DEF TypeInv, PlanTaken

LEMMA PaidApply ==
    ASSUME TypeInv, PaidInv, NEW h \in Handlers, Apply(h)
    PROVE  PaidInv'
<1> DEFINE e == handler[h].event
<1>0. SubOK(sub) /\ LedgerType /\ UNCHANGED dunning /\ e \in sent
  BY TypeParts DEF TypeInv, Apply, CallTypes, Free
<1>1. CASE ~e.addressed
  BY <1>1 DEF Apply, PaidInv, Standing
<1>2. CASE e.addressed
  <2>1. sub' = Effect(e) /\ ledger' = Applied(e)
    BY <1>2 DEF Apply
  <2>2. CASE e.kind = "charge"
    <3>1. e.plan \in PaidPlans
      BY <1>0, <2>2, EventOK DEF TypeInv
    <3> QED
      BY <1>0, <2>1, <2>2, <3>1, PlanStands, PayingStands DEF Effect, Applied
  <2>3. CASE e.kind = "renewal" /\ ~(sub.status = "none" \/ e.plan = NoPlan)
    <3>1. e.plan \in Plans \cup {NoPlan, UnknownPlan} /\ sub' = Renewed(sub, e.plan)
      BY <1>0, <2>1, <2>3, EventOK DEF Effect, TypeInv
    <3>2. ~sub'.readOnly /\ sub'.status = "active"
      BY <1>0, <2>3, <3>1, RenewedOK
    <3> QED
      BY <1>0, <2>1, <2>3, <3>2, PayingStands DEF Applied
  <2>4. CASE e.kind = "renewal" /\ (sub.status = "none" \/ e.plan = NoPlan)
    <3>1. sub' = sub /\ ledger' = ledger
      BY <2>1, <2>4 DEF Effect, Renewed, Applied
    <3> QED
      BY <1>0, <3>1 DEF PaidInv, Standing, LedgerType
  <2>5. CASE e.kind = "failure"
    <3>1. ~ledger'.paidUp
      BY <1>0, <2>1, <2>5 DEF Applied, NotPaying, LedgerType
    <3> QED
      BY <3>1 DEF PaidInv
  <2> QED
    BY <1>0, <2>2, <2>3, <2>4, <2>5, EventOK DEF TypeInv
<1> QED
  BY <1>1, <1>2

LEMMA PaidDun ==
    ASSUME TypeInv, PaidInv, NEW d \in Dunners, Dun(d) \/ DunningDies(d)
    PROVE  PaidInv'
<1>0. CallTypes /\ UNCHANGED ledger
  BY TypeParts DEF TypeInv, Dun, SelectGraceEnded, Restrict, SelectTrialsEnded, Lapse,
                   DunningDies
<1> SUFFICES ASSUME Standing PROVE Standing'
  BY <1>0 DEF PaidInv
<1>1. CASE SelectGraceEnded(d)
  BY <1>0, <1>1 DEF SelectGraceEnded, Standing, CallTypes
<1>2. CASE Restrict(d)
  BY <1>0, <1>2 DEF Restrict, Standing, CallTypes
<1>3. CASE SelectTrialsEnded(d)
  BY <1>0, <1>3 DEF SelectTrialsEnded, Standing, CallTypes
<1>4. CASE Lapse(d)
  BY <1>0, <1>4 DEF Lapse, Standing, CallTypes, AtRest
<1>5. CASE DunningDies(d)
  BY <1>0, <1>5 DEF DunningDies, Standing, CallTypes, AtRest
<1> QED
  BY <1>1, <1>2, <1>3, <1>4, <1>5 DEF Dun

(* Every step keeps a paying tenant in good standing.                       *)
LEMMA PaidStep == ASSUME TypeInv, PaidInv, [Next]_vars PROVE PaidInv'
<1>0. SubOK(sub) /\ EventTypes /\ CallTypes /\ LedgerType
  BY TypeParts DEF TypeInv
<1>1. CASE EnsureSubscription
  BY <1>1 DEF EnsureSubscription, PaidInv, Standing
<1>2. CASE StartTrial
  BY <1>0, <1>2, LedgerOK DEF StartTrial, PaidInv
<1>3. ASSUME NEW ref \in Refs, ConfirmChangesPlan(ref) PROVE PaidInv'
  <2>1. payment[ref].plan \in PaidPlans
    BY <1>0, <1>3 DEF ConfirmChangesPlan, EventTypes, CallTypes
  <2> QED
    BY <1>3, <2>1, PlanStands, PayingStands DEF ConfirmChangesPlan
<1>4. CASE Cancel \/ Reactivate \/ TrialEnds \/ GraceEnds
  <2>1. UNCHANGED <<ledger, dunning>>
    BY <1>4 DEF Cancel, Reactivate, TrialEnds, GraceEnds
  <2>2. ASSUME Standing PROVE Standing'
    <3>1. sub \in SubType
      BY <1>0, <2>2, RowOK DEF Standing
    <3>2. /\ sub'.readOnly = sub.readOnly
          /\ sub'.status \in {sub.status, "active", "cancelled"}
      BY <1>4, <3>1 DEF Cancel, Reactivate, TrialEnds, GraceEnds, SubType
    <3> QED
      BY <2>1, <2>2, <3>2 DEF Standing
  <2> QED
    BY <2>1, <2>2 DEF PaidInv
<1>5. ASSUME NEW h \in Handlers, NEW e \in sent, Receive(h, e) PROVE PaidInv'
  BY <1>5 DEF Receive, PaidInv, Standing
<1>6. CASE UNCHANGED <<sub, dunning, ledger>>
  BY <1>6 DEF PaidInv, Standing
<1> QED
  <2>1. ASSUME NEW ref \in Refs,
               StartCheckout(ref) \/ Pay(ref) \/ ConfirmPayment(ref) \/ ConfirmDies(ref)
        PROVE  PaidInv'
    BY <1>6, <2>1 DEF StartCheckout, Pay, ConfirmPayment, ConfirmDies
  <2>2. ASSUME NEW e \in Notices, Notify(e) PROVE PaidInv'
    BY <1>6, <2>2 DEF Notify
  <2>3. ASSUME NEW h \in Handlers,
               ApplyFails(h) \/ RecordSuccess(h) \/ Mark(h) \/ HandlerDies(h)
        PROVE  PaidInv'
    BY <1>6, <2>3 DEF ApplyFails, RecordSuccess, Mark, HandlerDies
  <2>4. CASE UNCHANGED vars
    BY <1>6, <2>4 DEF vars
  <2> QED
    BY <1>1, <1>2, <1>3, <1>4, <1>5, <2>1, <2>2, <2>3, <2>4, PaidApply, PaidDun DEF Next

(* A tenant that has paid and had no failed renewal since can write, unless *)
(* its payment came between a dunning pass's query and its update.         *)
THEOREM PaidCanWrite == Spec => []PaidIsWritable
<1>1. Init => TypeInv /\ PaidInv
  BY TypeInit DEF Init, PaidInv, NoLedger
<1>2. TypeInv /\ PaidInv /\ [Next]_vars => (TypeInv /\ PaidInv)'
  BY TypeStep, PaidStep
<1>3. PaidInv => PaidIsWritable
  BY DEF PaidInv, Standing, PaidIsWritable, Writable
<1> QED
  BY <1>1, <1>2, <1>3, PTL DEF Spec
=============================================================================
