----------------------------- MODULE UsageLimits -----------------------------
(***************************************************************************)
(* What a store may use: AI calls, which pass the kill switch, the feature  *)
(* flag, the daily quota and the plan's monthly limit before the provider   *)
(* is called, and exports, which pass the plan's limit alone.  Every gate   *)
(* reads the database in a transaction of its own, and what was used is     *)
(* added after the use: concurrent callers pass on the same reading.        *)
(*                                                                         *)
(* One feature and one store, which is created with a subscription or, when *)
(* that fails, without; without one nothing is limited.  The tokens, the    *)
(* input size and the requests per minute are refusals that may come at any *)
(* call.                                                                   *)
(***************************************************************************)
EXTENDS Naturals, FiniteSetsExt, Functions

CONSTANTS
    Callers,      \* requests under way at once
    DailyLimit,   \* daily_request_limit
    Limits,       \* monthly limits a plan or an override may give
    NoGrant,      \* no override
    RowCap,       \* exportRowCap
    Bound,        \* how often each hazard may happen
    MostHazards   \* and all of them together

Hazards == {"admin", "fault", "date"}
Metrics == {"ai_requests", "export_rows"}

ASSUME LimitsAssumption ==
    /\ IsFiniteSet(Callers) /\ Callers # {}
    /\ DailyLimit \in Nat /\ RowCap \in Nat
    /\ Limits \subseteq Nat /\ Limits # {} /\ IsFiniteSet(Limits)
    /\ NoGrant \notin Limits
    /\ Bound \in [Hazards -> Nat] /\ MostHazards \in Nat

VARIABLES
    switch,   \* the kill switches' rows, one for the platform, one for the store
    flag,     \* the feature flags' rows, the same
    store,    \* the organization and whether it has a subscription
    plan,     \* what the subscription's plan entitles to, of each metric
    granted,  \* overrides: organization_entitlements
    counter,  \* usage_counters of this month
    rows,     \* ai_invocations of today, as far as DailyLimit
    call,     \* what each caller has passed
    history,  \* what the properties need to know of the past
    spent     \* hazards so far

limits == <<store, plan, granted>>
vars == <<switch, flag, limits, counter, rows, call, history, spent>>

Scopes == {"platform", "tenant"}
RowStates == {"none", "off", "on"}
Idle == [phase |-> "idle", amount |-> 0]

(* used: what was really used this month, and today; unchecked: what passed *)
(* without a check; uncounted: what was never counted; highest: the highest *)
(* limit this month; ahead: callers past the switches when one was turned   *)
(* on.                                                                     *)
TypeOK ==
    /\ switch \in [Scopes -> RowStates] /\ flag \in [Scopes -> RowStates]
    /\ store \in {"absent", "unsubscribed", "subscribed"}
    /\ plan \in Limits /\ granted \in [Metrics -> Limits \cup {NoGrant}]
    /\ counter \in [Metrics -> Nat]
    /\ rows \in 0..DailyLimit
    /\ call \in [Callers -> [phase : {"idle", "loaded", "quota", "ready", "completed",
                                      "metered", "building", "unbounded",
                                      "exported"},
                             amount : 0..RowCap]]
    /\ history \in [used : [Metrics -> Nat], today : Nat,
                    unchecked : [Metrics -> Nat],
                    uncounted : [Metrics -> Nat], unlogged : Nat,
                    highest : [Metrics -> Limits], ahead : SUBSET Callers]
    /\ spent \in [Hazards -> Nat]
    /\ \A c \in Callers : call[c].amount # 0 => call[c].phase = "exported"

(* Before the store is created; only an administrator sets the platform's   *)
(* rows.                                                                   *)
Init ==
    /\ switch \in [Scopes -> {"none", "off"}] /\ switch["tenant"] = "none"
    /\ flag \in [Scopes -> RowStates] /\ flag["tenant"] = "none"
    /\ store = "absent" /\ plan \in Limits
    /\ granted = [m \in Metrics |-> NoGrant]
    /\ counter = [m \in Metrics |-> 0]
    /\ rows = 0
    /\ call = [c \in Callers |-> Idle]
    /\ history = [used |-> counter, today |-> 0, unchecked |-> counter,
                  uncounted |-> counter, unlogged |-> 0,
                  highest |-> [m \in Metrics |-> plan], ahead |-> {}]
    /\ spent = [h \in Hazards |-> 0]

HazardsSoFar == FoldFunction(+, 0, spent)

Spend(h) ==
    /\ spent[h] < Bound[h] /\ HazardsSoFar < MostHazards
    /\ spent' = [spent EXCEPT ![h] = @ + 1]

InPhase(c, phase) == call[c].phase = phase
Goes(c, phase) == call' = [call EXCEPT ![c].phase = phase]

-----------------------------------------------------------------------------
(***************************************************************************)
(* The store and its plan.                                                 *)
(***************************************************************************)
(* CreateOrg commits the store and then asks EnsureSubscription for its     *)
(* trial.  That this fails is logged, and nothing asks again.  (A request   *)
(* repeated with its idempotency key is answered from the first one.)       *)
CreateOrg ==
    /\ \/ store' = "subscribed" /\ UNCHANGED spent
       \/ store' = "unsubscribed" /\ Spend("fault")
    /\ UNCHANGED <<switch, flag, plan, granted, counter, rows, call, history>>

(* An override wins over every plan.                                        *)
Entitlement(m) == IF granted[m] # NoGrant THEN granted[m] ELSE plan

HighestNow == [m \in Metrics |-> Max({history.highest[m], Entitlement(m)'})]

(* changePlan, which also subscribes a store that was not.                  *)
ChangePlan(value) ==
    /\ Spend("admin")
    /\ store' = "subscribed" /\ plan' = value
    /\ UNCHANGED <<switch, flag, granted, counter, rows, call>>
    /\ history' = [history EXCEPT !.highest = HighestNow]

GrantEntitlement(m, value) ==
    /\ Spend("admin")
    /\ granted' = [granted EXCEPT ![m] = value]
    /\ UNCHANGED <<switch, flag, store, plan, counter, rows, call>>
    /\ history' = [history EXCEPT !.highest = HighestNow]

-----------------------------------------------------------------------------
(***************************************************************************)
(* The gates.                                                              *)
(***************************************************************************)
(* Mutant: the store's own switch is looked at first.                       *)
TenantFirst == IF switch["tenant"] # "none" THEN switch["tenant"] = "on"
               ELSE switch["platform"] = "on"

(* A platform row, also one that is off, hides the store's.  Of the flags   *)
(* too: organization_id = $2 is NULL for the platform's row, and NULL sorts *)
(* first when descending.                                                  *)
KillSwitchEnabled == IF switch["platform"] # "none" THEN switch["platform"] = "on"
                     ELSE switch["tenant"] = "on"
FeatureEnabled == IF flag["platform"] # "none" THEN flag["platform"] = "on"
                  ELSE flag["tenant"] = "on"

(* A row for every attempt, refused ones included; they count as requests.  *)
Log == rows' = Min({DailyLimit, rows + 1})

Ends(c) == call' = [call EXCEPT ![c] = Idle]

Refuse(c) ==
    /\ Ends(c) /\ Log
    /\ UNCHANGED history

LoadControl(c) ==
    /\ InPhase(c, "idle")
    /\ IF KillSwitchEnabled \/ ~FeatureEnabled THEN Refuse(c)
       ELSE /\ Goes(c, "loaded")
            /\ history' = [history EXCEPT !.ahead = @ \ {c}]
            /\ UNCHANGED rows
    /\ UNCHANGED <<switch, flag, limits, counter, spent>>

(* ScreenUntrusted finds an instruction in what a customer wrote.           *)
ScreenUntrusted(c) ==
    /\ InPhase(c, "loaded")
    /\ Refuse(c)
    /\ UNCHANGED <<switch, flag, limits, counter, spent>>

CheckQuota(c) ==
    /\ InPhase(c, "loaded")
    /\ \/ /\ rows < DailyLimit
          /\ Goes(c, "quota")
          /\ UNCHANGED <<rows, history>>
       \/ Refuse(c)
    /\ UNCHANGED <<switch, flag, limits, counter, spent>>

(* Mutant: a call that would reach the limit is compared without itself.    *)
FitsLoosely(m, requested) == counter[m] <= Entitlement(m)

Fits(m, requested) == Entitlement(m) # 0 /\ counter[m] + requested <= Entitlement(m)

(* planOf takes a subscription that cannot be read for none, and without    *)
(* one nothing is limited.                                                 *)
Unlimited ==
    \/ store = "unsubscribed" /\ UNCHANGED spent
    \/ Spend("fault")

CheckLimit(c) ==
    /\ InPhase(c, "quota")
    /\ \/ /\ store = "subscribed" /\ UNCHANGED spent
          /\ IF Fits("ai_requests", 1)
             THEN Goes(c, "ready") /\ UNCHANGED <<rows, history>>
             ELSE Refuse(c)
       \/ /\ Unlimited
          /\ Goes(c, "ready")
          /\ history' = [history EXCEPT !.unchecked["ai_requests"] = @ + 1]
          /\ UNCHANGED rows
    /\ UNCHANGED <<switch, flag, limits, counter>>

-----------------------------------------------------------------------------
(***************************************************************************)
(* The use.                                                                *)
(***************************************************************************)
Complete(c) ==
    /\ InPhase(c, "ready")
    /\ \/ /\ Goes(c, "completed")
          /\ history' = [history EXCEPT !.used["ai_requests"] = @ + 1, !.today = @ + 1]
          /\ UNCHANGED rows
       \/ Refuse(c)
    /\ UNCHANGED <<switch, flag, limits, counter, spent>>

(* Mutant: an export is counted as one, whatever its rows.                  *)
CountsOne(m, amount) == counter' = [counter EXCEPT ![m] = @ + 1] /\ UNCHANGED <<history, spent>>

(* Mutant: the counter holds what is left, and starts at nothing.           *)
TakesAway(m, amount) == counter' = [counter EXCEPT ![m] = @ - amount] /\ UNCHANGED <<history, spent>>

(* IncrementUsage; that it fails is logged and ignored.                     *)
IncrementUsage(m, amount) ==
    \/ /\ counter' = [counter EXCEPT ![m] = @ + amount]
       /\ UNCHANGED <<history, spent>>
    \/ /\ Spend("fault")
       /\ history' = [history EXCEPT !.uncounted[m] = @ + amount]
       /\ UNCHANGED counter

MeterCall(c) ==
    /\ InPhase(c, "completed")
    /\ IncrementUsage("ai_requests", 1)
    /\ Goes(c, "metered")
    /\ UNCHANGED <<switch, flag, limits, rows>>

(* DecodeStrict: an answer that is not of the schema is used and logged.    *)
DecodeFails(c) ==
    /\ InPhase(c, "metered")
    /\ Refuse(c)
    /\ UNCHANGED <<switch, flag, limits, counter, spent>>

(* When the draft cannot be stored nothing is logged, and a log that fails  *)
(* is ignored.                                                             *)
StoreDraft(c) ==
    /\ InPhase(c, "metered")
    /\ Ends(c)
    /\ \/ Log /\ UNCHANGED <<history, spent>>
       \/ /\ Spend("fault")
          /\ history' = [history EXCEPT !.unlogged = @ + 1]
          /\ UNCHANGED rows
    /\ UNCHANGED <<switch, flag, limits, counter>>

(* An export without a limit spends a hazard too: nothing else bounds them. *)
CheckRemaining(c) ==
    /\ InPhase(c, "idle")
    /\ \/ /\ store = "subscribed" /\ counter["export_rows"] < Entitlement("export_rows")
          /\ Goes(c, "building")
          /\ UNCHANGED spent
       \/ /\ store = "unsubscribed"
          /\ Goes(c, "unbounded")
          /\ Spend("fault")
    /\ UNCHANGED <<switch, flag, limits, counter, rows, history>>

(* Allowance: the report alone must not exceed the month's limit.           *)
Allowance(count) == store = "subscribed" => count <= Entitlement("export_rows")

ExportReport(c, count) ==
    /\ call[c].phase \in {"building", "unbounded"}
    /\ \/ /\ Allowance(count)
          /\ call' = [call EXCEPT ![c] = [phase |-> "exported", amount |-> count]]
          /\ history' = [history EXCEPT !.used["export_rows"] = @ + count,
                !.unchecked["export_rows"] = IF InPhase(c, "unbounded") THEN @ + count ELSE @]
       \/ /\ Ends(c)
          /\ UNCHANGED history
    /\ UNCHANGED <<switch, flag, limits, counter, rows, spent>>

MeterExport(c) ==
    /\ InPhase(c, "exported")
    /\ IncrementUsage("export_rows", call[c].amount)
    /\ Ends(c)
    /\ UNCHANGED <<switch, flag, limits, rows>>

-----------------------------------------------------------------------------
(***************************************************************************)
(* Administrators, and the date.                                           *)
(***************************************************************************)
(* Used, and not counted yet: calls, and the rows of every exported report. *)
ExportedRows == {row \in Callers \X (1..RowCap) :
                    InPhase(row[1], "exported") /\ row[2] <= call[row[1]].amount}

Uncounted == [m \in Metrics |->
    IF m = "ai_requests" THEN Cardinality({c \in Callers : InPhase(c, "completed")})
    ELSE Cardinality(ExportedRows)]

Unlogged == Cardinality({c \in Callers : call[c].phase \in {"completed", "metered"}})

InFlight == {c \in Callers : call[c].phase \in {"loaded", "quota", "ready"}}

SetKillSwitch(scope, state) ==
    /\ Spend("admin")
    /\ switch' = [switch EXCEPT ![scope] = state]
    /\ history' = [history EXCEPT !.ahead = IF state = "on" THEN InFlight ELSE @]
    /\ UNCHANGED <<flag, limits, counter, rows, call>>

SetFeatureFlag(state) ==
    /\ Spend("admin")
    /\ flag' = [flag EXCEPT !["tenant"] = state]
    /\ UNCHANGED <<switch, limits, counter, rows, call, history>>

(* Counters are by month and rows by day; what is under way is counted in   *)
(* the period in which it ends.                                            *)
NewMonth ==
    /\ Spend("date")
    /\ counter' = [m \in Metrics |-> 0]
    /\ history' = [history EXCEPT !.used = Uncounted,
          !.unchecked = [m \in Metrics |-> 0], !.uncounted = [m \in Metrics |-> 0],
          !.highest = [m \in Metrics |-> Entitlement(m)]]
    /\ UNCHANGED <<switch, flag, limits, rows, call>>

NewDay ==
    /\ Spend("date")
    /\ rows' = 0
    /\ history' = [history EXCEPT !.today = Unlogged, !.unlogged = 0]
    /\ UNCHANGED <<switch, flag, limits, counter, call>>

Calls(c) ==
    \/ LoadControl(c) \/ ScreenUntrusted(c) \/ CheckQuota(c) \/ CheckLimit(c)
    \/ Complete(c) \/ MeterCall(c) \/ DecodeFails(c) \/ StoreDraft(c)
    \/ CheckRemaining(c) \/ MeterExport(c)
    \/ \E count \in 0..RowCap : ExportReport(c, count)

Next ==
    \/ store = "absent" /\ CreateOrg
    \/ /\ store # "absent"
       /\ \/ \E c \in Callers : Calls(c)
          \/ \E scope \in Scopes, state \in {"on", "off"} : SetKillSwitch(scope, state)
          \/ \E state \in {"on", "off"} : SetFeatureFlag(state)
          \/ \E value \in Limits : ChangePlan(value)
          \/ \E m \in Metrics, value \in Limits : GrantEntitlement(m, value)
          \/ NewMonth \/ NewDay

Spec == Init /\ [][Next]_vars

-----------------------------------------------------------------------------
(***************************************************************************)
(* Properties.                                                             *)
(***************************************************************************)
Others == Cardinality(Callers) - 1

(* More than the limit is used only by what was under way at once, or was   *)
(* not counted: AI calls in a month and in a day, exported rows in a month. *)
OverrunIsBounded ==
    /\ history.used["ai_requests"]
          <= Max({1, history.highest["ai_requests"]}) + Others
             + history.unchecked["ai_requests"] + history.uncounted["ai_requests"]
    /\ history.today <= Max({1, DailyLimit}) + Others + history.unlogged
    /\ history.used["export_rows"]
          <= Max({1, history.highest["export_rows"]}) - 1 + (Others + 1) * RowCap
             + history.unchecked["export_rows"] + history.uncounted["export_rows"]

(* Every AI call that the provider answered, and no other, every exported   *)
(* row, is counted once, but for those that could not be.                   *)
UseIsCounted ==
    \A m \in Metrics :
        history.used[m] = counter[m] + Uncounted[m] + history.uncounted[m]

(* With a kill switch on, only a call that had passed the gate before it    *)
(* was turned on reaches the provider; a store's switch that a platform row *)
(* hides does not stop anything.                                           *)
SwitchStops ==
    [][\A c \in Callers :
          (InPhase(c, "ready") /\ call'[c].phase = "completed") =>
             \/ c \in history.ahead
             \/ switch["platform"] # "on" /\ (switch["tenant"] = "on" => switch["platform"] = "off")]_vars
=============================================================================
