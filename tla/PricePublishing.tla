--------------------------- MODULE PricePublishing ---------------------------
(***************************************************************************)
(* The publishing pipeline of internal/recommendation for one tenant: a    *)
(* recommendation becomes a change request, the request is approved, an    *)
(* execution publishes the approved price to WooCommerce, and a rollback   *)
(* may restore the old one.  API handlers, the kill switch, any number of  *)
(* worker processes, the people who edit the store directly, and the clock *)
(* interleave at the granularity of database transactions and HTTP calls.  *)
(*                                                                         *)
(* An execution's idempotency key is its request's id, so execution rows   *)
(* are indexed by request.  At most one rollback of an execution is active *)
(* and earlier ones are never touched again, so roll[r] is the latest.     *)
(***************************************************************************)
EXTENDS RecommendationEngine

CONSTANTS
    Requests,        \* ids of price_change_requests
    Items,           \* products and variants
    Parent,          \* a variant's product; a product is its own parent
    Prices,          \* the prices that occur, in kobo
    Workers,         \* cmd/worker processes
    Limits,          \* approval_limits: role -> [bps, cap]
    Ceiling,         \* the configured maximum price, or None
    Guardrail,       \* the selected rule's maximum change
    MaxAttempts,     \* maxPublishAttempts
    InitialPrices, InitialFloors,
    NoJob, NoRow,
    Bounds           \* how often Hazards may occur together in a behaviour

Roles == DOMAIN Limits
NoRole == "no role"

(* The events that only a bound keeps finite: edits of the store and of the *)
(* pricing terms by people, failed HTTP calls, jobs dropped by a worker,   *)
(* uses of the kill switch, executions older than 24 hours, publishes      *)
(* scheduled ahead, rollbacks, and recommendation rows written.            *)
Hazards == {"storeEdit", "termEdit", "fault", "drop", "toggle", "day",
            "schedule", "rollback", "generation"}

ASSUME PublishingAssumption ==
    /\ Prices \subseteq Nat \ {None}
    /\ InitialPrices \subseteq Prices
    /\ InitialFloors \subseteq Prices
    /\ Parent \in [Items -> Items]
    /\ MaxAttempts \in Nat \ {0}
    /\ Ceiling \in Prices \cup {None}
    /\ Guardrail \in Nat
    /\ Limits \in [Roles -> [bps : Nat, cap : Prices \cup {None}]]
    /\ NoRole \notin Roles
    /\ NoJob \notin Requests
    /\ Bounds \subseteq [Hazards -> Nat]

VARIABLES
    catalog,   \* products / product_variants: the price the platform records
    floors,    \* the minimum profitable price pricing.Evaluate now computes
    store,     \* the live WooCommerce prices
    inbox,     \* unexpired price_recommendations in state raise or lower
    req,       \* price_change_requests, with the approving role
    exec,      \* price_change_executions
    roll,      \* price_rollbacks
    worker,    \* each worker process and the task it holds
    calls,     \* API calls between their kill-switch read and their commit
    switch,    \* the effective pricing_kill_switches row of the tenant
    spent      \* how often each of Hazards has occurred

vars == <<catalog, floors, store, inbox, req, exec, roll, worker, calls,
          switch, spent>>

Active == {"queued", "running"}
RequestStatus == {"none", "pending", "approved", "rejected", "expired",
                  "published", "failed", "rolled_back"}
ExecutionStatus == Active \cup {"none", "succeeded", "failed", "conflict",
                                "cancelled", "rolled_back"}
RollbackStatus == Active \cup {"none", "succeeded", "failed", "conflict"}
Outcomes == {"none", "succeeded", "failed", "conflict", "cancelled"}
Kinds == {"publish", "rollback"}

(* A recommendation row; item, previous, floor and lowest are its           *)
(* generation_key (the ceiling, the rest of the key, is a constant here).  *)
Rows == [item : Items, previous : Prices, floor : Prices,
         lowest : Prices \cup {None}, target : Prices]

ASSUME RowsAssumption == NoRow \notin Rows

NoRequest == [status |-> "none", row |-> NoRow, by |-> NoRole, fresh |-> FALSE]
NoExecution == [status |-> "none", attempts |-> 0, sched |-> "none",
                old |-> FALSE, cancels |-> 0]
NoRollback == [status |-> "none", attempts |-> 0]
Idle == [pc |-> "idle", kind |-> "publish", job |-> NoJob, attempts |-> 0,
         outcome |-> "none", raced |-> FALSE]

Init ==
    /\ catalog \in [Items -> InitialPrices]
    /\ floors \in [Items -> InitialFloors]
    /\ store = [i \in Items |-> [regular |-> catalog[i], sale |-> None]]
    /\ inbox = {}
    /\ req = [r \in Requests |-> NoRequest]
    /\ exec = [r \in Requests |-> NoExecution]
    /\ roll = [r \in Requests |-> NoRollback]
    /\ worker = [w \in Workers |-> Idle]
    /\ calls = {}
    /\ switch \in {"absent", "off"}
    /\ spent = [h \in Hazards |-> 0]

Spend(h) ==
    LET once == [spent EXCEPT ![h] = @ + 1]
    IN  once \in Bounds /\ spent' = once

-----------------------------------------------------------------------------
(* Recommendations *)

(* The engine's decision about an item, given what competitors show.  The   *)
(* evaluation never sees a price lock (LockSeen).                          *)
Decide(i, lowest, fresh) ==
    Engine([current |-> catalog[i], floor |-> floors[i], ceiling |-> Ceiling,
            guardrail |-> Guardrail, locked |-> FALSE, fresh |-> fresh,
            signals |-> IF lowest = None THEN {}
                        ELSE {[price |-> lowest, confident |-> TRUE]}])

Row(i, lowest, target) ==
    [item |-> i, previous |-> catalog[i], floor |-> floors[i],
     lowest |-> lowest, target |-> target]

(* One candidate of Generate: evaluate, decide, persist.  A floor above the *)
(* ceiling is an error of the calculator and the candidate is skipped.  The*)
(* upsert on the generation key replaces the row with that key.            *)
Generate(i) == \E lowest \in Prices \cup {None}, fresh \in BOOLEAN :
    LET decision == Decide(i, lowest, fresh)
        others == {row \in inbox : row # Row(i, lowest, row.target)}
    IN  /\ lowest # None => fresh
        /\ ~Exceeds(floors[i], Ceiling)
        /\ inbox' = IF decision.state \in Actionable
                    THEN others \cup {Row(i, lowest, decision.recommended)}
                    ELSE others
        /\ inbox' # inbox
        /\ IF inbox' \subseteq inbox THEN UNCHANGED spent ELSE Spend("generation")
        /\ UNCHANGED <<catalog, floors, store, req, exec, roll, worker, calls, switch>>

Expired(r) == [req[r] EXCEPT !.fresh = FALSE]
Awaited(r) == req[r].status \in {"pending", "approved"}

(* expires_at passes: of a row and of every request that copied it, or only *)
(* of a request, the row having been refreshed since.                      *)
RecommendationExpires(row) ==
    /\ row \in inbox
    /\ inbox' = inbox \ {row}
    /\ req' = [r \in Requests |->
                 IF Awaited(r) /\ req[r].row = row THEN Expired(r) ELSE req[r]]
    /\ UNCHANGED <<catalog, floors, store, exec, roll, worker, calls, switch, spent>>

RequestExpires(r) ==
    /\ Awaited(r) /\ req[r].fresh
    /\ req' = [req EXCEPT ![r] = Expired(r)]
    /\ UNCHANGED <<catalog, floors, store, inbox, exec, roll, worker, calls, switch, spent>>

(* Mutant: an approved request expires like a pending one.                  *)
ExpiresApproved ==
    /\ req' = [r \in Requests |-> IF Awaited(r) /\ ~req[r].fresh
                                 THEN [req[r] EXCEPT !.status = "expired"] ELSE req[r]]
    /\ UNCHANGED <<catalog, floors, store, inbox, exec, roll, worker, calls, switch, spent>>

(* expireStale, the transaction that ends a Generate run (also one that     *)
(* found no candidate).                                                    *)
ExpireStale ==
    /\ req' = [r \in Requests |->
                 IF Awaited(r) /\ ~req[r].fresh
                 THEN [req[r] EXCEPT !.status =
                          IF @ = "pending" THEN "expired" ELSE "failed"]
                 ELSE req[r]]
    /\ exec' = [r \in Requests |->
                  IF exec[r].status \in Active /\ exec[r].sched = "none" /\ exec[r].old
                  THEN [exec[r] EXCEPT !.status = "cancelled"]
                  ELSE exec[r]]
    /\ UNCHANGED <<catalog, floors, store, inbox, roll, worker, calls, switch, spent>>

-----------------------------------------------------------------------------
(* Change requests *)

(* SubmitForApproval.  The partial unique index on recommendation_id allows *)
(* one pending or approved request per recommendation.                     *)
SubmitForApproval(r) == \E row \in inbox :
    /\ req[r].status = "none"
    /\ \A q \in Requests : ~(Awaited(q) /\ req[q].row = row)
    /\ row.target >= row.floor
    /\ ~Exceeds(row.target, Ceiling)
    /\ req' = [req EXCEPT ![r] = [status |-> "pending", row |-> row,
                                  by |-> NoRole, fresh |-> TRUE]]
    /\ UNCHANGED <<catalog, floors, store, inbox, exec, roll, worker, calls, switch, spent>>

(* What approval_limits lets a role approve.                                *)
WithinLimit(role, row) ==
    /\ ChangeBPS(row.previous, row.target) <= Limits[role].bps
    /\ ~Exceeds(row.target, Limits[role].cap)

Decidable(r) == req[r].status = "pending" /\ req[r].fresh

(* Mutant: nobody looks up approval_limits.                                 *)
ApproveUnlimited(r) == \E role \in Roles :
    /\ Decidable(r)
    /\ req' = [req EXCEPT ![r].status = "approved", ![r].by = role]
    /\ UNCHANGED <<catalog, floors, store, inbox, exec, roll, worker, calls, switch, spent>>

Approve(r) == \E role \in Roles :
    /\ Decidable(r)
    /\ WithinLimit(role, req[r].row)
    /\ req' = [req EXCEPT ![r].status = "approved", ![r].by = role]
    /\ UNCHANGED <<catalog, floors, store, inbox, exec, roll, worker, calls, switch, spent>>

Reject(r) ==
    /\ Decidable(r)
    /\ req' = [req EXCEPT ![r].status = "rejected"]
    /\ UNCHANGED <<catalog, floors, store, inbox, exec, roll, worker, calls, switch, spent>>

-----------------------------------------------------------------------------
(* Queueing, and the kill switch.  QueuePublish and QueueRollback read the  *)
(* switch at the start of their READ COMMITTED transaction; the rows they  *)
(* then lock do not include it, so it may change before they commit.  A    *)
(* missing switch row is an error to them.  (Calls that could only find    *)
(* their row missing or settled are left out.)                             *)

PassKillSwitch(kind, r) ==
    /\ switch = "off"
    /\ IF kind = "publish" THEN Awaited(r) ELSE exec[r].status # "none"
    /\ <<kind, r>> \notin calls
    /\ calls' = calls \cup {<<kind, r>>}
    /\ UNCHANGED <<catalog, floors, store, inbox, req, exec, roll, worker, switch, spent>>

(* Mutant: a pending request can be queued.                                 *)
PublishableUndecided(r) == Awaited(r) /\ req[r].fresh /\ exec[r].status \notin Active

Publishable(r) ==
    /\ req[r].status = "approved" /\ req[r].fresh
    /\ exec[r].status \notin Active

(* The upsert on the idempotency key: a row that exists only becomes queued *)
(* again, keeping its attempts, its age and its schedule.                  *)
QueuePublish(r) ==
    /\ <<"publish", r>> \in calls
    /\ calls' = calls \ {<<"publish", r>>}
    /\ \/ /\ Publishable(r) /\ exec[r].status = "none"
          /\ \/ exec' = [exec EXCEPT ![r].status = "queued"] /\ UNCHANGED spent
             \/ /\ exec' = [exec EXCEPT ![r].status = "queued", ![r].sched = "later"]
                /\ Spend("schedule")
       \/ /\ Publishable(r) /\ exec[r].status # "none"
          /\ exec' = [exec EXCEPT ![r].status = "queued"]
          /\ UNCHANGED spent
       \/ ~Publishable(r) /\ UNCHANGED <<exec, spent>>
    /\ UNCHANGED <<catalog, floors, store, inbox, req, roll, worker, switch>>

QueueRollback(r) ==
    /\ <<"rollback", r>> \in calls
    /\ calls' = calls \ {<<"rollback", r>>}
    /\ LET possible == exec[r].status = "succeeded" /\ roll[r].status \notin Active
       IN  \/ /\ possible
              /\ roll' = [roll EXCEPT ![r] = [status |-> "queued", attempts |-> 0]]
              /\ Spend("rollback")
           \/ ~possible /\ UNCHANGED <<roll, spent>>
    /\ UNCHANGED <<catalog, floors, store, inbox, req, exec, worker, switch>>

(* setKillSwitch for the tenant scope.  Enabling cancels what is queued or  *)
(* running; cancels is a history counter of the running ones.              *)
EnableKillSwitch ==
    /\ switch # "on"
    /\ switch' = "on"
    /\ exec' = [r \in Requests |->
                  IF exec[r].status \in Active
                  THEN [exec[r] EXCEPT !.status = "cancelled",
                          !.cancels = IF exec[r].status = "running" THEN @ + 1 ELSE @]
                  ELSE exec[r]]
    /\ Spend("toggle")
    /\ UNCHANGED <<catalog, floors, store, inbox, req, roll, worker, calls>>

DisableKillSwitch ==
    /\ switch # "off"
    /\ switch' = "off"
    /\ UNCHANGED <<catalog, floors, store, inbox, req, exec, roll, worker, calls, spent>>

-----------------------------------------------------------------------------
(* People, the clock, and faults *)

Effective(s, i) == IF s[i].sale # None THEN s[i].sale ELSE s[i].regular

Item(w) == req[worker[w].job].row.item

(* raced is a history flag: the store changed after the worker's live read. *)
MarkRaced(ws, i) ==
    [w \in Workers |->
        IF ws[w].pc \in {"write", "verify", "settle"} /\ Item(w) = i
        THEN [ws[w] EXCEPT !.raced = TRUE] ELSE ws[w]]

(* Someone edits the price or the sale price in WooCommerce.                *)
EditStore(i) == \E listing \in [regular : Prices, sale : Prices \cup {None}] :
    /\ Spend("storeEdit")
    /\ listing # store[i]
    /\ store' = [store EXCEPT ![i] = listing]
    /\ worker' = MarkRaced(worker, i)
    /\ UNCHANGED <<catalog, floors, inbox, req, exec, roll, calls, switch>>

(* An owner edits costs, rules or policies.                                 *)
EditTerms(i) == \E floor \in Prices :
    /\ floor # floors[i]
    /\ floors' = [floors EXCEPT ![i] = floor]
    /\ Spend("termEdit")
    /\ UNCHANGED <<catalog, store, inbox, req, exec, roll, worker, calls, switch>>

(* scheduled_for passes.                                                    *)
ScheduleArrives(r) ==
    /\ exec[r].status = "queued" /\ exec[r].sched = "later"
    /\ exec' = [exec EXCEPT ![r].sched = "due"]
    /\ UNCHANGED <<catalog, floors, store, inbox, req, roll, worker, calls, switch, spent>>

(* 24 hours pass after created_at; the request expired long before.         *)
ExecutionAges(r) ==
    /\ exec[r].status \in Active /\ ~exec[r].old
    /\ exec' = [exec EXCEPT ![r].old = TRUE]
    /\ req' = [req EXCEPT ![r].fresh = FALSE]
    /\ Spend("day")
    /\ UNCHANGED <<catalog, floors, store, inbox, roll, worker, calls, switch>>

(* A job is dropped without a trace: the process dies, reading the claimed  *)
(* task fails, or the transaction that should settle or requeue it fails   *)
(* (its error is discarded).                                               *)
DropJob(w) ==
    /\ worker[w].pc # "idle"
    /\ worker' = [worker EXCEPT ![w] = Idle]
    /\ Spend("drop")
    /\ UNCHANGED <<catalog, floors, store, inbox, req, exec, roll, calls, switch>>

-----------------------------------------------------------------------------
(* Workers *)

(* Mutant: the claim takes a running row as well.                           *)
ClaimsRunning(w) == \E r \in Requests :
    /\ worker[w].pc = "idle"
    /\ exec[r].status \in Active
    /\ exec' = [exec EXCEPT ![r].status = "running", ![r].attempts = @ + 1]
    /\ worker' = [worker EXCEPT ![w] = [Idle EXCEPT !.pc = "claimed", !.job = r]]
    /\ UNCHANGED <<catalog, floors, store, inbox, req, roll, calls, switch, spent>>

ClaimExecution(w) == \E r \in Requests :
    /\ worker[w].pc = "idle"
    /\ exec[r].status = "queued"
    /\ exec[r].sched # "later"
    /\ ~exec[r].old
    /\ exec' = [exec EXCEPT ![r].status = "running", ![r].attempts = @ + 1]
    /\ worker' = [worker EXCEPT ![w] = [Idle EXCEPT !.pc = "claimed", !.job = r]]
    /\ UNCHANGED <<catalog, floors, store, inbox, req, roll, calls, switch, spent>>

(* Mutant: likewise for rollbacks.                                          *)
ClaimsRunningRollback(w) == \E r \in Requests :
    /\ worker[w].pc = "idle"
    /\ roll[r].status \in Active
    /\ roll' = [roll EXCEPT ![r].status = "running", ![r].attempts = @ + 1]
    /\ worker' = [worker EXCEPT ![w] = [Idle EXCEPT !.pc = "claimed", !.job = r,
                                                   !.kind = "rollback"]]
    /\ UNCHANGED <<catalog, floors, store, inbox, req, exec, calls, switch, spent>>

ClaimRollback(w) == \E r \in Requests :
    /\ worker[w].pc = "idle"
    /\ roll[r].status = "queued"
    /\ roll' = [roll EXCEPT ![r].status = "running", ![r].attempts = @ + 1]
    /\ worker' = [worker EXCEPT ![w] = [Idle EXCEPT !.pc = "claimed", !.job = r,
                                                   !.kind = "rollback"]]
    /\ UNCHANGED <<catalog, floors, store, inbox, req, exec, calls, switch, spent>>

(* The price a task must find in the store, and the one it leaves there.    *)
From(w) == LET row == req[worker[w].job].row
           IN  IF worker[w].kind = "publish" THEN row.previous ELSE row.target
To(w) == LET row == req[worker[w].job].row
         IN  IF worker[w].kind = "publish" THEN row.target ELSE row.previous

Goto(w, pc) == [worker EXCEPT ![w].pc = pc]
Settle(w, outcome) == [worker EXCEPT ![w].pc = "settle", ![w].outcome = outcome]

(* Mutant: a blocked task is left.                                          *)
LeavesBlocked(w) ==
    /\ worker[w].pc = "claimed"
    /\ worker' = IF switch = "on" THEN [worker EXCEPT ![w] = Idle] ELSE Goto(w, "load")
    /\ UNCHANGED <<catalog, floors, store, inbox, req, exec, roll, calls, switch, spent>>

(* After the claim commits, the task is read in a transaction of its own,   *)
(* and the kill switch is checked; only an enabled row stops the task, and *)
(* a check that fails does not.                                            *)
Start(w) == \E unread \in BOOLEAN :
    /\ worker[w].pc = "claimed"
    /\ unread => switch = "on" /\ Spend("fault")
    /\ ~unread => UNCHANGED spent
    /\ LET r == worker[w].job
           publish == worker[w].kind = "publish"
           blocked == switch = "on" /\ ~unread
       IN  worker' = [worker EXCEPT
              ![w].attempts = IF publish THEN exec[r].attempts ELSE roll[r].attempts,
              ![w].pc = IF blocked THEN "settle" ELSE "load",
              ![w].outcome = IF ~blocked THEN "none"
                             ELSE IF publish THEN "cancelled" ELSE "failed"]
    /\ UNCHANGED <<catalog, floors, store, inbox, req, exec, roll, calls, switch>>

(* handleExecutionError and handleRollbackError.                            *)
Errored(w, permanent) ==
    IF permanent \/ worker[w].attempts >= MaxAttempts
    THEN Settle(w, "failed") ELSE Goto(w, "requeue")

(* Mutants: no sale-price guard; no look at the previous price.             *)
IgnoresSale(w) ==
    LET live == Effective(store, Item(w))
    IN  IF live = To(w) THEN Settle(w, "succeeded")
        ELSE IF live # From(w) THEN Settle(w, "conflict")
        ELSE Goto(w, "write")
IgnoresConflict(w) ==
    IF Effective(store, Item(w)) = To(w) THEN Settle(w, "succeeded") ELSE Goto(w, "write")

(* classifyLive for a publish; runRollback has no sale-price guard.         *)
AfterRead(w) ==
    LET live == Effective(store, Item(w))
    IN  IF worker[w].kind = "publish" /\ store[Item(w)].sale # None
        THEN Settle(w, "conflict")
        ELSE IF live = To(w) THEN Settle(w, "succeeded")
        ELSE IF live # From(w) THEN Settle(w, "conflict")
        ELSE Goto(w, "write")

AfterReadBack(w) ==
    Settle(w, IF Effective(store, Item(w)) = To(w) THEN "succeeded" ELSE "conflict")

(* An HTTP call that fails without effect; permanently when the product is  *)
(* gone or the credentials are refused.                                    *)
CallFails(w) == \E permanent \in BOOLEAN :
    /\ worker[w].pc \in {"load", "write", "verify"}
    /\ worker' = Errored(w, permanent)
    /\ Spend("fault")
    /\ UNCHANGED <<catalog, floors, store, inbox, req, exec, roll, calls, switch>>

Load(w) ==
    /\ worker[w].pc = "load"
    /\ worker' = [AfterRead(w) EXCEPT ![w].raced = FALSE]
    /\ UNCHANGED <<catalog, floors, store, inbox, req, exec, roll, calls, switch, spent>>

(* PublishRegularPrice sets the regular price; a sale price stays.  The     *)
(* response carries the resulting effective price, or is lost.             *)
Write(w) ==
    /\ worker[w].pc = "write"
    /\ store' = [store EXCEPT ![Item(w)].regular = To(w)]
    /\ \/ /\ worker' = [MarkRaced(IF Effective(store', Item(w)) = To(w)
                                  THEN Goto(w, "verify") ELSE Settle(w, "conflict"),
                                  Item(w)) EXCEPT ![w].raced = worker[w].raced]
          /\ UNCHANGED spent
       \/ /\ worker' = [MarkRaced(Errored(w, FALSE), Item(w))
                          EXCEPT ![w].raced = worker[w].raced]
          /\ Spend("fault")
    /\ UNCHANGED <<catalog, floors, inbox, req, exec, roll, calls, switch>>

(* The independent read-back.                                               *)
Verify(w) ==
    /\ worker[w].pc = "verify"
    /\ worker' = [AfterReadBack(w) EXCEPT ![w].raced = FALSE]
    /\ UNCHANGED <<catalog, floors, store, inbox, req, exec, roll, calls, switch, spent>>

(* Mutants: the row is not requeued.                                        *)
LosesExecution(w) ==
    /\ worker[w].pc = "requeue" /\ worker[w].kind = "publish"
    /\ worker' = [worker EXCEPT ![w] = Idle]
    /\ UNCHANGED <<catalog, floors, store, inbox, req, exec, roll, calls, switch, spent>>
LosesRollback(w) ==
    /\ worker[w].pc = "requeue" /\ worker[w].kind = "rollback"
    /\ worker' = [worker EXCEPT ![w] = Idle]
    /\ UNCHANGED <<catalog, floors, store, inbox, req, exec, roll, calls, switch, spent>>

(* The retry: only a row that is still running goes back to the queue, an   *)
(* execution after a delay.                                                *)
RequeueExecution(w) ==
    /\ worker[w].pc = "requeue" /\ worker[w].kind = "publish"
    /\ LET r == worker[w].job
       IN  exec' = IF exec[r].status = "running"
                   THEN [exec EXCEPT ![r].status = "queued", ![r].sched = "later"]
                   ELSE exec
    /\ worker' = [worker EXCEPT ![w] = Idle]
    /\ UNCHANGED <<catalog, floors, store, inbox, req, roll, calls, switch, spent>>

RequeueRollback(w) ==
    /\ worker[w].pc = "requeue" /\ worker[w].kind = "rollback"
    /\ LET r == worker[w].job
       IN  roll' = IF roll[r].status = "running"
                   THEN [roll EXCEPT ![r].status = "queued"] ELSE roll
    /\ worker' = [worker EXCEPT ![w] = Idle]
    /\ UNCHANGED <<catalog, floors, store, inbox, req, exec, calls, switch, spent>>

(* The catalogue takes the price, also for a variant's product.             *)
Record(i, price) == [j \in Items |-> IF j \in {i, Parent[i]} THEN price ELSE catalog[j]]

(* finishExecution writes whatever the rows now say.                        *)
FinishExecution(w) ==
    /\ worker[w].pc = "settle" /\ worker[w].kind = "publish"
    /\ LET r == worker[w].job
           succeeded == worker[w].outcome = "succeeded"
       IN  /\ exec' = [exec EXCEPT ![r].status = worker[w].outcome]
           /\ req' = [req EXCEPT ![r].status = IF succeeded THEN "published" ELSE "failed"]
           /\ catalog' = IF succeeded THEN Record(Item(w), To(w)) ELSE catalog
    /\ worker' = [worker EXCEPT ![w] = Idle]
    /\ UNCHANGED <<floors, store, inbox, roll, calls, switch, spent>>

(* Mutants: a rollback that updates not the request, or not the catalogue.   *)
ForgetsRequest(w) ==
    /\ worker[w].pc = "settle" /\ worker[w].kind = "rollback"
    /\ LET r == worker[w].job
       IN  /\ roll' = [roll EXCEPT ![r].status = worker[w].outcome]
           /\ exec' = IF worker[w].outcome = "succeeded"
                      THEN [exec EXCEPT ![r].status = "rolled_back"] ELSE exec
    /\ worker' = [worker EXCEPT ![w] = Idle]
    /\ UNCHANGED <<catalog, req, floors, store, inbox, calls, switch, spent>>
ForgetsCatalog(w) ==
    /\ worker[w].pc = "settle" /\ worker[w].kind = "rollback"
    /\ LET r == worker[w].job
           succeeded == worker[w].outcome = "succeeded"
       IN  /\ roll' = [roll EXCEPT ![r].status = worker[w].outcome]
           /\ exec' = IF succeeded THEN [exec EXCEPT ![r].status = "rolled_back"] ELSE exec
           /\ req' = IF succeeded THEN [req EXCEPT ![r].status = "rolled_back"] ELSE req
    /\ worker' = [worker EXCEPT ![w] = Idle]
    /\ UNCHANGED <<catalog, floors, store, inbox, calls, switch, spent>>

FinishRollback(w) ==
    /\ worker[w].pc = "settle" /\ worker[w].kind = "rollback"
    /\ LET r == worker[w].job
           succeeded == worker[w].outcome = "succeeded"
       IN  /\ roll' = [roll EXCEPT ![r].status = worker[w].outcome]
           /\ exec' = IF succeeded THEN [exec EXCEPT ![r].status = "rolled_back"] ELSE exec
           /\ req' = IF succeeded THEN [req EXCEPT ![r].status = "rolled_back"] ELSE req
           /\ catalog' = IF succeeded THEN Record(Item(w), To(w)) ELSE catalog
    /\ worker' = [worker EXCEPT ![w] = Idle]
    /\ UNCHANGED <<floors, store, inbox, calls, switch, spent>>

Work(w) ==
    \/ ClaimExecution(w) \/ ClaimRollback(w) \/ Start(w) \/ Load(w) \/ Write(w)
    \/ Verify(w) \/ CallFails(w) \/ RequeueExecution(w) \/ RequeueRollback(w)
    \/ FinishExecution(w) \/ FinishRollback(w)

Next ==
    \/ \E i \in Items : Generate(i) \/ EditStore(i) \/ EditTerms(i)
    \/ \E row \in inbox : RecommendationExpires(row)
    \/ \E r \in Requests :
          \/ RequestExpires(r) \/ SubmitForApproval(r) \/ Approve(r) \/ Reject(r)
          \/ QueuePublish(r) \/ QueueRollback(r)
          \/ ScheduleArrives(r) \/ ExecutionAges(r)
          \/ \E kind \in Kinds : PassKillSwitch(kind, r)
    \/ ExpireStale \/ EnableKillSwitch \/ DisableKillSwitch
    \/ \E w \in Workers : Work(w) \/ DropJob(w)

Spec == Init /\ [][Next]_vars

(* What the code's own scheduling drives: RunWorker loops in every worker   *)
(* process, timers run out, each Generate ends in expireStale, and an API  *)
(* handler that has begun completes.  Nothing is assumed of people.        *)
Fairness ==
    /\ \A w \in Workers : WF_vars(Work(w))
    /\ \A r \in Requests : /\ WF_vars(ScheduleArrives(r))
                           /\ WF_vars(QueuePublish(r))
                           /\ WF_vars(QueueRollback(r))
    /\ WF_vars(ExpireStale)

FairSpec == Spec /\ Fairness

-----------------------------------------------------------------------------
(* Properties *)

(* The domains of the database rows and of the workers' local variables: a  *)
(* request that exists has a recommendation, a busy worker has a job, and *)
(* a task to be settled an outcome its row can hold.                       *)
RequestRows ==
    {NoRequest} \cup [status : RequestStatus \ {"none"}, row : Rows,
                     by : Roles \cup {NoRole}, fresh : BOOLEAN]
ExecutionRows == [status : ExecutionStatus, attempts : Nat,
                  sched : {"none", "later", "due"}, old : BOOLEAN, cancels : Nat]
RollbackRows == [status : RollbackStatus, attempts : Nat]
Tasks ==
    {Idle} \cup
    {t \in [pc : {"claimed", "load", "write", "verify", "requeue", "settle"},
            kind : Kinds, job : Requests, attempts : Nat,
            outcome : Outcomes, raced : BOOLEAN] :
        t.pc = "settle" => /\ t.outcome # "none"
                           /\ t.kind = "rollback" => t.outcome # "cancelled"}

(* Every variable stays in its domain.                                      *)
TypeOK ==
    /\ catalog \in [Items -> Prices]
    /\ floors \in [Items -> Prices]
    /\ store \in [Items -> [regular : Prices, sale : Prices \cup {None}]]
    /\ inbox \subseteq Rows
    /\ req \in [Requests -> RequestRows]
    /\ exec \in [Requests -> ExecutionRows]
    /\ roll \in [Requests -> RollbackRows]
    /\ worker \in [Workers -> Tasks]
    /\ calls \subseteq Kinds \X Requests
    /\ switch \in {"absent", "off", "on"}
    /\ spent \in [Hazards -> Nat]

(* The request, execution and rollback rows, which are written by different *)
(* handlers in separate transactions, never contradict each other: nothing *)
(* was executed for a request that was not approved, a request counts as   *)
(* published (rolled back) exactly when its execution counts as succeeded  *)
(* (rolled back), and a failed execution never leaves its request open.    *)
RowsAgree(r) ==
    LET q == req[r].status
        e == exec[r].status
    IN  /\ q \in {"none", "pending", "rejected", "expired"} => e = "none"
        /\ q = "approved" => e \in Active \cup {"none", "cancelled"}
        /\ q = "failed" => e \in Active \cup {"none", "cancelled", "failed", "conflict"}
        /\ (q = "published") <=> (e = "succeeded")
        /\ (q = "rolled_back") <=> (e = "rolled_back")
        /\ e \in {"failed", "conflict"} => q = "failed"
        /\ roll[r].status # "none" => e # "none"

TaskHasRow(w) ==
    worker[w].pc # "idle" =>
        IF worker[w].kind = "publish" THEN exec[worker[w].job].status # "none"
                                      ELSE roll[worker[w].job].status # "none"

StatusAgreement ==
    /\ \A r \in Requests : RowsAgree(r)
    /\ \A w \in Workers : TaskHasRow(w)

Holders(kind, r) == {w \in Workers : /\ worker[w].pc # "idle"
                                     /\ worker[w].kind = kind
                                     /\ worker[w].job = r}

(* Two workers work on the same execution only if the kill switch cancelled *)
(* it while it ran; a rollback is never worked on twice.  (SKIP LOCKED     *)
(* claims, the retry's guard and the active-execution check together.)     *)
ExclusiveClaims == \A r \in Requests :
    /\ Cardinality(Holders("publish", r)) <= 1 + exec[r].cancels
    /\ Cardinality(Holders("rollback", r)) <= 1

(* A worker about to write, or about to record success, still looks at the  *)
(* price it decided on, unless someone else changed the store after its    *)
(* live read.  Price conflicts are overwritten through that window only.   *)
UnracedViewIsCurrent == \A w \in Workers :
    ~worker[w].raced =>
        /\ worker[w].pc = "write" =>
              /\ Effective(store, Item(w)) = From(w)
              /\ worker[w].kind = "publish" => store[Item(w)].sale = None
        /\ worker[w].pc = "settle" /\ worker[w].outcome = "succeeded" =>
              Effective(store, Item(w)) = To(w)

(* Whatever a worker may still publish was approved within the approving    *)
(* role's limit, and lies between the floor and the ceiling the request    *)
(* was submitted under.                                                    *)
OnlyApprovedPrices == \A r \in Requests :
    exec[r].status # "none" \/ Holders("publish", r) # {} =>
        /\ req[r].by \in Roles
        /\ WithinLimit(req[r].by, req[r].row)
        /\ req[r].row.target >= req[r].row.floor
        /\ ~Exceeds(req[r].row.target, Ceiling)

(* The store changes by a worker's hand, not a person's.                    *)
PlatformWrites == store' # store /\ spent'["storeEdit"] = spent["storeEdit"]

(* A publish replaces only the regular price its worker decided on: one     *)
(* that somebody set in WooCommerce after the live read is a conflict,     *)
(* never silently overwritten (README.md:113).  The write has no           *)
(* precondition, so the code does not keep this promise.                   *)
ManualChangesSurvive ==
    [][\A w \in Workers :
         /\ PlatformWrites
         /\ worker[w].kind = "publish" /\ worker[w].pc = "write"
         /\ worker'[w].pc # "write"
         => store[Item(w)].regular = From(w)]_vars

(* While the kill switch is on nothing is published (service.go:681).       *)
NothingPublishedWhileOn == [][switch = "on" => ~PlatformWrites]_vars

(* When no job is pending, none was given up as failed, nobody else touched *)
(* the store and no worker was overtaken, the catalogue records the price  *)
(* WooCommerce shows: retries and rollbacks reconcile every write, also    *)
(* those whose response was lost.                                          *)
CatalogueMatchesStore ==
    (\A r \in Requests : /\ exec[r].status \notin Active \cup {"failed"}
                         /\ roll[r].status \notin Active \cup {"failed"})
    => \A i \in Items : catalog[i] = Effective(store, i)

(* Every execution that is queued or running settles; likewise rollbacks.   *)
ExecutionsSettle ==
    \A r \in Requests : exec[r].status \in Active ~> exec[r].status \notin Active
RollbacksSettle ==
    \A r \in Requests : roll[r].status \in Active ~> roll[r].status \notin Active

(* Once the kill switch stays on, no job remains, not even one queued by a  *)
(* call that had read the switch before.                                   *)
KillSwitchDrains ==
    <>[](switch = "on") =>
        <>[](\A r \in Requests : /\ exec[r].status \notin Active
                                 /\ roll[r].status \notin Active)

-----------------------------------------------------------------------------
(* Refinement *)

Governed == INSTANCE GovernedPrices WITH
    Deals <- Rows,
    NoDeal <- NoRow,
    live <- [i \in Items |-> store[i].regular],
    deal <- [r \in Requests |-> req[r].row],
    granted <- {r \in Requests : req[r].by # NoRole},
    refused <- {r \in Requests : req[r].status \in {"rejected", "expired"}},
    undoable <- {r \in Requests : exec[r].status = "succeeded" \/ roll[r].status # "none"},
    edits <- spent["storeEdit"]

(* Through every interleaving of handlers, workers and faults, the store's  *)
(* prices change as GovernedPrices allows: by hand, by publishing an       *)
(* approved request, or by rolling back a confirmed one.                   *)
ImplementsGovernedPrices == Governed!Spec

=============================================================================
