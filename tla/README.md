# TLA+ models of the e-commerce price automation

The repository (Go, `src/`) is a multi-tenant service that watches competitors'
prices, recommends prices for a WooCommerce shop, and publishes the approved
ones. These modules model how a price is computed and recommended, the
concurrent pipeline that puts an approved price into the live shop and takes it
back, what stands between the two (kill switches and circuit breakers), the
copy of the shop's catalogue, the watching of competitors' pages, and what a
tenant may do: its subscription, its limits, and what it is told. Paths below
are relative to `src/`; `internal/` is left out where no doubt is possible.

## 1. The system

Two programs share one PostgreSQL database. `cmd/api` serves HTTP handlers, each
a tenant-scoped transaction (`db.WithTenant`, READ COMMITTED). `cmd/worker`, of
which any number may run, starts one goroutine per loop: competitor checks,
recommendations (publishing, rollbacks, generation), notifications,
announcements, billing dunning, queue monitor, retention, and catalogue
synchronization. The loops and the handlers meet only in database rows; both
sides also call WooCommerce, Paystack, competitor sites and AI providers. One
thing is shared in memory: the circuit breakers of a worker process
(cmd/worker/main.go:52).

| component | state | operations | meets others through | hard behaviour | what makes it correct | modules |
|---|---|---|---|---|---|---|
| recommendation engine `recommendation/engine.go` | none (pure) | Engine | called by Generate | rounding, guardrail and bounds interact | actionable advice respects floor, bounds, guardrail and data quality | RecommendationEngine |
| price calculator and evaluation `pricing/{calculator,evaluate}.go` | none; reads terms | Calculate, SelectRule, evaluate | reads costs, rules, policies, locks, products | ties, integer division, overflow | most specific matching rule; floor earns the margin | PriceCalculator, PriceEvaluation |
| pricing terms `pricing/{cost,rules,policy,import}.go` | product_costs, pricing_rules, product_price_policies, product_price_locks | SetCost, CreateRule, UpdateRule, DeleteRule, UpsertPolicy, SetLock, imports | read by evaluate | validation, SKU resolution, replaced rows | only valid terms are in force | Repricing |
| publishing pipeline `recommendation/{service,publisher}.go` | recommendations, change requests, executions, rollbacks | Generate, SubmitForApproval, Approve, QueuePublish, QueueRollback, worker claims and steps, expireStale | catalogue rows, WooCommerce, kill switch | two workers, races with people in the shop, retries, lost responses, crashes, expiry | only approved prices, rows agree, a price is overwritten through one window only, jobs settle | PricePublishing, GovernedPrices |
| kill switch `recommendation/service.go` | pricing_kill_switches | SetTenantKillSwitch, SetPlatformKillSwitch, reads | executions, API, workers | read before use, two scopes | an enabled switch stops publishing | KillSwitch, StoreGates, PricePublishing |
| reliability `reliability` | breakers, dead letters, queue figures | Allow, Record, Do, Sample, Replay, retention | wraps the WooCommerce client | half-open probes, late answers, restarts | a dead store is spared and pauses only itself | CircuitBreaker, StoreGates |
| WooCommerce sync `woocommerce/{sync,webhook_service,webhook,catalog,client}.go` | sync runs, catalogue, connections, webhook events | EnqueueSync, ProcessNext, runSync, persistProduct, HandleWebhook, ReconcileDue, Connect, Disconnect, TestConnection | catalogue rows, live shop, publishes | claimed runs lost, moving pages, late and lost webhooks, publishes in flight | a change is not missed; conflicts are real; live products stay; the copy catches up | CatalogueSync |
| competitor monitoring `competitor` | competitor products, runs, observations | AddURL, ConfirmMatch, EnqueueDue, QueueCheck, ProcessNext, MarkStale | observations feed Generate | stale write-back, lost runs, select-then-update | a review stands; the newest price is shown; a page is checked for ever | CompetitorChecks (its effect is in Repricing) |
| billing `billing` | subscriptions, payments, webhook events | checkout, confirm, webhooks, dunning, cancel | GuardWrite before writes | repeated, reordered and failing webhooks, dunning races | a plan is paid for; who pays can write; who lapsed cannot | Billing |
| usage limits and AI governance `billing/service.go`, `ai`, `httpapi/orgs.go` | usage_counters, entitlements, ai_invocations, kill switches, flags | Call's gates, CheckLimit, IncrementUsage, exports, CreateOrg | every gate is a transaction of its own | check-then-use races, lost counts | overruns are bounded; use is counted; a switch stops calls | UsageLimits |
| announcements `announcements` | announcements, targets, inboxes | Create, Update, Archive, publish, PublishDue | inbox rows | select-then-publish, two-transaction creation | targeting follows the audience; archived stays out; scheduled is published | Announcements |
| tenancy, permissions, sessions, audit; HTTP API; reporting; rate limiter; notification centre; community and feedback; support packages; web applications | – | – | – | – | – | not modelled, see §7 |

## 2. Order, and what is left

The engine and the pipeline came first, then what can stop a publish (switch,
billing), then the components that run beside the pipeline and meet it in rows:
the breakers and the gates composed of switch and breaker (`StoreGates` extends
both modules and implements the breakers' specification), the catalogue's copy with
publishes crossing it, competitor checks, limits and announcements.

What could still be added:

1. **PricingTerms**: cost versions with effective dates and optimistic rule
   updates, two editors at once; the refinement of the effects Repricing assumes.
2. Proofs for several workers of what holds with one: a bound on how far
   `CatalogueMatchesStore` can fail when two workers publish for one product.
3. An abstract specification of the catalogue's copy (every copied price is one the
   store has had, and a publish's is recorded), and its refinement by CatalogueSync.
4. PricePublishing with a product and its variant (`ProductAndVariant` exists): the
   state space needs a narrower question.

Modules that are proved about declare no RECURSIVE operator, name their
assumptions and state invariants as conjunctions of named parts.

## 3. Modules and the code

Extension order: `PriceCalculator` → `RecommendationEngine` → `PriceEvaluation` →
`Repricing` → `MCRepricing`; `RecommendationEngine` → `PricePublishing` →
`MCPricePublishing`, `PricePublishingProofs`; `PricePublishing` instantiates
`GovernedPrices`; `KillSwitch` and `CircuitBreaker` → `StoreGates` → `MCStoreGates`,
`StoreGatesProofs` (which has the theorems of all three). `Billing`, `CatalogueSync`, `CompetitorChecks`,
`Announcements` and `UsageLimits` stand alone. `M` has its instance for TLC in
`MCM` and its theorems in `MProofs`; those about the calculator, the evaluation and the
engine are in `RepricingProofs`.

**PriceCalculator, RecommendationEngine, PriceEvaluation** are pure. Amounts are
integer kobo; 0 (`None`) is a nil pointer, which no real amount is. `Wrap` is the
int64 product where the code does not guard it. Rows that the code reads without
ORDER BY give a *set* of rules or policies that may be selected. Texts, urgency,
confidence figures and reported margins are left out: nothing decides on them.

**Repricing** is one item in the loop of terms → evaluation → engine → accepted
price → next evaluation. Each action is the effect of one service call on the
rows in force, with its validation: validateRule and validateRuleTarget, the CSV
import with resolveSKU (which prefers a variant, and of several matches the
oldest), where the first row of a SKU hides later ones. `Accept` abbreviates the
whole pipeline by its successful outcome. `Generate` stores nothing whose floor is
negative: the row's CHECK refuses it (migrations/005_phase5_publishing.sql:44). Each other action empties `rec`: the
invariants are about a decision at the moment it is made. How it ages is
PricePublishing's subject.

**PricePublishing** is the pipeline of one tenant. A database transaction is one
action, except that QueuePublish and QueueRollback are two: the kill-switch read
(`PassKillSwitch`, kept in `calls`) and the rest, which commits later. A worker is
a record with a program counter: `idle` → `claimed` (`claimExecution`,
`claimRollback` committed) → `load` (task read, switch checked) → `write`
(classifyLive let it pass) → `verify` → `settle`, or `requeue` after an error.
Every HTTP call and every transaction between them is an action of its own, so
people, other workers, the clock and the switch come in between.

| variable | rows in the code |
|---|---|
| `catalog`, `floors` | products / product_variants; what pricing.Evaluate returns now |
| `store` | the live WooCommerce product: regular and sale price |
| `inbox` | unexpired price_recommendations in state raise or lower |
| `req`, `exec`, `roll` | price_change_requests, price_change_executions, price_rollbacks |
| `worker` | the local variables of runExecution and runRollback |
| `calls` | API transactions between the switch read and their commit |
| `switch` | the tenant's effective row of pricing_kill_switches |
| `spent` | bounds, and the counter of edits by hand |

`exec[r].cancels`, `worker[w].raced` are history: how often the kill switch
cancelled the execution while it ran, and whether the shop changed after the
worker's live read. `fresh` and `old` stand for the comparisons with expires_at and
with created_at + 24 hours; time passes by actions.

**GovernedPrices** is what the pipeline promises: a live price changes
only by hand, to the price of a granted proposal, or back to the price such a
proposal replaced once it was confirmed. PricePublishing implements it through
the mapping at its end.

**KillSwitch** has all tenants' rows and the platform's; PricePublishing sees only
`SwitchRead` of its tenant. What a worker does with a job is in `hands`: `claimed`
(claimExecution committed), then after the read of the switch (`Start`, a
transaction of its own) `stopping` or `working`, until `Cancel`, `Finish` or `Requeue`
has written the row, or `Drop` lost it. The read may fail, and then the worker goes
on (publisher.go:120 is `err == nil && enabled`); the history `unread` remembers that.
At most one worker is at a tenant's jobs here; PricePublishing has several. **CircuitBreaker** is one worker process: a breaker per
store, shared by its loops (`request` is what each loop has under way). The
breaker's mutex is held for Allow and for Record, so these are two actions with
the answer between them (`Call`, `Answer`, `Record`); a restart forgets everything.
Two of the code's details need no trace: `state==HalfOpen ||` in Record is implied
by the failures, which stay at the threshold, and the row in
circuit_breaker_state is written and never read back. **StoreGates** composes the
two: the publishing loop claims a job, reads the switch, then calls the store
(breaker); ErrCircuitOpen costs an attempt without a request; the synchronization is
the other loop. It implements `Spec` of KillSwitch and `BreakerSpec` of
CircuitBreaker, the variables standing for themselves (§6).

**Billing** is one tenant's subscription. Statements that commit on their own are
actions of their own: ConfirmPayment is two (`ConfirmPayment` once Paystack has
confirmed the charge, then `ConfirmChangesPlan`), ProcessWebhook up to four
(`Receive`, `Apply`, `RecordSuccess` for a charge, `Mark`, with the program counter
in `handler`), RunDunning four (`SelectGraceEnded`, `Restrict`, `SelectTrialsEnded`,
`Lapse`, in `dunning`). Each can be cut off before its next statement. `sub` is the
subscriptions row; `sent` what Paystack has sent and may send again, in any order,
also while an earlier delivery is still being handled; `processed` the ids with
processed_at set. An event's `id` is what ParseWebhook makes of it. Time is two
flags of the row: whether the trial, and whether the grace period, has run out.
Left out: the period's end and the retention deadline (nothing reads them), amounts
(the plan's price is compared, and plans are constant), and events whose
organization is not in their metadata: the fallback reads payments outside the
tenant's context, where row-level security shows none, so such an event
(`addressed` is FALSE) is only marked. Left out too: a charge that no checkout of the
tenant began, whose metadata's plan applyWebhook would take as it comes
(checkout.go:253).

**UsageLimits** is what one store may use of one AI feature and of exports. A
caller's `phase` walks through Call's gates in the code's order, each a
transaction of its own: switch and flag (`loaded`), daily quota (`quota`), plan
limit (`ready`), the provider's answer (`completed`), the counter, the log. An
export checks, builds and counts. The counters, the rows logged today, plans,
overrides and the month's and day's end are all there; so is CreateOrg, which
commits the store before its trial subscription and only logs a failure: planOf
then finds no plan and nothing is limited. `history` keeps what was really used,
what was used unchecked or could not be counted, and who was past the switch when
it was turned on.

**CatalogueSync** is one store. A run goes `claimed` (ProcessNext) → `fetching`
(one action per page, of the listing as it is at that moment) → `persisting` (one
transaction per product) → `ending` (after the sweep) → `touching` (the run's
row is final, last_sync_at is not yet written) → `idle`; a worker may die at each
of these. People edit, create and remove products; a publish is `PublishPrice`
(the store has the price) and `RecordPublished` (finishExecution); webhooks are
lost, late and repeated. Time is relative (`age`, `sinceSync`, `covered`), so that
runs can go on for ever under a finite state space. A run that has ended is
forgotten. `history` says which products were edited by hand after a publish,
whose conflict a publish explains, which differences a failed item or page leaves
(`excused`), whether runs overlapped (`disturbed`), and which workers were past
loading the connection when it was disconnected (`held`).

**CompetitorChecks** has pages, their review by people, the queue of checks,
workers that fetch and write, and the stale scan in its two statements. A worker
keeps the match it loaded with the run and writes it back. A page's content is a
record of what its JSON-LD and its tags say; `ExtractProduct` is the choice
between them, with the case that a JSON-LD range hides the tags' price.

**Announcements** has the row, `targets` (whose inbox it is in), `creating` (a
creator between its two transactions) and `pending` (what a worker's pass has
selected, with the audience as it was then). A malformed audience ends the pass.

## 4. Runs

All are in `PROJECT.json`. Passing:

| run | question | bounds |
|---|---|---|
| `publish_one_request` | consistent rows, exclusive claims, only approved prices, refinement of GovernedPrices, a view that is stale only through an edit that raced with it; under failed calls, dropped jobs, kill switch, schedules, a day passing, changed terms, edits by hand | 1 request, 2 workers, MaxAttempts 2, at most four hazards; an edit by hand with any of a fault, a toggle and a rollback, the others in any combination |
| `publish_two_requests` | two requests for one product in two workers: a view is stale only through the other's write; the catalogue ends up with the shop's price | 2 requests, 2 workers, two generations, a fault, a rollback, three in all; a behaviour is followed until a worker is overtaken |
| `publish_liveness` | executions and rollbacks settle; an enabled switch drains the queue | 1 request, 2 workers, a fault, a toggle, a rollback, under fairness |
| `repricing` | advice is within the terms, monotone in the cost, and comes to rest when accepted | one variant, 6 rules (2 refused), 3 policies, 2 costs, 6 listings (stock status and known quantity apart), 5 observations, 2 cost files |
| `store_gates` | a dead store is spared, no other is paused with it, a tenant's switch decides over its jobs, an open gate lets through | 2 tenants with a store each, 2 loops, threshold 2, one store that may stop answering |
| `billing` | a plan is paid for; a trial and a paying tenant can write; what lapsed is restricted, what is over ends | 2 paid plans, 1 payment, a renewal and a failure, 1 webhook request and 1 dunning worker at a time, 1 fault |
| `catalogue_sync` | does a run miss a change, flag a false conflict, sweep a live product, reconnect a store; does the copy catch up | 2 products on 2 pages, 2 prices, 1 worker, 4 runs, two hazards of any two kinds |
| `competitor_checks` | does a review stand, is the newest price shown, is stale old, is a page checked for ever | 1 page with 3 contents, 2 workers, broken after 3 failures, two hazards, also of one kind |
| `usage_limits` | how far is a limit overrun, is every use counted once, what does a switch stop | 2 callers, limits 1 and 2, 2 a day, 2 rows an export, two hazards, also of one kind |
| `announcements` | does an inbox follow its audience, does an archived one stay out, is a scheduled one published, at its time | 2 announcements, 2 stores, 2 workers, an edit and a crash |

Hazards are events such as faults, edits by hand, crashes; `Bound` says how often
each may happen in a behaviour, and `MostHazards` how many together, so that every
combination of so many is explored. In the pipeline `Bounds` is the set of the
combinations themselves (MCPricePublishing lists them; an edit by hand meets only some
hazards there, for the sake of the state space). Users' and workers' ordinary steps are not bounded otherwise; time, checks, runs and passes
repeat without a bound.

*Pipeline.* Three prices are enough to tell the previous price, the target and
somebody else's apart; one request where the property speaks of one, two for
interference on a product. Two workers are the least that can hold one execution
twice; a third would repeat what one of the two does, since workers have no
identity (they are permuted by symmetry in the safety runs, requests too: nothing
orders them). One kill-switch use is enough for a cancelled execution to be
requeued under a running worker. Once a worker is overtaken between its read and its
write, the other's price may be lost to the catalogue (`finding_overwritten_edit`), so
`publish_two_requests` ends there (`NobodyOvertaken`); TLC still checks the state in
which it happens.

*Repricing.* Prices lie on both sides of floors, bounds and guardrails:
MCRepricing says which rule or policy produces which case.

*Gates.* One store that fails and one that never does is what a question of
isolation needs; two loops are what lets a late answer meet a half-open breaker.
`Owners` bounds which tenant sets its own switch to the one with the unreliable
store, so that the other's switch is the platform's or none.

*Billing.* Every handler may be called again at any time and events delivered any
number of times; only the payment, the two events and the fault are bounded. One
webhook request is enough for races, since the confirmation of the same payment
and the dunning pass interleave with it at every step; the theorems of §6 cover
any number of each. The renewal names a plan code that maps to no plan, which is
the branch that keeps the tenant's plan.

*Catalogue.* Two pages of one product are the least on which a removal moves a
page under the listing. One hazard of a kind is enough for each of the races;
two together reach those that need a change and a publish, or a change and a lost
webhook. With one worker, runs never overlap; the theorems of
§6 cover any number of workers, products and pages, and the runs of several.

*Competitor checks.* Pages do not meet; two workers are what two runs of one page
need. Two of a kind lets a page change back, and be reviewed twice.

*Limits.* The overrun counts callers, so two are the least for it to show; limits
below and above what one caller uses.

CHECK_DEADLOCK is FALSE where the system really rests when every bound is used up
(pipeline, announcements, catalogue with nothing connected, checks of a page whose
runs were all lost).

Fairness. PricePublishing: weak fairness of each worker's next step, of a scheduled
time arriving, of begun API calls and of expireStale; that is what `RunWorker` does
(a ticker claims up to five executions and five rollbacks, every ten seconds, and
ends each generation with expireStale). Billing: RunDunningWorker's ticker starts a
pass again and again, also after one that failed. StoreGates: both loops, answers
of the requests under way (the client has a timeout), and cooldowns that elapse.
CatalogueSync: each worker's next step, ReconcileDue's ticker, and a publish's
record. CompetitorChecks: each worker's next step, the scheduler, a page becoming
due. Announcements: each worker's pass. Nothing is assumed of people, and nowhere
that faults or crashes happen or stop by themselves, except where a property says
so (`RestartWorker` and `LosesJob` in OpenGatesLetThrough). The liveness run of the pipeline leaves
out dropped jobs and days passing: with them executions do *not* always settle (§7).

Two runs' properties are violated, statements of the repository that the code does
not keep. `finding_kill_switch`: service.go:681 says that with the kill switch on
nothing is published; the switch is read before the live price is fetched, and
enabled after that, the write still follows (publisher.go:120, 147).
`finding_overwritten_edit`: README.md:113 says that manual changes are never silently
overwritten, they become conflicts; the live price is compared once and the write
has no precondition (publisher.go:124, 147), so a price set in between is replaced,
the read-back agrees, and the request is published. `ManualChangesSurvive` is that
statement; `UnracedViewIsCurrent` says, and §6 proves, that this window is the only
way, also where the other hand is another worker's.

## 5. Properties

Every one has a mutant of the code that breaks it (`PROJECT.json`, "mutants").

*Pipeline.* `StatusAgreement` (the three kinds of rows, written by different
handlers in separate transactions, never contradict each other),
`ExclusiveClaims` (in terms of the kill switch's cancellations, which do let two
workers at one execution), `OnlyApprovedPrices`, `UnracedViewIsCurrent`,
`CatalogueMatchesStore`.
Liveness: `ExecutionsSettle`, `RollbacksSettle`, `KillSwitchDrains`. Of the terms and
the engine: `ActionableIsSafe`, `CostIsMonotone`, `AcceptedPriceHolds`.

*Gates.* `OwnSwitchDecides`: while a tenant's own switch is off, no worker turns to
cancelling its jobs; while it is on, a worker goes on with one only if its read of the
switch failed, and a job is queued again only by such a worker's retry or by a call
that had read the switch before. `HealthyStoresAreServed`: a store that never
failed has a closed breaker, whatever the others do. `DeadStoresAreSpared`: no more
requests begin before an opening than the threshold and the loops under way
explain, and per cooldown no more than there are loops, since a half-open breaker
lets all of them through. `OpenGatesLetThrough`: a price gets through once its own
gates are open for good, unless the worker restarts or loses claimed jobs for ever.

*Billing.* `PlanIsPaidFor`; `TrialIsWritable` and `PaidIsWritable`, which a dunning
pass between its query and its update could break; `LapsedBecomesReadOnly` and
`TrialsLapse`, which depend on a later pass doing what a failed one did not.

*Catalogue.* `NextRunListsChanges`: a difference that no run has found is in the
next webhook run's window, or is one of the named exceptions. `LiveProductsStay`:
the sweep deletes nothing that is sold, unless runs overlapped or pages moved.
`ConflictIsReal`: a flagged conflict is somebody's edit, or a publish crossed the run
that flagged it. `DisconnectHolds`: a disconnected store becomes connected by a user
or by a run that had loaded the connection before. `CatchesUp`: the copy comes to
agree with a store that rests, unless a run was left running or webhooks keep
coming.

*Competitor checks.* `ReviewStands`, `NewestIsShown`, `StaleIsOld` hold but for the
race each names, which the run also reaches: a check that loads before and writes
after the review, two callers of QueueCheck, a check between the scan's two
statements. `KeepsChecking`: a page that answers is observed again and again.

*Limits.* `OverrunIsBounded`: what is used beyond a limit is at most what was under
way at once, was let through unchecked, or was not counted. `UseIsCounted`,
`SwitchStops`.

*Announcements.* `InboxFollowsAudience`, `ArchivedStaysOut`, `PublishedWhenDue`,
`ScheduledIsPublished`, each with the exceptions the code makes (§7).

The exceptions in these properties are races the code does have; the properties
say that there are no others.

## 6. Proofs

Eight modules prove what follows for every value of the constants, from the named
assumptions of the modules: `ScaleAssumption` (a scale and an integer width),
`PublishingAssumption` (a positive MaxAttempts), `RowsAssumption` (no row is the
absence of one), `CatalogueAssumption` and `TermsAssumption` (the columns' types and
CHECKs), `BillingAssumption` (the trial is not a paid plan), `BreakerAssumption`
(finitely many loops, a positive threshold), `DomainAssumption` of the catalogue (a
finite set of products, some price and some run), `PagesAssumption`,
`LimitsAssumption` (finitely many callers and limits), and
`AnnouncementsAssumption`. The rest of each is the types of the constants. TLC
evaluates them in every run.

Some theorems have a hypothesis of their own, because the property holds only then:

| hypothesis | of | why |
|---|---|---|
| `AmountsInRange` | RecommendationsAreSafe, CostsRaisePrices | ChangeBPS multiplies unguarded, and MinimumProfitablePrice guards its product but not the sum CeilDiv makes of it: beyond the width prices wrap around. MCRepricing assumes it too |
| `Undisturbed` | CatalogueIsReconciled | whoever comes between the live read and the write is overwritten (`finding_overwritten_edit`), so one worker and no edits by hand; besides, a switch or a day that passes cancels a job whose price is live, and a variant's publish records its parent's price |
| `GatesAssumption` | the theorems of the composition | each tenant has a store that has a breaker |

Type correctness of all components is proved (`TypeCorrect` and its namesakes); only
Repricing and UsageLimits spend a property of a run on it, where a bug in the
arithmetic would show as one of types.

**PricePublishingProofs.** The inductive invariant of `RowsAlwaysAgree` is
`TypeOK /\ StatusAgreement`. StatusAgreement speaks of the workers' tasks as well
as of the rows: what finishExecution writes is only consistent because the row
it writes to exists, and what `finishRollback` writes because its execution does.
Types are needed for the outcomes: a rollback is never `cancelled`, and whatever
is settled has an outcome. One lemma per action; the lemmas before them say what
a worker's own moves cannot disturb. `EngineChoice`, `LowestIsASignal` and
`DecideIsAPrice` say that the engine never invents a price, which keeps the
recommendations within `Prices`. `NothingUnapproved` strengthens OnlyApprovedPrices
by `ApprovalInv`, which says the same of every request that is approved or later;
the terms of a request never change after its approval (`KeepsTerms`).

`ClaimsAreExclusive` counts the workers that hold a row (`Holders`). The kill switch
cancels a running execution without taking it from its worker, and expireStale
does so without even counting it; the invariant, `ClaimsInv`, therefore gives a row
an allowance: one for each cancellation, and one while it is running or too old to
be claimed. A rollback's row needs that its execution has succeeded for good.

`UnracedViewsAreCurrent`: the property is inductive beside the types; the work is that
every step that writes a price, of whichever actor, marks the workers that have
read that item.

`PipelineIsGoverned` is the refinement: the initial states map to the abstract ones,
a worker's write of an approved request's target is `Publish`, and in a rollback of
its previous price `Undo` (by ApprovalInv and the types), an edit is `EditByHand`, and
the other actions change no price: each is one abstract step on proposals or a stutter.
The proof has a step per action and one lemma for all those a worker takes without
touching the store.

`CatalogueIsReconciled`: as long as the catalogue differs from the store, the store
shows the price of a job that is pending or was given up (`Explains`), and the one
worker is on a running job (`OnTask`); nobody overtakes it (`SoleWorkerHasNoRaces`). What could lose track is a write whose
response was lost and whose job is then finished as a conflict; the worker's next
live read finds its own target, which is no conflict.

**StoreGatesProofs** has the theorems of KillSwitch, CircuitBreaker and StoreGates.
`OwnSwitchAlwaysDecides` needs `RunsUnread`: a job still running while its tenant's
own switch is on is with a worker that could not read it, for whoever read the switch
before had its job cancelled when it was set; hence a retry of one that did read
finds nothing running and queues nothing. `DeadAlwaysSpared` needs
to know what `tries` counts: `BreakerInv` relates a closed breaker's failures, the
requests under way and the attempts since the last success (`TriesAgree`), with the
finite-set theorems for the number of loops under way. `HealthyAlwaysServed` is a
part of it. Each step of the composition is a step of the switch or leaves it alone
(`GatesImplementSwitch`), and likewise of the breakers (`GatesImplementBreakers`), so
that `SwitchDecidesBehindBreakers` and `GatesPauseOnlyTheDead` follow from the
components' theorems and not from proofs of their own.

**RepricingProofs.** The invariant adds to the types that a decision is the engine's on
the terms of now (`RecIsCurrent`): everything that changes them empties it.
`RecommendationsAreSafe` then is a statement about the engine: the evaluation's floor
covers cost and margin (`FloorCovers`, by CeilDiv's bounds), what is asked for is
rounded up to it, and the guardrail's division is exact as long as the listing stays
in range (`ListingInRange`, which following advice preserves). `CostsRaisePrices`
compares two runs of the engine, case by case of its state; `FloorGrows` carries
the order through the divisions. `AcceptedPricesHold`: an accepted price lies
where the engine holds. The lowest signal exists because `<` is well-founded on the
prices (`Least`).

**UsageLimitsProofs.** Two balances for each counter (`MonthWithin`, `RowsWithin`, and
`DayWithin` for the daily quota): what was used is what is counted, on its way to the
counter, or lost; and what was used, with what the callers past the check may still
use, is within the limit they saw. The sums over callers are cardinalities: callers
in a phase, and for exports the pairs of a caller and one of its rows, so that an
action makes a set one caller, or one report, larger or smaller (`ExportedRows`,
`HeldRows`), and the finite-set theorems do the counting. `LimitsSeen` is needed since
an administrator may lower a limit under a caller. `SwitchesStop` rests on
`PassedOrAhead`: a call in flight was ahead of the switch when it was turned on.

**BillingProofs.** `BillingTypeCorrect` has `OnlyChargesAreRecorded` beside TypeOK,
since what a request records is only a payment if its event is a charge.
`RowStep` says once what any step can do to the subscriptions row; the other
theorems rest on it. `NoPlanUnpaid`: a call that changes the plan holds the
reference of a charged payment, and nothing charged is forgotten (`Monotone`).
`TrialNeverReadOnly`: `Unrestricted` is inductive because Restrict looks at the
status again. `PaidCanWrite`: PaidIsWritable says nothing of the dunning passes
under way, so it is not inductive; `PaidInv` adds that none is about to end a
trial of the tenant, and that the status is active or cancelled.

**AnnouncementsProofs.** `InboxCorrect` by induction with what a creator or worker
holds; `ArchivedCorrect`; `PublishedWhenDueCorrect` through `SightInv`: what a worker
has selected is due, unless it was edited since.

**CompetitorChecksProofs.** `ReviewsStand`: besides the reviews themselves (`AsReviewed`),
what a worker has loaded agrees with the review, or the page is one that will be
overtaken (`LoadedAsReviewed`). `StaleIsAlwaysOld`: what the scan has selected was
not observed since, or is raced (`Unobserved`). `NewestIsAlwaysShown` has an invariant of
its own, `CrossInv`: a page has one run, queued or with a worker, unless two callers
had both counted none (`OneRun`, `CountedNone`), and then the page is recorded as
crossed; a worker that will be overtaken is one whose page another is about to
write (`BehindOnPage`); and a page that was never added has no run (`Untouched`).

**CatalogueSyncProofs.** `ConflictsAreReal`: the flag is computed from the price a
run listed and the platform's price of now, so the invariant relates three
copies. For a product that was not edited by hand, the store has the price being
published, or the one published last (`StoreFollows`), and so has what a run
listed, unless a publish crossed that run (`ListingFollows`). `DisconnectAlwaysHolds`:
while the store is disconnected, every worker past loading the connection is one
that was so when it was disconnected (`HeldWhileDisconnected`).

`NoChangeIsMissed` and `NothingSoldIsDeleted` are about runs that do not overlap, and
follow each product through the run under way (`Followed`, in ChangesInv). While a
run lists, a product is listed already or still comes: the products that match
before it number at least as many as the pages read so far hold (`Coming`). Products
created or modified meanwhile only move it back (`ComingKept`); a removal would move
it forward, which is why the property excepts it. The arithmetic of pages
(`LaterPage`) then says that the last page leaves nothing behind, so that all that is
sold is listed or saved when the sweep comes (`SafeFromSweep`). A product modified
after the run read it is one that every run listing at the time knows
(`StaleIsLate`), and it stays within the overlap or is excused (`Noticed`); so the
last_sync_at this run writes keeps it in the next run's window.

Only model-checked: the liveness properties (`ExecutionsSettle`, `RollbacksSettle`,
`KillSwitchDrains`, `OpenGatesLetThrough`, `LapsedBecomesReadOnly`, `TrialsLapse`,
`CatchesUp`, `KeepsChecking`, `ScheduledIsPublished`), since no prover here reasons about
fairness and ENABLED. Every other property of a passing run has its theorem.

## 7. What is not modelled, and where code and documents part

Left out of the modelled components:

- A lock of a row against another (QueuePublish takes the request and then the
  execution, finishExecution the other way round): a transaction is one step. The
  effect of a deadlock, a transaction that PostgreSQL aborts, is `DropJob`.
- Three statements that PostgreSQL or its driver reject as they stand: the
  candidates query of Generate scans a text[] into a *[]string
  (recommendation/service.go:105), evaluate's statement uses $2 both as text and as
  uuid (pricing/evaluate.go:43), and persistProduct uses $13 both as boolean and as
  timestamptz (woocommerce/sync.go:310). The models take the code behind them to
  run as written. So does CompetitorChecks' reader, whose Scan fails on an
  observation without a currency (recommendation/service.go:165).
- Parsing: money, HTML and JSON are taken as what they say. Texts, categories, SKUs
  of the catalogue, tokens and input sizes of AI calls decide nothing here.
- A variant's publish updates its parent's catalogue price (`Record`), which a later
  run flags as a conflict; the runs have products without variants.
- `ChangeBPS` wraps at the integer width (`Wrap`), and so does CeilDiv's sum for the
  largest cost MinimumProfitablePrice admits, with a negative floor that the row's
  CHECK refuses; the runs' prices stay far below it, as kobo prices do. A scheduled sale (sale_price set, not yet in force)
  counts as the current price in the code and in the models.
- Cost versions with effective dates, impact alerts, batches of submissions, inbox
  queries, audit records.
- Rows that nothing reads or changes: circuit_breaker_state, dead letters, alerts of
  competitors, AI drafts (MarkApplied has no caller), read receipts and versions of
  announcements.

Left out as a whole:

- *Notification centre*: NotifyOwners and Enqueue have no caller, and ProcessNext
  scans a uuid into an int (notifications/centre.go:416-424), so that it ends with an
  error before it sends anything. There is no behaviour to check.
- *Community and feedback*: row-level security gives the application's role no right
  to insert posts or replies (migrations/006, from 401), feedback's transition route
  has no organization in its context, and merging and tags have no route.
- *Rate limiter*: one atomic counter in Redis; UsageLimits takes its refusal as
  possible at any call. *Queue monitor* and *reporting* only read; *retention* deletes
  by age.
- *Tenancy, permissions, sessions, audit*: static tables, PostgreSQL's row-level
  security, append-only records: taken as given. Routing, rendering, configuration and
  the web applications add no state of their own.

Statements of the repository that the code does not keep, besides the two of §4. They are modelled as the code has them, and excluded by
name in the properties they concern:

| statement | code |
|---|---|
| README.md:110, no price below the minimum profitable price | a cost raised after submission is never looked at again (recommendation/service.go:386) |
| README.md:100, lost responses are reconciled | of the last attempt there is none: failed, though the price is live (publisher.go:177) |
| publisher.go:183, requeue and reconcile on the next pass | a retry of an execution older than a day is neither claimed nor cancelled (publisher.go:91) |
| PHASE8_DONE.md:18, a failed renewal opens the grace period | all events of one subscription carry its id (paystack.go:312): a later one is answered as a duplicate (checkout.go:198) |
| checkout.go, RunDunning's comment: cancelled subscriptions expire | nothing ends them; Reactivate makes any of them active |
| README.md:137, rules for the store | validateRuleTarget refuses a store rule: no target (rules.go:210-228) |
| README.md:20, a restart does not clear a tripped breaker; README.md:280, it can be reset | the row is written and never read; the reset changes the row (httpapi/billing.go:466-485) |
| sync.go:208, changes during a run are caught by the next | last_sync_at is the time at which the run ends (sync.go:188) |
| sync.go:167-174, a failed listing is retried | fetching returns one failed item and no error to come there with: the run ends partial |
| ai/service.go:85-92, the most specific flag wins | NULLs sort first: the platform's flag does; and a platform kill-switch row that is off hides the store's (75-84) |
| orgs.go:158-160, dunning reconciles a missing subscription | it does not, and a store without one is limited by nothing (billing/service.go:374-380) |
| phase6.go:104, never more rows than the plan allows | the report alone is compared with the limit, not what the month has used: one export may overrun by all its rows but one (104-113) |
| README.md:124, matches are never auto-confirmed | a check writes the match it loaded over a review made since (competitor/worker.go:142): a rejected page is confirmed again by nobody |
| README.md:87, announcements.go:432, an inbox follows the audience | Update never touches the targets (329-370) |
| announcements.go:614, nothing is lost | a malformed audience ends the pass for all behind it (487), at every tick |

Also as the code has it: enabling the platform's kill switch always fails, since the
cancelling statement has no placeholder but is given an argument
(recommendation/service.go:687); a price lock is never seen by an evaluation of a
product, since its subquery compares variant_id with the product's id (`LockSeen`);
a payment that takes effect between the query and the update of the dunning pass that
ends the trial is overwritten with `past_due` (checkout.go:365), which PaidIsWritable
names `raced`; GuardBillingWrite checks before the handler's write and the publisher
never asks it (httpapi/billing.go:201-238).
