---------------------------- MODULE CatalogueSync ----------------------------
(***************************************************************************)
(* The copy of one WooCommerce store's catalogue: sync runs queued by       *)
(* handlers and by the reconcile ticker, workers that list the store page   *)
(* by page and write each product in a transaction of its own, webhooks     *)
(* that ask for runs, the connection both depend on, and the publishing of  *)
(* prices as far as a sync sees it.  People edit the store at any moment.   *)
(*                                                                         *)
(* Time is kept relative, so that runs may go on for ever: age is how long  *)
(* ago a product was modified and sinceSync how long ago last_sync_at was   *)
(* written, both no further than they matter.  covered says that a product  *)
(* was modified after last_sync_at minus the overlap.                      *)
(***************************************************************************)
EXTENDS Naturals, FiniteSetsExt, Functions

CONSTANTS
    Products,    \* external ids, in the order in which the store lists them
    Prices,
    Workers,
    Runs,        \* ids of sync runs
    PageSize,    \* products on a page of the listing
    Overlap,     \* the two minutes subtracted from last_sync_at
    Interval,    \* ReconcileInterval
    Bound,       \* how often each hazard may happen
    MostHazards  \* and all of them together

Hazards == {"change", "publish", "fault", "crash", "user"}

ASSUME DomainAssumption ==
    /\ Products \subseteq Nat /\ Products # {} /\ IsFiniteSet(Products)
    /\ Prices \subseteq Nat \ {0} /\ Prices # {}
    /\ Runs \subseteq Nat \ {0} /\ Runs # {}
    /\ PageSize \in Nat \ {0}
    /\ Overlap \in Nat \ {0} /\ Interval \in Nat \ {0}
    /\ Bound \in [Hazards -> Nat] /\ MostHazards \in Nat

VARIABLES
    store,       \* what WooCommerce has of each product, and since when
    connection,  \* the row of store_connections
    runs,        \* the rows of store_sync_runs
    worker,      \* what each worker holds in memory
    catalogue,   \* the rows of products
    publishing,  \* a price written to the store and not yet recorded
    counted,     \* callers of EnqueueSync that have counted no active run
    history,     \* what the properties need to know of the past
    spent        \* hazards so far

vars == <<store, connection, runs, worker, catalogue, publishing, counted,
          history, spent>>

(***************************************************************************)
(* Domains.  initial, reconcile and retry runs do the same: "full".  A      *)
(* price of 0 stands for none (NULL, or a product not listed).              *)
(***************************************************************************)
Kinds == {"full", "webhook"}
Callers == {"ticker", "user", "webhook"}
Phases == {"idle", "claimed", "fetching", "persisting", "ending", "touching"}
Amounts == Prices \cup {0}
Idle == [phase |-> "idle", run |-> 0, page |-> 0, skip |-> {}, failed |-> FALSE,
         todo |-> [p \in Products |-> 0], crossed |-> {}, late |-> {}]

TypeOK ==
    /\ store \in [Products -> [state : {"absent", "live", "gone"},
                               price : Amounts, age : 0..Overlap,
                               covered : BOOLEAN]]
    /\ connection \in [status : {"connected", "error", "revoked", "disconnected"},
                       sinceSync : 0..Interval]
    /\ runs \in [Runs -> [kind : Kinds,
                          status : {"none", "queued", "running"}]]
    /\ worker \in [Workers -> [phase : Phases, run : Runs \cup {0},
                               page : Nat,
                               skip : SUBSET Products, failed : BOOLEAN,
                               todo : [Products -> Amounts],
                               crossed : SUBSET Products,
                               late : SUBSET Products]]
    /\ catalogue \in [Products -> [status : {"unknown", "published", "deleted"},
                                   price : Amounts, platform : Amounts,
                                   run : Runs \cup {0}, conflict : BOOLEAN]]
    /\ publishing \in [Products -> Amounts]
    /\ counted \subseteq Callers
    /\ history \in [excused : SUBSET Products, disturbed : BOOLEAN,
                    edited : SUBSET Products, crossed : SUBSET Products,
                    held : SUBSET Workers, ended : BOOLEAN]
    /\ spent \in [Hazards -> Nat]
    /\ \A w \in Workers :
          worker[w].phase \in {"claimed", "fetching", "persisting", "ending"}
              => runs[worker[w].run].status = "running"

(* A run that has ended is forgotten and its id may be used again: of the   *)
(* last run of a product, only whether it is one still running matters.    *)
NoRun == [kind |-> "full", status |-> "none"]

End(r) == runs' = [runs EXCEPT ![r] = NoRun]

(* A store with a product, just connected: its first run is queued, nothing *)
(* copied yet.                                                             *)
Init ==
    /\ store \in [Products -> [state : {"absent", "live"}, price : {CHOOSE any \in Prices : TRUE},
                               age : {Overlap}, covered : {TRUE}]]
    /\ store[Min(Products)].state = "live"
    /\ connection = [status |-> "connected", sinceSync |-> Interval]
    /\ runs = [r \in Runs |-> IF r = Min(Runs) THEN [kind |-> "full", status |-> "queued"]
                                               ELSE NoRun]
    /\ worker = [w \in Workers |-> Idle]
    /\ catalogue = [p \in Products |-> [status |-> "unknown", price |-> 0,
                                        platform |-> 0, run |-> 0, conflict |-> FALSE]]
    /\ publishing = [p \in Products |-> 0]
    /\ counted = {}
    /\ history = [excused |-> {}, disturbed |-> FALSE, edited |-> {},
                  crossed |-> {}, held |-> {}, ended |-> FALSE]
    /\ spent = [h \in Hazards |-> 0]

SpentSoFar == FoldFunction(+, 0, spent)

Spend(h) ==
    /\ spent[h] < Bound[h] /\ SpentSoFar < MostHazards
    /\ spent' = [spent EXCEPT ![h] = @ + 1]

Listing(w) == worker[w].phase \in {"fetching", "persisting", "ending", "touching"}
Reading(w) == worker[w].phase \in {"fetching", "persisting"}
Live(p) == store[p].state = "live"
Agrees(p) == catalogue[p].status = "published" /\ catalogue[p].price = store[p].price
Behind(p) == Live(p) /\ ~Agrees(p)

-----------------------------------------------------------------------------
(***************************************************************************)
(* The store.  Modified: WooCommerce dates the change, so that a filter on  *)
(* an older date matches; a run under way may have read the product before. *)
(***************************************************************************)
Modified(p, state, price, crossing) ==
    /\ store' = [store EXCEPT ![p] = [state |-> state, price |-> price,
                                      age |-> 0, covered |-> TRUE]]
    /\ worker' = [w \in Workers |-> IF ~Listing(w) THEN worker[w] ELSE
                     [worker[w] EXCEPT !.skip = @ \ {p}, !.late = @ \cup {p},
                                       !.crossed = IF Reading(w) THEN @ \cup crossing ELSE @]]
    /\ UNCHANGED <<connection, runs, catalogue, counted>>

Published(p) == publishing[p] # 0 \/ catalogue[p].platform # 0

Edit(p, price) ==
    /\ Spend("change")
    /\ Live(p) /\ price # store[p].price
    /\ Modified(p, "live", price, {})
    /\ history' = [history EXCEPT !.edited = IF Published(p) THEN @ \cup {p} ELSE @]
    /\ UNCHANGED publishing

Create(p) ==
    /\ Spend("change")
    /\ store[p].state = "absent"
    /\ Modified(p, "live", store[p].price, {})
    /\ UNCHANGED <<publishing, history>>

(* A removal moves what follows it up a page, under a run that is listing.  *)
Remove(p) ==
    /\ Spend("change")
    /\ Live(p)
    /\ Modified(p, "gone", store[p].price, {})
    /\ history' = [history EXCEPT !.disturbed =
                      @ \/ \E w \in Workers : worker[w].phase = "fetching"]
    /\ UNCHANGED publishing

(* PublishRegularPrice and, later, finishExecution (see PricePublishing).   *)
PublishPrice(p, price) ==
    /\ Spend("publish")
    /\ Live(p) /\ catalogue[p].status = "published" /\ publishing[p] = 0
    /\ publishing' = [publishing EXCEPT ![p] = price]
    /\ Modified(p, "live", price, {p})
    /\ UNCHANGED history

Recorded(p) == [catalogue[p] EXCEPT !.price = publishing[p],
                                    !.platform = publishing[p],
                                    !.conflict = FALSE]

RecordPublished(p) ==
    /\ publishing[p] # 0
    /\ publishing' = [publishing EXCEPT ![p] = 0]
    /\ catalogue' = [catalogue EXCEPT ![p] = Recorded(p)]
    /\ worker' = [w \in Workers |-> IF Reading(w)
                     THEN [worker[w] EXCEPT !.crossed = @ \cup {p}] ELSE worker[w]]
    /\ history' = [history EXCEPT !.crossed = @ \ {p},
          !.edited = IF store[p].price = publishing[p] THEN @ \ {p} ELSE @,
          !.excused = IF store[p].price = publishing[p] THEN @ ELSE @ \cup {p}]
    /\ UNCHANGED <<store, connection, runs, counted, spent>>

(* Time passes.  A product modified while a run was past reading it leaves  *)
(* the overlap that this run's last_sync_at will have.                     *)
Tick ==
    LET older(p) == Min({Overlap, store[p].age + 1}) IN
    /\ connection.sinceSync < Interval \/ \E p \in Products : store[p].age < Overlap
    /\ store' = [p \in Products |-> [store[p] EXCEPT !.age = older(p)]]
    /\ connection' = [connection EXCEPT !.sinceSync = Min({Interval, @ + 1})]
    /\ history' = [history EXCEPT !.excused = @ \cup
          {p \in Products : older(p) = Overlap /\ \E w \in Workers : p \in worker[w].late}]
    /\ UNCHANGED <<runs, worker, catalogue, publishing, counted, spent>>

-----------------------------------------------------------------------------
(***************************************************************************)
(* Asking for a run.  EnqueueSync counts the active runs and inserts in one *)
(* transaction, but nothing stops a second one from counting in between.    *)
(***************************************************************************)
SyncInProgress == \E r \in Runs : runs[r] # NoRun

EnqueueSync(c) ==
    /\ c \in counted
    /\ counted' = counted \ {c}
    /\ LET free == {r \in Runs : runs[r] = NoRun} IN
          /\ free # {}
          /\ runs' = [runs EXCEPT ![CHOOSE r \in free : TRUE] =
                [kind |-> IF c = "webhook" THEN c ELSE "full", status |-> "queued"]]
    /\ UNCHANGED <<store, connection, worker, catalogue, publishing, history, spent>>

(* Mutant: a store is reconciled only until its first synchronization.      *)
NeverSynced == connection.status = "connected" /\ ~history.ended

Due == connection.status = "connected" /\ connection.sinceSync = Interval

ReconcileDue ==
    /\ Due
    /\ ~SyncInProgress
    /\ "ticker" \notin counted
    /\ counted' = counted \cup {"ticker"}
    /\ UNCHANGED <<store, connection, runs, worker, catalogue, publishing, history, spent>>

RetrySync ==
    /\ Spend("user")
    /\ history.ended
    /\ ~SyncInProgress
    /\ "user" \notin counted
    /\ counted' = counted \cup {"user"}
    /\ UNCHANGED <<store, connection, runs, worker, catalogue, publishing, history>>

(* A webhook about p: product.deleted for one that is gone, otherwise       *)
(* product.updated, which any change brings, also one that is not modelled *)
(* (stock, texts), and which may come late or again.  One with the id of an *)
(* earlier one changes nothing, whatever became of that.  SYNC_IN_PROGRESS  *)
(* leaves the event processed and asks for no run; an error, or the end of  *)
(* the process, leaves it failed or received, and its redelivery is taken   *)
(* for a duplicate.                                                        *)
ReceiveWebhook(p) ==
    /\ connection.status \in {"connected", "error"}
    /\ store[p].state # "absent" /\ "webhook" \notin counted
    /\ catalogue' = IF Live(p) \/ catalogue[p].status = "unknown" THEN catalogue
                    ELSE [catalogue EXCEPT ![p].status = "deleted"]
    /\ \/ /\ counted' = IF SyncInProgress THEN counted ELSE counted \cup {"webhook"}
          /\ UNCHANGED spent
       \/ Spend("fault") /\ UNCHANGED counted
    /\ UNCHANGED <<store, connection, runs, worker, publishing, history>>

-----------------------------------------------------------------------------
(***************************************************************************)
(* The connection.                                                         *)
(***************************************************************************)
SetStatus(status) ==
    /\ Spend("user")
    /\ connection' = [connection EXCEPT !.status = status]
    /\ UNCHANGED <<store, runs, worker, catalogue, publishing>>

(* connected, unless CreateWebhook then fails; and an initial run is asked  *)
(* for.                                                                    *)
Connect ==
    /\ \E status \in {"connected", "error", "revoked"} : SetStatus(status)
    /\ counted' = IF SyncInProgress THEN counted ELSE counted \cup {"user"}
    /\ UNCHANGED history

Disconnect ==
    /\ SetStatus("disconnected")
    /\ history' = [history EXCEPT !.held = {w \in Workers : Listing(w)}]
    /\ UNCHANGED counted

(* Whatever the status was: a test that succeeds connects.                  *)
TestConnection ==
    /\ \E status \in {"connected", "error", "revoked"} : SetStatus(status)
    /\ UNCHANGED <<counted, history>>

-----------------------------------------------------------------------------
(***************************************************************************)
(* A worker.                                                               *)
(***************************************************************************)
Run(w) == runs[worker[w].run]
InPhase(w, phase) == worker[w].phase = phase

Starts(r) == runs' = [runs EXCEPT ![r].status = "running"]

(* SKIP LOCKED gives a run to one worker; a second run of the same store    *)
(* may be taken by another.                                                *)
Claim(w) ==
    /\ InPhase(w, "idle")
    /\ \E r \in Runs :
          /\ runs[r].status = "queued"
          /\ Starts(r)
          /\ worker' = [worker EXCEPT ![w] = [Idle EXCEPT !.phase = "claimed", !.run = r]]
    /\ history' = [history EXCEPT !.disturbed = @ \/ \E v \in Workers :
                      worker[v].phase \notin {"idle", "touching"}]
    /\ UNCHANGED <<store, connection, catalogue, publishing, counted, spent>>

(* Mutant: the connection a run was queued for is taken for granted.        *)
NeverRefused == FALSE

Refused == connection.status \in {"disconnected", "revoked"}

(* runSync: a run without a usable connection ends failed; one of kind      *)
(* webhook asks for what was modified after last_sync_at minus the overlap. *)
Load(w) ==
    /\ InPhase(w, "claimed")
    /\ IF Refused
       THEN /\ End(worker[w].run)
            /\ worker' = [worker EXCEPT ![w] = Idle]
            /\ history' = [history EXCEPT !.ended = TRUE]
       ELSE /\ worker' = [worker EXCEPT ![w].phase = "fetching", ![w].page = 1,
                  ![w].skip = IF Run(w).kind = "webhook"
                              THEN {p \in Products : ~store[p].covered} ELSE {}]
            /\ UNCHANGED <<runs, history>>
    /\ UNCHANGED <<store, connection, catalogue, publishing, counted, spent>>

(* One page of what matches now, of as many pages as there are now.         *)
ListPage(w) ==
    LET match == {p \in Products \ worker[w].skip : Live(p)}
        before(p) == Cardinality({q \in match : q < p})
        page == {p \in match : before(p) \div PageSize + 1 = worker[w].page}
        last == worker[w].page * PageSize >= Cardinality(match)
    IN
    /\ InPhase(w, "fetching")
    /\ worker' = [worker EXCEPT
          ![w].todo = [p \in Products |-> IF p \in page THEN store[p].price ELSE @[p]],
          ![w].crossed = @ \cup {p \in page : publishing[p] # 0},
          ![w].page = IF last THEN 0 ELSE @ + 1,
          ![w].skip = IF last THEN {} ELSE @,
          ![w].phase = IF last THEN "persisting" ELSE @]
    /\ UNCHANGED <<store, connection, runs, catalogue, publishing, counted, history, spent>>

(* What is left to do after the items, or after a listing that failed.      *)
Ending(w) == [Idle EXCEPT !.phase = "ending", !.run = worker[w].run,
                          !.late = worker[w].late]

(* A listing that fails is one failed item: the run ends partial and never  *)
(* comes to scheduleRetry.                                                 *)
FetchFails(w) ==
    /\ Spend("fault")
    /\ InPhase(w, "fetching")
    /\ worker' = [worker EXCEPT ![w] = Ending(w)]
    /\ history' = [history EXCEPT !.excused = @ \cup {p \in Products : Behind(p)}]
    /\ UNCHANGED <<store, connection, runs, catalogue, publishing, counted>>

(* Mutant: the fetched price is compared with the copy, not the platform's. *)
DiffersFromCopy(p, price) == catalogue[p].price # 0 /\ catalogue[p].price # price

Conflicts(p, price) == catalogue[p].platform # 0 /\ catalogue[p].platform # price

(* The transaction of persistProduct: what was listed replaces the copy.    *)
Save(w, p) ==
    LET price == worker[w].todo[p] IN
    /\ catalogue' = [catalogue EXCEPT ![p] =
          [status |-> "published", price |-> price, platform |-> @.platform,
           run |-> worker[w].run, conflict |-> Conflicts(p, price)]]
    /\ history' = [history EXCEPT
          !.crossed = IF Conflicts(p, price) /\ (p \in worker[w].crossed \/ publishing[p] # 0)
                      THEN @ \cup {p} ELSE @ \ {p},
          !.excused = IF price = store[p].price THEN @ \ {p} ELSE @]

Persist(w, p) ==
    /\ InPhase(w, "persisting") /\ worker[w].todo[p] # 0
    /\ worker' = [worker EXCEPT ![w].todo[p] = 0]
    /\ Save(w, p)
    /\ UNCHANGED <<store, connection, runs, publishing, counted, spent>>

(* A failed item: nothing is written, or the product and not its variants.  *)
PersistFails(w, p) ==
    /\ Spend("fault")
    /\ InPhase(w, "persisting") /\ worker[w].todo[p] # 0
    /\ worker' = [worker EXCEPT ![w].todo[p] = 0, ![w].failed = TRUE]
    /\ \/ Save(w, p)
       \/ /\ history' = [history EXCEPT !.excused = @ \cup {p}]
          /\ UNCHANGED catalogue
    /\ UNCHANGED <<store, connection, runs, publishing, counted>>

(* Mutant: a run whose items failed still deletes what it has not seen.     *)
SweepsAnyway(w) == Run(w).kind = "full"

Sweeps(w) == ~worker[w].failed /\ Run(w).kind = "full"

(* What a complete listing did not have is deleted; an error is ignored.    *)
Sweep(w) ==
    /\ InPhase(w, "persisting") /\ worker[w].todo = Idle.todo
    /\ worker' = [worker EXCEPT ![w] = Ending(w)]
    /\ \/ /\ catalogue' = [p \in Products |->
                IF Sweeps(w) /\ catalogue[p].status = "published" /\ catalogue[p].run # worker[w].run
                THEN [catalogue[p] EXCEPT !.status = "deleted"] ELSE catalogue[p]]
          /\ UNCHANGED spent
       \/ Sweeps(w) /\ Spend("fault") /\ UNCHANGED catalogue
    /\ UNCHANGED <<store, connection, runs, publishing, counted, history>>

FinishSync(w) ==
    /\ InPhase(w, "ending")
    /\ End(worker[w].run)
    /\ catalogue' = [p \in Products |-> IF catalogue[p].run = worker[w].run
                        THEN [catalogue[p] EXCEPT !.run = 0] ELSE catalogue[p]]
    /\ worker' = [worker EXCEPT ![w] = [Ending(w) EXCEPT !.phase = "touching", !.run = 0]]
    /\ history' = [history EXCEPT !.ended = TRUE]
    /\ UNCHANGED <<store, connection, publishing, counted, spent>>

(* Mutant: nothing is subtracted from last_sync_at.                         *)
NoOverlap(p) == FALSE

WithinOverlap(p) == store[p].age < Overlap

(* last_sync_at is the time of this statement, not of the listing.          *)
Touch(w) ==
    /\ InPhase(w, "touching")
    /\ worker' = [worker EXCEPT ![w] = Idle]
    /\ connection' = [status |-> "connected", sinceSync |-> 0]
    /\ store' = [p \in Products |-> [store[p] EXCEPT !.covered = WithinOverlap(p)]]
    /\ history' = [history EXCEPT !.held = @ \ {w}]
    /\ UNCHANGED <<runs, catalogue, publishing, counted, spent>>

(* The process ends; nothing ever looks for runs left running.              *)
Dies(w) ==
    /\ Spend("crash")
    /\ ~InPhase(w, "idle")
    /\ worker' = [worker EXCEPT ![w] = Idle]
    /\ history' = [history EXCEPT !.held = @ \ {w}]
    /\ UNCHANGED <<store, connection, runs, catalogue, publishing, counted>>

ProcessNext(w) ==
    \/ Claim(w) \/ Load(w) \/ ListPage(w) \/ Sweep(w) \/ FinishSync(w) \/ Touch(w)
    \/ \E p \in Products : Persist(w, p)

Next ==
    \/ \E p \in Products :
          \/ Create(p) \/ Remove(p) \/ RecordPublished(p) \/ ReceiveWebhook(p)
          \/ \E price \in Prices : Edit(p, price) \/ PublishPrice(p, price)
    \/ Tick \/ ReconcileDue \/ RetrySync
    \/ \E c \in Callers : EnqueueSync(c)
    \/ Connect \/ Disconnect \/ TestConnection
    \/ \E w \in Workers :
          \/ ProcessNext(w) \/ FetchFails(w) \/ Dies(w)
          \/ \E p \in Products : PersistFails(w, p)

Spec == Init /\ [][Next]_vars

(* RunWorker's two tickers, calls that come back, and time.                 *)
Fairness ==
    /\ \A w \in Workers : WF_vars(ProcessNext(w))
    /\ WF_vars(ReconcileDue) /\ WF_vars(EnqueueSync("ticker")) /\ WF_vars(Tick)
    /\ \A p \in Products : WF_vars(RecordPublished(p))

FairSpec == Spec /\ Fairness

-----------------------------------------------------------------------------
(***************************************************************************)
(* Properties.                                                             *)
(***************************************************************************)

(* A change the copy does not have yet will be listed by the next webhook   *)
(* run.  The exceptions are those recorded as excused: an item or a listing *)
(* that failed, a change that came after a run had read the product and     *)
(* more than the overlap before it wrote last_sync_at, and one that a       *)
(* publish records over; and runs that overlapped.                         *)
NextRunListsChanges ==
    \A p \in Products : Behind(p) =>
        store[p].covered \/ p \in history.excused \/ history.disturbed

(* A product that is in the store is not deleted from the copy, unless two  *)
(* runs overlapped or the pages moved under a listing.                     *)
LiveProductsStay ==
    history.disturbed \/
    \A p \in Products : Live(p) => catalogue[p].status # "deleted"

(* A price conflict is flagged because somebody changed the price in the    *)
(* store, or because a publish crossed the run that flagged it.             *)
ConflictIsReal ==
    \A p \in Products : catalogue[p].conflict =>
        p \in history.edited \/ p \in history.crossed

(* After Disconnect, only somebody who connects or tests the connection, or *)
(* a run that had loaded it before, makes it connected again.               *)
DisconnectHolds ==
    [][connection.status = "disconnected" /\ connection'.status = "connected"
         => Connect \/ TestConnection \/ \E w \in history.held : Touch(w)]_vars

Stuck == \E r \in Runs : /\ runs[r].status = "running"
                         /\ \A w \in Workers : worker[w].run # r

Webhooks == "webhook" \in counted \/ \E r \in Runs : runs[r].kind = "webhook"

(* While the store stays connected, no worker died over a run and no more   *)
(* webhooks come, the copy comes to agree with a store that has stopped     *)
(* changing.  Webhooks have to stop: each of their runs writes              *)
(* last_sync_at, by which ReconcileDue tells whether a full one is due.     *)
CatchesUp ==
    <>[](connection.status = "connected" /\ ~Stuck /\ ~Webhooks) =>
    <>[](\A p \in Products : /\ Live(p) => Agrees(p)
                             /\ ~Live(p) => catalogue[p].status # "published")
=============================================================================
