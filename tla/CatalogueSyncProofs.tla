------------------------- MODULE CatalogueSyncProofs -------------------------
(***************************************************************************)
(* Proofs about CatalogueSync, for any products, prices, workers and runs.  *)
(* Inv is inductive and gives the types, the conflicts and the connection;  *)
(* ChangesInv, on top of it, follows every change of the store through the  *)
(* run that lists it, as long as runs do not overlap.                      *)
(***************************************************************************)
EXTENDS CatalogueSync, FiniteSetTheorems, TLAPS

States == {"absent", "live", "gone"}
Item == [state : States, price : Amounts, age : 0..Overlap,
         covered : BOOLEAN]
Connection == [status : {"connected", "error", "revoked", "disconnected"},
               sinceSync : 0..Interval]
RunRow == [kind : Kinds, status : {"none", "queued", "running"}]
Worker == [phase : Phases, run : Runs \cup {0}, page : Nat, skip : SUBSET Products,
           failed : BOOLEAN, todo : [Products -> Amounts], crossed : SUBSET Products,
           late : SUBSET Products]
Product == [status : {"unknown", "published", "deleted"}, price : Amounts,
            platform : Amounts, run : Runs \cup {0}, conflict : BOOLEAN]
History == [excused : SUBSET Products, disturbed : BOOLEAN, edited : SUBSET Products,
            crossed : SUBSET Products, held : SUBSET Workers, ended : BOOLEAN]

(* The variables' domains, without what TypeOK adds about running runs.     *)
Domains ==
    /\ store \in [Products -> Item] /\ connection \in Connection
    /\ runs \in [Runs -> RunRow] /\ worker \in [Workers -> Worker]
    /\ catalogue \in [Products -> Product] /\ publishing \in [Products -> Amounts]
    /\ counted \subseteq Callers /\ history \in History
    /\ spent \in [Hazards -> Nat]

(* A worker's run is running, and no other worker's.                        *)
HasRun(w) == worker[w].phase \in {"claimed", "fetching", "persisting", "ending"}

OneWorkerPerRun ==
    /\ \A w \in Workers : HasRun(w) => /\ worker[w].run \in Runs
                                       /\ runs[worker[w].run].status = "running"
    /\ \A v, w \in Workers : HasRun(v) /\ HasRun(w) /\ worker[v].run = worker[w].run => v = w

LEMMA TypeParts == Domains /\ OneWorkerPerRun => TypeOK
BY DEF TypeOK, Domains, OneWorkerPerRun, HasRun, Item, Connection, RunRow, Worker, Product, History, States

-----------------------------------------------------------------------------
LEMMA MinOfTwo ==
    ASSUME NEW a \in Nat, NEW b \in Nat
    PROVE  Min({a, b}) \in 0..a
<1> DEFINE m == IF a <= b THEN a ELSE b
<1>1. m \in {a, b} /\ \A y \in {a, b} : m <= y
  OBVIOUS
<1>2. \A x \in {a, b} : (\A y \in {a, b} : x <= y) => x = m
  OBVIOUS
<1>3. Min({a, b}) = m
  BY <1>1, <1>2 DEF Min
<1> QED
  BY <1>3

LEMMA IdleType == Idle \in Worker
BY DEF Idle, Worker, Phases, Amounts

LEMMA SpendType ==
    ASSUME spent \in [Hazards -> Nat], NEW h \in Hazards, Spend(h)
    PROVE  spent' \in [Hazards -> Nat]
BY DEF Spend

-----------------------------------------------------------------------------
(* The inductive invariant.  While the store is disconnected, whatever run  *)
(* is past loading the connection was so before.                           *)
HeldWhileDisconnected ==
    connection.status = "disconnected" => \A w \in Workers : Listing(w) => w \in history.held

(* Of the prices nobody has edited by hand: what is being published, and    *)
(* otherwise what was published last, is what the store has, and also what  *)
(* a run has listed, if no publish crossed it.                             *)
StoreFollows(p) ==
    p \in history.edited \/
    /\ publishing[p] # 0 => store[p].price = publishing[p]
    /\ publishing[p] = 0 /\ catalogue[p].platform # 0
          => store[p].price = catalogue[p].platform

Uncrossed(w, p) == Reading(w) /\ p \notin worker[w].crossed /\ publishing[p] = 0

ListingFollows(w, p) ==
    /\ worker[w].phase = "claimed" => worker[w].todo[p] = 0
    /\ Uncrossed(w, p) /\ worker[w].todo[p] # 0 /\ catalogue[p].platform # 0
          => p \in history.edited \/ worker[w].todo[p] = catalogue[p].platform

Explained(p) == catalogue[p].conflict => p \in history.edited \/ p \in history.crossed

PricesFollow ==
    \A p \in Products : /\ StoreFollows(p) /\ Explained(p)
                        /\ \A w \in Workers : ListingFollows(w, p)

Inv == Domains /\ OneWorkerPerRun /\ HeldWhileDisconnected /\ PricesFollow

-----------------------------------------------------------------------------
(* Parts of the invariant that a step leaves alone with what it talks about.*)
LEMMA RunsKept ==
    ASSUME Inv, UNCHANGED runs,
           \A w \in Workers : /\ worker'[w].phase = worker[w].phase
                              /\ worker'[w].run = worker[w].run
    PROVE  OneWorkerPerRun'
BY DEF Inv, OneWorkerPerRun, HasRun

LEMMA HeldKept ==
    ASSUME Inv, connection'.status \in {connection.status, "connected"},
           \A w \in Workers : worker'[w].phase = worker[w].phase,
           history'.held = history.held
    PROVE  HeldWhileDisconnected'
BY DEF Inv, HeldWhileDisconnected, Listing

LEMMA PricesKept ==
    ASSUME Inv, UNCHANGED publishing,
           \A p \in Products : /\ store'[p].price = store[p].price
                               /\ catalogue'[p].platform = catalogue[p].platform
                               /\ catalogue'[p].conflict = catalogue[p].conflict,
           \A w \in Workers : /\ worker'[w].phase = worker[w].phase
                              /\ worker'[w].todo = worker[w].todo
                              /\ \A q : q \in worker'[w].crossed <=> q \in worker[w].crossed,
           history'.edited = history.edited, history'.crossed = history.crossed
    PROVE  PricesFollow'
<1> SUFFICES ASSUME NEW p \in Products
             PROVE  /\ StoreFollows(p)' /\ Explained(p)'
                    /\ \A w \in Workers : ListingFollows(w, p)'
  BY DEF PricesFollow
<1>1. StoreFollows(p)' /\ Explained(p)'
  BY DEF Inv, PricesFollow, StoreFollows, Explained
<1>2. ASSUME NEW w \in Workers PROVE ListingFollows(w, p)'
  BY DEF Inv, PricesFollow, ListingFollows, Uncrossed, Reading
<1> QED
  BY <1>1, <1>2

(* Steps that change neither the store nor a worker nor a product's price.  *)
LEMMA QuietSteps ==
    ASSUME Inv,
           \/ Tick \/ ReconcileDue \/ RetrySync \/ Connect \/ Disconnect \/ TestConnection
           \/ \E p \in Products : ReceiveWebhook(p)
           \/ UNCHANGED vars
    PROVE  Inv'
<1> USE DEF Domains
<1>0. history \in History /\ connection \in Connection /\ store \in [Products -> Item]
      /\ spent \in [Hazards -> Nat]
  BY DEF Inv
<1>1. ASSUME Tick PROVE Inv'
  <2> DEFINE older(p) == Min({Overlap, store[p].age + 1})
             since == Min({Interval, connection.sinceSync + 1})
             excused == history.excused \cup
                {p \in Products : older(p) = Overlap /\ \E w \in Workers : p \in worker[w].late}
  <2>1. /\ store' = [p \in Products |-> [store[p] EXCEPT !.age = older(p)]]
        /\ connection' = [connection EXCEPT !.sinceSync = since]
        /\ history' = [history EXCEPT !.excused = excused]
        /\ UNCHANGED <<runs, worker, catalogue, publishing, counted, spent>>
    BY <1>1 DEF Tick
  <2>2. \A p \in Products : store[p] \in Item /\ older(p) \in 0..Overlap
    BY <1>0, MinOfTwo, DomainAssumption DEF Item
  <2>3. store' \in [Products -> Item] /\ \A p \in Products : store'[p].price = store[p].price
    BY <2>1, <2>2 DEF Item
  <2>4. since \in 0..Interval
    BY <1>0, MinOfTwo, DomainAssumption DEF Connection
  <2>5. connection' \in Connection /\ connection'.status = connection.status
    BY <1>0, <2>1, <2>4 DEF Connection
  <2>6. excused \in SUBSET Products
    BY <1>0 DEF History
  <2>7. /\ history' \in History /\ history'.edited = history.edited
        /\ history'.crossed = history.crossed /\ history'.held = history.held
    BY <1>0, <2>1, <2>6 DEF History
  <2>8. Domains'
    BY <2>1, <2>3, <2>5, <2>7 DEF Inv
  <2> QED
    BY <2>1, <2>3, <2>5, <2>7, <2>8, RunsKept, HeldKept, PricesKept DEF Inv
<1>2. ASSUME ReconcileDue \/ RetrySync PROVE Inv'
  <2>1. /\ counted' \in SUBSET Callers /\ spent' \in [Hazards -> Nat]
        /\ UNCHANGED <<store, connection, runs, worker, catalogue, publishing, history>>
    BY <1>2, SpendType DEF ReconcileDue, RetrySync, Inv, Callers, Hazards
  <2>2. Domains'
    BY <2>1 DEF Inv
  <2> QED
    BY <2>1, <2>2, RunsKept, HeldKept, PricesKept DEF Inv
<1>3. ASSUME NEW status \in {"connected", "error", "revoked", "disconnected"}, SetStatus(status),
             counted' \subseteq Callers,
             \/ status # "disconnected" /\ history' = history
             \/ history' = [history EXCEPT !.held = {w \in Workers : Listing(w)}]
      PROVE  Inv'
  <2>1. /\ connection' = [connection EXCEPT !.status = status] /\ spent' \in [Hazards -> Nat]
        /\ UNCHANGED <<store, runs, worker, catalogue, publishing>>
    BY <1>0, <1>3, SpendType DEF SetStatus, Hazards
  <2>2. connection' \in Connection /\ connection'.status = status
    BY <1>0, <2>1 DEF Connection
  <2>3. /\ history' \in History /\ history'.edited = history.edited
        /\ history'.crossed = history.crossed
        /\ status = "disconnected" => \A w \in Workers : Listing(w) => w \in history'.held
    BY <1>0, <1>3 DEF History
  <2>4. Domains'
    BY <1>3, <2>1, <2>2, <2>3 DEF Inv
  <2>5. HeldWhileDisconnected'
    BY <2>1, <2>2, <2>3 DEF HeldWhileDisconnected, Listing
  <2> QED
    BY <2>1, <2>3, <2>4, <2>5, RunsKept, PricesKept DEF Inv
<1>4. ASSUME Connect \/ Disconnect \/ TestConnection PROVE Inv'
  <2>1. counted' \subseteq Callers
    BY <1>4 DEF Connect, Disconnect, TestConnection, Inv, Callers
  <2> QED
    BY <1>3, <1>4, <2>1 DEF Connect, Disconnect, TestConnection
<1>5. ASSUME NEW p \in Products, ReceiveWebhook(p) PROVE Inv'
  <2>1. /\ catalogue' = catalogue \/ catalogue' = [catalogue EXCEPT ![p].status = "deleted"]
        /\ counted' \subseteq Callers /\ spent' \in [Hazards -> Nat]
        /\ UNCHANGED <<store, connection, runs, worker, publishing, history>>
    BY <1>5, SpendType DEF ReceiveWebhook, Inv, Callers, Hazards
  <2>2. /\ catalogue' \in [Products -> Product]
        /\ \A q \in Products : /\ catalogue'[q].platform = catalogue[q].platform
                               /\ catalogue'[q].conflict = catalogue[q].conflict
    <3>1. catalogue \in [Products -> Product]
      BY DEF Inv
    <3>2. CASE catalogue' = [catalogue EXCEPT ![p].status = "deleted"]
      <4> DEFINE row == [catalogue[p] EXCEPT !.status = "deleted"]
      <4>1. /\ row \in Product /\ row.platform = catalogue[p].platform
            /\ row.conflict = catalogue[p].conflict
        BY <3>1 DEF Product
      <4>2. catalogue' = [catalogue EXCEPT ![p] = row]
        BY <3>2
      <4> HIDE DEF row
      <4> QED
        BY <3>1, <4>1, <4>2
    <3> QED
      BY <2>1, <3>1, <3>2
  <2>3. Domains'
    BY <2>1, <2>2 DEF Inv
  <2> QED
    BY <2>1, <2>2, <2>3, RunsKept, HeldKept, PricesKept DEF Inv
<1>6. CASE UNCHANGED vars
  <2>1. Domains'
    BY <1>6 DEF vars, Inv
  <2> QED
    BY <1>6, <2>1, RunsKept, HeldKept, PricesKept DEF vars, Inv
<1> QED
  BY <1>1, <1>2, <1>4, <1>5, <1>6

-----------------------------------------------------------------------------
(* A caller that has counted takes a free row: no worker's.                 *)
LEMMA EnqueueStep ==
    ASSUME Inv, NEW c \in Callers, EnqueueSync(c)
    PROVE  Inv'
<1> DEFINE row == [kind |-> IF c = "webhook" THEN c ELSE "full", status |-> "queued"]
<1>1. PICK r \in Runs : runs[r] = NoRun /\ runs' = [runs EXCEPT ![r] = row]
  <2> DEFINE free == {r \in Runs : runs[r] = NoRun}
  <2>1. free # {} /\ runs' = [runs EXCEPT ![CHOOSE r \in free : TRUE] = row]
    BY DEF EnqueueSync
  <2>2. (CHOOSE r \in free : TRUE) \in free
    BY <2>1
  <2> QED
    BY <2>1, <2>2
<1>2. /\ counted' \subseteq Callers
      /\ UNCHANGED <<store, connection, worker, catalogue, publishing, history, spent>>
  BY DEF EnqueueSync, Inv, Domains
<1>3. row \in RunRow
  BY DEF RunRow, Kinds, Callers
<1>4. runs' \in [Runs -> RunRow] /\ \A q \in Runs : q # r => runs'[q] = runs[q]
  BY <1>1, <1>3 DEF Inv, Domains
<1>5. Domains'
  BY <1>2, <1>4 DEF Inv, Domains
<1>6. \A w \in Workers : HasRun(w) => worker[w].run # r
  BY <1>1 DEF NoRun, Inv, OneWorkerPerRun
<1>7. OneWorkerPerRun'
  BY <1>2, <1>4, <1>6 DEF Inv, OneWorkerPerRun, HasRun
<1> QED
  BY <1>2, <1>5, <1>7, HeldKept, PricesKept DEF Inv

-----------------------------------------------------------------------------
(* What a change of the store does to the workers that are listing it.      *)
LEMMA ModifiedParts ==
    ASSUME Inv, NEW p \in Products, NEW state \in States,
           NEW price \in Amounts, NEW crossing \in SUBSET Products,
           Modified(p, state, price, crossing),
           spent' \in [Hazards -> Nat], publishing' \in [Products -> Amounts],
           history' \in History, history'.held = history.held
    PROVE  /\ Domains' /\ OneWorkerPerRun' /\ HeldWhileDisconnected'
           /\ catalogue' = catalogue
           /\ store'[p].price = price
           /\ \A q \in Products : q # p => store'[q] = store[q]
           /\ \A w \in Workers :
                 /\ worker'[w].phase = worker[w].phase /\ worker'[w].todo = worker[w].todo
                 /\ \A q : q \in worker'[w].crossed <=>
                       q \in worker[w].crossed \/ (Reading(w) /\ q \in crossing)
<1> DEFINE item == [state |-> state, price |-> price, age |-> 0, covered |-> TRUE]
           after(w) == IF ~Listing(w) THEN worker[w] ELSE
                     [worker[w] EXCEPT !.skip = @ \ {p}, !.late = @ \cup {p},
                                       !.crossed = IF Reading(w) THEN @ \cup crossing ELSE @]
<1>1. /\ store' = [store EXCEPT ![p] = item]
      /\ worker' = [w \in Workers |-> after(w)]
      /\ UNCHANGED <<connection, runs, catalogue, counted>>
  BY DEF Modified
<1>2. item \in Item
  BY DomainAssumption DEF Item
<1>3. /\ store' \in [Products -> Item] /\ store'[p].price = price
      /\ \A q \in Products : q # p => store'[q] = store[q]
  BY <1>1, <1>2 DEF Inv, Domains
<1>4. ASSUME NEW w \in Workers
      PROVE  /\ after(w) \in Worker
             /\ after(w).phase = worker[w].phase /\ after(w).todo = worker[w].todo
             /\ after(w).run = worker[w].run
             /\ \A q : q \in after(w).crossed <=>
                   q \in worker[w].crossed \/ (Reading(w) /\ q \in crossing)
  <2>1. worker[w] \in Worker
    BY DEF Inv, Domains
  <2>2. CASE ~Listing(w)
    BY <2>1, <2>2 DEF Listing, Reading
  <2>3. CASE Listing(w)
    BY <2>1, <2>3 DEF Worker
  <2> QED
    BY <2>2, <2>3
<1>5. \A w \in Workers : worker'[w] = after(w)
  BY <1>1
<1>6. worker' \in [Workers -> Worker]
  BY <1>1, <1>4
<1>7. Domains'
  BY <1>1, <1>3, <1>6 DEF Inv, Domains
<1>8. OneWorkerPerRun'
  BY <1>1, <1>4, <1>5, RunsKept
<1>9. HeldWhileDisconnected'
  BY <1>1, <1>4, <1>5, HeldKept
<1> QED
  BY <1>1, <1>3, <1>4, <1>5, <1>7, <1>8, <1>9

(* A hand edit of a published price is recorded as one.                     *)
LEMMA EditStep ==
    ASSUME Inv, NEW p \in Products, NEW price \in Prices, Edit(p, price)
    PROVE  Inv'
<1> DEFINE edited == IF Published(p) THEN history.edited \cup {p} ELSE history.edited
<1>1. /\ Modified(p, "live", price, {}) /\ publishing' = publishing
      /\ history' = [history EXCEPT !.edited = edited]
      /\ spent' \in [Hazards -> Nat]
  BY SpendType DEF Edit, Inv, Domains, Hazards
<1>2. /\ history' \in History /\ history'.edited = edited
      /\ history'.crossed = history.crossed /\ history'.held = history.held
  BY <1>1 DEF Inv, Domains, History
<1>3. /\ price \in Amounts /\ publishing' \in [Products -> Amounts]
      /\ "live" \in States /\ {} \in SUBSET Products
  BY <1>1 DEF Amounts, Inv, Domains, States
<1>4. /\ Domains' /\ OneWorkerPerRun' /\ HeldWhileDisconnected'
      /\ catalogue' = catalogue
      /\ \A q \in Products : q # p => store'[q] = store[q]
      /\ \A w \in Workers :
            /\ worker'[w].phase = worker[w].phase /\ worker'[w].todo = worker[w].todo
            /\ \A q : q \in worker'[w].crossed <=> q \in worker[w].crossed
  <2>1. PICK none \in SUBSET Products : none = {}
    BY <1>3
  <2>2. Modified(p, "live", price, none)
    BY <1>1, <2>1
  <2>4. /\ history' \in History /\ history'.held = history.held
        /\ spent' \in [Hazards -> Nat] /\ price \in Amounts
        /\ publishing' \in [Products -> Amounts] /\ "live" \in States
    BY <1>1, <1>2, <1>3
  <2>3. ASSUME NEW w \in Workers, NEW q
        PROVE  q \in worker'[w].crossed <=> q \in worker[w].crossed
    BY <2>1, <2>2, <2>4, ModifiedParts
  <2>5. /\ Domains' /\ OneWorkerPerRun' /\ HeldWhileDisconnected'
        /\ catalogue' = catalogue
    BY <2>2, <2>4, ModifiedParts
  <2>6. \A q \in Products : q # p => store'[q] = store[q]
    BY <2>2, <2>4, ModifiedParts
  <2>7. \A w \in Workers :
           worker'[w].phase = worker[w].phase /\ worker'[w].todo = worker[w].todo
    BY <2>2, <2>4, ModifiedParts
  <2> QED
    BY <2>3, <2>5, <2>6, <2>7
<1>5. ASSUME NEW q \in Products
      PROVE  StoreFollows(q)' /\ Explained(q)'
  <2>1. CASE q # p
    BY <1>1, <1>2, <1>4, <2>1 DEF Inv, PricesFollow, StoreFollows, Explained
  <2>2. CASE q = p /\ Published(p)
    BY <1>1, <1>2, <1>4, <2>2 DEF StoreFollows, Explained
  <2>3. CASE q = p /\ ~Published(p)
    BY <1>1, <1>2, <1>4, <2>3 DEF Inv, PricesFollow, StoreFollows, Explained, Published
  <2> QED
    BY <2>1, <2>2, <2>3
<1>6. ASSUME NEW q \in Products, NEW w \in Workers
      PROVE  ListingFollows(w, q)'
  BY <1>1, <1>2, <1>4 DEF Inv, PricesFollow, ListingFollows, Uncrossed, Reading
<1> QED
  BY <1>4, <1>5, <1>6 DEF Inv, PricesFollow

LEMMA CreateRemoveStep ==
    ASSUME Inv, NEW p \in Products, Create(p) \/ Remove(p)
    PROVE  Inv'
<1>1. PICK state \in {"live", "gone"} : Modified(p, state, store[p].price, {})
  BY DEF Create, Remove
<1>2. /\ publishing' = publishing /\ spent' \in [Hazards -> Nat]
      /\ history' \in History /\ history'.edited = history.edited
      /\ history'.crossed = history.crossed /\ history'.held = history.held
  <2>1. /\ publishing' = publishing /\ spent' \in [Hazards -> Nat]
        /\ \/ history' = history
           \/ history' = [history EXCEPT !.disturbed =
                 @ \/ \E w \in Workers : worker[w].phase = "fetching"]
    BY SpendType DEF Create, Remove, Inv, Domains, Hazards
  <2>2. history \in History
    BY DEF Inv, Domains
  <2> QED
    BY <2>1, <2>2 DEF History
<1>3. /\ store[p].price \in Amounts /\ publishing' \in [Products -> Amounts]
      /\ state \in States /\ {} \in SUBSET Products
  BY <1>2 DEF Inv, Domains, Item, States
<1>4. /\ Domains' /\ OneWorkerPerRun' /\ HeldWhileDisconnected'
      /\ catalogue' = catalogue /\ store'[p].price = store[p].price
      /\ \A q \in Products : q # p => store'[q] = store[q]
      /\ \A w \in Workers :
            /\ worker'[w].phase = worker[w].phase /\ worker'[w].todo = worker[w].todo
            /\ \A q : q \in worker'[w].crossed <=> q \in worker[w].crossed
  <2>1. PICK none \in SUBSET Products : none = {}
    BY <1>3
  <2>2. Modified(p, state, store[p].price, none)
    BY <1>1, <2>1
  <2>3. ASSUME NEW w \in Workers, NEW q
        PROVE  q \in worker'[w].crossed <=> q \in worker[w].crossed
    BY <1>1, <1>2, <1>3, <2>1, <2>2, ModifiedParts
  <2>5. /\ Domains' /\ OneWorkerPerRun' /\ HeldWhileDisconnected'
        /\ catalogue' = catalogue /\ store'[p].price = store[p].price
    BY <1>1, <1>2, <1>3, <2>2, ModifiedParts
  <2>6. \A q \in Products : q # p => store'[q] = store[q]
    BY <1>1, <1>2, <1>3, <2>2, ModifiedParts
  <2>7. \A w \in Workers :
           worker'[w].phase = worker[w].phase /\ worker'[w].todo = worker[w].todo
    BY <1>1, <1>2, <1>3, <2>2, ModifiedParts
  <2> QED
    BY <2>3, <2>5, <2>6, <2>7
<1> QED
  BY <1>2, <1>4, PricesKept DEF Inv

(* The store has the price being published, and runs that read are crossed. *)
LEMMA PublishStep ==
    ASSUME Inv, NEW p \in Products, NEW price \in Prices, PublishPrice(p, price)
    PROVE  Inv'
<1>1. /\ Modified(p, "live", price, {p}) /\ history' = history
      /\ publishing' = [publishing EXCEPT ![p] = price]
      /\ spent' \in [Hazards -> Nat]
  BY SpendType DEF PublishPrice, Inv, Domains, Hazards
<1>2. /\ price \in Amounts /\ price # 0
      /\ "live" \in States /\ {p} \in SUBSET Products
  BY DomainAssumption DEF Amounts, States
<1>3. /\ publishing' \in [Products -> Amounts] /\ publishing'[p] = price
      /\ \A q \in Products : q # p => publishing'[q] = publishing[q]
  BY <1>1, <1>2 DEF Inv, Domains
<1>4. history' \in History
  BY <1>1 DEF Inv, Domains
<1>5. /\ Domains' /\ OneWorkerPerRun' /\ HeldWhileDisconnected'
      /\ catalogue' = catalogue /\ store'[p].price = price
      /\ \A q \in Products : q # p => store'[q] = store[q]
      /\ \A w \in Workers :
            /\ worker'[w].phase = worker[w].phase /\ worker'[w].todo = worker[w].todo
            /\ \A q : q \in worker'[w].crossed <=>
                  q \in worker[w].crossed \/ (Reading(w) /\ q \in {p})
  <2> HIDE DEF Inv
  <2>1. history'.held = history.held
    BY <1>1
  <2> QED
    BY <1>1, <1>2, <1>3, <1>4, <2>1, ModifiedParts
<1>6. ASSUME NEW q \in Products
      PROVE  StoreFollows(q)' /\ Explained(q)'
  BY <1>1, <1>2, <1>3, <1>5 DEF Inv, PricesFollow, StoreFollows, Explained
<1>7. ASSUME NEW q \in Products, NEW w \in Workers
      PROVE  ListingFollows(w, q)'
  <2>1. CASE q = p
    BY <1>2, <1>3, <1>5, <2>1 DEF Inv, PricesFollow, ListingFollows, Uncrossed
  <2>2. CASE q # p
    <3>1. publishing'[q] = publishing[q] /\ history'.edited = history.edited
      BY <1>1, <1>3, <2>2
    <3>2. q \in worker'[w].crossed <=> q \in worker[w].crossed
      BY <1>5, <2>2
    <3>3. ListingFollows(w, q)
      BY DEF Inv, PricesFollow
    <3> QED
      BY <1>5, <3>1, <3>2, <3>3 DEF ListingFollows, Uncrossed, Reading
  <2> QED
    BY <2>1, <2>2
<1> QED
  BY <1>5, <1>6, <1>7 DEF Inv, PricesFollow

(* The copy gets the price that was published: it had not been edited since,*)
(* or is known to have been, and every run that reads is crossed.           *)
LEMMA RecordStep ==
    ASSUME Inv, NEW p \in Products, RecordPublished(p)
    PROVE  Inv'
<1> DEFINE same == store[p].price = publishing[p]
           edited == IF same THEN history.edited \ {p} ELSE history.edited
           excused == IF same THEN history.excused ELSE history.excused \cup {p}
           after(w) == IF Reading(w) THEN [worker[w] EXCEPT !.crossed = @ \cup {p}]
                                     ELSE worker[w]
<1>1. /\ publishing[p] # 0 /\ publishing' = [publishing EXCEPT ![p] = 0]
      /\ catalogue' = [catalogue EXCEPT ![p] = Recorded(p)]
      /\ worker' = [w \in Workers |-> after(w)]
      /\ history' = [history EXCEPT !.crossed = @ \ {p}, !.edited = edited, !.excused = excused]
      /\ UNCHANGED <<store, connection, runs, counted, spent>>
  BY DEF RecordPublished
<1>2. /\ publishing[p] \in Amounts /\ catalogue[p] \in Product /\ history \in History
  BY DEF Inv, Domains
<1>3. /\ Recorded(p) \in Product /\ Recorded(p).conflict = FALSE
      /\ Recorded(p).platform = publishing[p]
  BY <1>2 DEF Recorded, Product
<1>4. /\ catalogue' \in [Products -> Product] /\ catalogue'[p] = Recorded(p)
      /\ \A q \in Products : q # p => catalogue'[q] = catalogue[q]
  BY <1>1, <1>3 DEF Inv, Domains
<1>5. /\ publishing' \in [Products -> Amounts] /\ publishing'[p] = 0
      /\ \A q \in Products : q # p => publishing'[q] = publishing[q]
  BY <1>1 DEF Inv, Domains, Amounts
<1>6. edited \in SUBSET Products /\ excused \in SUBSET Products
  BY <1>2 DEF History
<1>7. /\ history' \in History /\ history'.edited = edited
      /\ history'.crossed = history.crossed \ {p} /\ history'.held = history.held
  BY <1>1, <1>2, <1>6 DEF History
<1>8. ASSUME NEW w \in Workers
      PROVE  /\ worker'[w] = after(w) /\ after(w) \in Worker
             /\ after(w).phase = worker[w].phase /\ after(w).todo = worker[w].todo
             /\ after(w).run = worker[w].run
             /\ Reading(w) => p \in after(w).crossed
             /\ \A q : q # p => (q \in after(w).crossed <=> q \in worker[w].crossed)
  <2>1. worker'[w] = after(w) /\ worker[w] \in Worker
    BY <1>1 DEF Inv, Domains
  <2>2. CASE Reading(w)
    BY <2>1, <2>2 DEF Worker
  <2>3. CASE ~Reading(w)
    BY <2>1, <2>3
  <2> QED
    BY <2>1, <2>2, <2>3
<1>9. worker' \in [Workers -> Worker]
  BY <1>1, <1>8
<1>10. Domains' /\ OneWorkerPerRun' /\ HeldWhileDisconnected'
  <2>1. Domains'
    BY <1>1, <1>4, <1>5, <1>7, <1>9 DEF Inv, Domains
  <2>2. OneWorkerPerRun'
    BY <1>1, <1>8, RunsKept
  <2>3. HeldWhileDisconnected'
    BY <1>1, <1>7, <1>8, HeldKept
  <2> QED
    BY <2>1, <2>2, <2>3
<1>11. StoreFollows(p)' /\ Explained(p)'
  <2>1. StoreFollows(p) /\ store' = store
    BY <1>1 DEF Inv, PricesFollow
  <2>2. CASE same
    BY <1>3, <1>4, <1>5, <2>1, <2>2 DEF StoreFollows, Explained
  <2>3. CASE ~same
    BY <1>1, <1>3, <1>4, <1>7, <2>1, <2>3 DEF StoreFollows, Explained
  <2> QED
    BY <2>2, <2>3
<1>12. ASSUME NEW q \in Products, q # p
       PROVE  StoreFollows(q)' /\ Explained(q)'
  BY <1>1, <1>4, <1>5, <1>7, <1>12 DEF Inv, PricesFollow, StoreFollows, Explained
<1>13. ASSUME NEW q \in Products, NEW w \in Workers
       PROVE  ListingFollows(w, q)'
  <2>1. ListingFollows(w, q)
    BY DEF Inv, PricesFollow
  <2>2. CASE q = p
    BY <1>8, <2>1, <2>2 DEF ListingFollows, Uncrossed, Reading
  <2>3. CASE q # p
    BY <1>4, <1>5, <1>7, <1>8, <2>1, <2>3 DEF ListingFollows, Uncrossed, Reading
  <2> QED
    BY <2>2, <2>3
<1> QED
  BY <1>10, <1>11, <1>12, <1>13 DEF Inv, PricesFollow

-----------------------------------------------------------------------------
(* A step of one worker that leaves the others as they are.                 *)
OnlyWorker(w) ==
    /\ worker' \in [Workers -> Worker]
    /\ \A v \in Workers : v # w => worker'[v] = worker[v]

LEMMA OneReplaced ==
    ASSUME Inv, NEW w \in Workers, NEW next \in Worker, worker' = [worker EXCEPT ![w] = next]
    PROVE  OnlyWorker(w) /\ worker'[w] = next
BY DEF OnlyWorker, Inv, Domains

LEMMA RunOfOne ==
    ASSUME Inv, NEW w \in Workers, OnlyWorker(w), runs' = runs,
           HasRun(w)' => HasRun(w) /\ worker'[w].run = worker[w].run
    PROVE  OneWorkerPerRun'
<1>1. ASSUME NEW v \in Workers
      PROVE  HasRun(v)' => HasRun(v) /\ worker'[v].run = worker[v].run
  <2>1. CASE v = w
    BY <2>1
  <2>2. CASE v # w
    BY <2>2 DEF OnlyWorker, HasRun
  <2> QED
    BY <2>1, <2>2
<1> QED
  BY <1>1 DEF Inv, OneWorkerPerRun

LEMMA RunEnds ==
    ASSUME Inv, NEW w \in Workers, OnlyWorker(w), End(worker[w].run), HasRun(w), ~HasRun(w)'
    PROVE  OneWorkerPerRun' /\ runs' \in [Runs -> RunRow]
<1>1. runs' = [runs EXCEPT ![worker[w].run] = NoRun] /\ worker[w].run \in Runs
  BY DEF End, Inv, OneWorkerPerRun
<1>2. /\ runs' \in [Runs -> RunRow]
      /\ \A r \in Runs : r # worker[w].run => runs'[r] = runs[r]
  BY <1>1 DEF NoRun, RunRow, Kinds, Inv, Domains
<1>3. ASSUME NEW v \in Workers, HasRun(v)'
      PROVE  v # w /\ HasRun(v) /\ worker'[v] = worker[v]
  BY <1>3 DEF OnlyWorker, HasRun
<1>4. ASSUME NEW v \in Workers, HasRun(v)'
      PROVE  worker'[v].run \in Runs /\ runs'[worker'[v].run].status = "running"
  BY <1>2, <1>3, <1>4 DEF Inv, OneWorkerPerRun
<1> QED
  BY <1>2, <1>3, <1>4 DEF Inv, OneWorkerPerRun

LEMMA HeldOfOne ==
    ASSUME Inv, NEW w \in Workers, OnlyWorker(w),
           connection'.status \in {connection.status, "connected"},
           Listing(w)' => Listing(w) \/ connection.status # "disconnected",
           \/ history'.held = history.held
           \/ ~Listing(w)' /\ history'.held = history.held \ {w}
    PROVE  HeldWhileDisconnected'
<1> SUFFICES ASSUME connection'.status = "disconnected", NEW v \in Workers, Listing(v)'
             PROVE  v \in history'.held
  BY DEF HeldWhileDisconnected
<1>1. connection.status = "disconnected" /\ Listing(v)
  BY DEF OnlyWorker, Listing
<1>2. v \in history.held
  BY <1>1 DEF Inv, HeldWhileDisconnected
<1> QED
  BY <1>2

LEMMA PricesOfOne ==
    ASSUME Inv, NEW w \in Workers, OnlyWorker(w), UNCHANGED publishing,
           \A p \in Products : /\ store'[p].price = store[p].price
                               /\ catalogue'[p].platform = catalogue[p].platform
                               /\ catalogue'[p].conflict = catalogue[p].conflict,
           history'.edited = history.edited, history'.crossed = history.crossed,
           \A p \in Products : ListingFollows(w, p)'
    PROVE  PricesFollow'
<1>1. ASSUME NEW p \in Products
      PROVE  StoreFollows(p)' /\ Explained(p)'
  BY DEF Inv, PricesFollow, StoreFollows, Explained
<1>2. ASSUME NEW p \in Products, NEW v \in Workers, v # w
      PROVE  ListingFollows(v, p)'
  BY <1>2 DEF OnlyWorker, Inv, PricesFollow, ListingFollows, Uncrossed, Reading
<1> QED
  BY <1>1, <1>2 DEF PricesFollow

(* A worker that is through with its listing.                               *)
LEMMA ListingOver ==
    ASSUME NEW w \in Workers, worker'[w].phase \in {"idle", "ending", "touching"},
           NEW p \in Products
    PROVE  ListingFollows(w, p)'
BY DEF ListingFollows, Uncrossed, Reading

-----------------------------------------------------------------------------
(* The steps of a worker, one lemma each.                                   *)
LEMMA ClaimStep ==
    ASSUME Inv, NEW w \in Workers, Claim(w)
    PROVE  Inv'
<1>1. PICK r \in Runs :
         /\ runs[r].status = "queued" /\ runs' = [runs EXCEPT ![r].status = "running"]
         /\ worker' = [worker EXCEPT ![w] = [Idle EXCEPT !.phase = "claimed", !.run = r]]
  BY DEF Claim, Starts
<1> DEFINE next == [Idle EXCEPT !.phase = "claimed", !.run = r]
<1>2. /\ next \in Worker /\ next.phase = "claimed" /\ next.run = r
      /\ \A p \in Products : next.todo[p] = 0
  BY IdleType DEF Idle, Worker, Phases
<1>3. OnlyWorker(w) /\ worker'[w] = next
  BY <1>1, <1>2, OneReplaced
<1>4. /\ runs' \in [Runs -> RunRow] /\ runs'[r].status = "running"
      /\ \A q \in Runs : q # r => runs'[q] = runs[q]
  BY <1>1 DEF Inv, Domains, RunRow
<1>5. /\ history' \in History /\ history'.held = history.held
      /\ history'.edited = history.edited /\ history'.crossed = history.crossed
      /\ UNCHANGED <<store, connection, catalogue, publishing, counted, spent>>
  BY DEF Claim, Inv, Domains, History
<1>6. Domains'
  BY <1>3, <1>4, <1>5 DEF OnlyWorker, Inv, Domains
<1>7. ASSUME NEW v \in Workers, v # w, HasRun(v)
      PROVE  worker[v].run # r /\ runs'[worker[v].run].status = "running"
  BY <1>1, <1>4, <1>7 DEF Inv, OneWorkerPerRun
<1>8. OneWorkerPerRun'
  <2>1. ASSUME NEW v \in Workers, HasRun(v)', v # w
        PROVE  /\ HasRun(v) /\ worker'[v].run = worker[v].run
               /\ worker'[v].run \in Runs /\ worker'[v].run # r
               /\ runs'[worker'[v].run].status = "running"
    <3>1. HasRun(v) /\ worker'[v].run = worker[v].run
      BY <1>3, <2>1 DEF OnlyWorker, HasRun
    <3>2. worker[v].run \in Runs
      BY <3>1 DEF Inv, OneWorkerPerRun
    <3> QED
      BY <1>7, <2>1, <3>1, <3>2
  <2>2. worker'[w].run = r
    BY <1>2, <1>3
  <2>3. ASSUME NEW v \in Workers, HasRun(v)'
        PROVE  worker'[v].run \in Runs /\ runs'[worker'[v].run].status = "running"
    BY <1>4, <2>1, <2>2, <2>3
  <2>4. ASSUME NEW u \in Workers, NEW v \in Workers, HasRun(u)', HasRun(v)',
               worker'[u].run = worker'[v].run
        PROVE  u = v
    BY <2>1, <2>2, <2>4 DEF Inv, OneWorkerPerRun
  <2> QED
    BY <2>3, <2>4 DEF OneWorkerPerRun
<1>9. HeldWhileDisconnected'
  BY <1>2, <1>3, <1>5, HeldOfOne DEF Listing
<1>10. ASSUME NEW p \in Products PROVE ListingFollows(w, p)'
  BY <1>2, <1>3 DEF ListingFollows, Uncrossed, Reading
<1> QED
  BY <1>3, <1>5, <1>6, <1>8, <1>9, <1>10, PricesOfOne DEF Inv

LEMMA LoadStep ==
    ASSUME Inv, NEW w \in Workers, Load(w)
    PROVE  Inv'
<1>1. /\ worker[w].phase = "claimed" /\ worker[w] \in Worker
      /\ UNCHANGED <<store, connection, catalogue, publishing, counted, spent>>
  BY DEF Load, InPhase, Inv, Domains
<1>2. CASE Refused
  <2>1. /\ End(worker[w].run) /\ worker' = [worker EXCEPT ![w] = Idle]
        /\ history' = [history EXCEPT !.ended = TRUE]
    BY <1>2 DEF Load
  <2>2. OnlyWorker(w) /\ worker'[w] = Idle /\ Idle.phase = "idle"
    BY <2>1, IdleType, OneReplaced DEF Idle
  <2>3. OneWorkerPerRun' /\ runs' \in [Runs -> RunRow]
    BY <1>1, <2>1, <2>2, RunEnds DEF HasRun
  <2>4. /\ history' \in History /\ history'.held = history.held
        /\ history'.edited = history.edited /\ history'.crossed = history.crossed
    BY <2>1 DEF Inv, Domains, History
  <2>5. Domains'
    BY <1>1, <2>2, <2>3, <2>4 DEF OnlyWorker, Inv, Domains
  <2>6. HeldWhileDisconnected'
    BY <1>1, <2>2, <2>4, HeldOfOne DEF Listing
  <2> QED
    BY <1>1, <2>2, <2>3, <2>4, <2>5, <2>6, PricesOfOne, ListingOver DEF Inv
<1>3. CASE ~Refused
  <2> DEFINE skip == IF Run(w).kind = "webhook"
                     THEN {p \in Products : ~store[p].covered} ELSE {}
             next == [worker[w] EXCEPT !.phase = "fetching", !.page = 1, !.skip = skip]
  <2>1. /\ worker' = [worker EXCEPT ![w] = next] /\ UNCHANGED <<runs, history>>
    BY <1>3 DEF Load
  <2>2. /\ next \in Worker /\ next.phase = "fetching" /\ next.run = worker[w].run
        /\ next.todo = worker[w].todo
    <3>1. skip \in SUBSET Products /\ "fetching" \in Phases
      BY DEF Phases
    <3> HIDE DEF skip
    <3> QED
      BY <1>1, <3>1 DEF Worker
  <2> HIDE DEF next
  <2>3. OnlyWorker(w) /\ worker'[w] = next
    BY <2>1, <2>2, OneReplaced
  <2>4. OneWorkerPerRun'
    BY <1>1, <2>1, <2>2, <2>3, RunOfOne DEF HasRun
  <2>5. connection.status # "disconnected"
    BY <1>3 DEF Refused
  <2>6. HeldWhileDisconnected'
    BY <1>1, <2>1, <2>3, <2>5, HeldOfOne
  <2>7. Domains'
    BY <1>1, <2>1, <2>3 DEF OnlyWorker, Inv, Domains
  <2>8. ASSUME NEW p \in Products PROVE ListingFollows(w, p)'
    <3>1. worker[w].todo[p] = 0
      BY <1>1 DEF Inv, PricesFollow, ListingFollows
    <3> QED
      BY <2>2, <2>3, <3>1 DEF ListingFollows
  <2> QED
    BY <1>1, <2>1, <2>3, <2>4, <2>6, <2>7, <2>8, PricesOfOne DEF Inv
<1> QED
  BY <1>2, <1>3

(* What is listed of a product whose price nobody edited is the platform's. *)
LEMMA ListPageStep ==
    ASSUME Inv, NEW w \in Workers, ListPage(w)
    PROVE  Inv'
<1>1. PICK page \in SUBSET Products, next \in Worker :
         /\ worker' = [worker EXCEPT ![w] = next]
         /\ next.phase \in {"fetching", "persisting"} /\ next.run = worker[w].run
         /\ next.todo = [p \in Products |-> IF p \in page THEN store[p].price
                                                          ELSE worker[w].todo[p]]
         /\ next.crossed = worker[w].crossed \cup {p \in page : publishing[p] # 0}
         /\ worker[w].phase = "fetching"
  <2> DEFINE match == {p \in Products \ worker[w].skip : Live(p)}
             before(p) == Cardinality({q \in match : q < p})
             page == {p \in match : before(p) \div PageSize + 1 = worker[w].page}
             last == worker[w].page * PageSize >= Cardinality(match)
             todo == [p \in Products |-> IF p \in page THEN store[p].price
                                                       ELSE worker[w].todo[p]]
             crossed == worker[w].crossed \cup {p \in page : publishing[p] # 0}
             number == IF last THEN 0 ELSE worker[w].page + 1
             skip == IF last THEN {} ELSE worker[w].skip
             phase == IF last THEN "persisting" ELSE worker[w].phase
             next == [worker[w] EXCEPT !.todo = todo, !.crossed = crossed, !.page = number,
                                       !.skip = skip, !.phase = phase]
  <2>1. /\ worker' = [worker EXCEPT ![w] = next] /\ worker[w].phase = "fetching"
        /\ worker[w] \in Worker /\ page \in SUBSET Products
    BY DEF ListPage, InPhase, Inv, Domains
  <2>2. /\ crossed \in SUBSET Products /\ number \in Nat /\ skip \in SUBSET Products
        /\ phase \in {"fetching", "persisting"} /\ phase \in Phases
    BY <2>1 DEF Worker, Phases
  <2>3. todo \in [Products -> Amounts]
    BY <2>1 DEF Worker, Inv, Domains, Item
  <2> HIDE DEF todo, crossed, number, skip, phase
  <2>4. /\ next \in Worker /\ next.phase = phase /\ next.run = worker[w].run
        /\ next.todo = todo /\ next.crossed = crossed
    BY <2>1, <2>2, <2>3 DEF Worker
  <2> QED
    BY <2>1, <2>2, <2>4 DEF todo, crossed
<1>2. UNCHANGED <<store, connection, runs, catalogue, publishing, counted, history, spent>>
  BY DEF ListPage
<1>3. OnlyWorker(w) /\ worker'[w] = next
  BY <1>1, OneReplaced
<1>4. OneWorkerPerRun'
  BY <1>1, <1>2, <1>3, RunOfOne DEF HasRun
<1>5. HeldWhileDisconnected'
  BY <1>1, <1>2, <1>3, HeldOfOne DEF Listing
<1>6. Domains'
  BY <1>2, <1>3 DEF OnlyWorker, Inv, Domains
<1>7. ASSUME NEW p \in Products PROVE ListingFollows(w, p)'
  <2>1. StoreFollows(p) /\ ListingFollows(w, p)
    BY DEF Inv, PricesFollow
  <2>2. CASE p \in page
    BY <1>1, <1>2, <1>3, <2>1, <2>2 DEF StoreFollows, ListingFollows, Uncrossed
  <2>3. CASE p \notin page
    BY <1>1, <1>2, <1>3, <2>1, <2>3 DEF ListingFollows, Uncrossed, Reading
  <2> QED
    BY <2>2, <2>3
<1> QED
  BY <1>2, <1>3, <1>4, <1>5, <1>6, <1>7, PricesOfOne DEF Inv

(* A step after which the worker has nothing listed.                        *)
LEMMA AfterListing ==
    ASSUME Inv, NEW w \in Workers, OnlyWorker(w), HasRun(w),
           worker'[w].phase \in {"ending", "idle"},
           worker'[w].phase = "ending" => Listing(w) /\ worker'[w].run = worker[w].run,
           UNCHANGED <<store, runs, connection, publishing, counted>>,
           catalogue' \in [Products -> Product], spent' \in [Hazards -> Nat],
           history' \in History, history'.held \in {history.held, history.held \ {w}},
           history'.held = history.held \/ worker'[w].phase = "idle",
           history'.edited = history.edited, history'.crossed = history.crossed,
           \A p \in Products : /\ catalogue'[p].platform = catalogue[p].platform
                               /\ catalogue'[p].conflict = catalogue[p].conflict
    PROVE  Inv'
<1>1. Domains'
  BY DEF OnlyWorker, Inv, Domains
<1>2. OneWorkerPerRun'
  BY RunOfOne DEF HasRun
<1>3. HeldWhileDisconnected'
  BY HeldOfOne DEF Listing
<1> QED
  BY <1>1, <1>2, <1>3, PricesOfOne, ListingOver DEF Inv

LEMMA EndingType ==
    ASSUME Inv, NEW w \in Workers
    PROVE  /\ Ending(w) \in Worker /\ Ending(w).phase = "ending"
           /\ Ending(w).run = worker[w].run
<1>1. worker[w] \in Worker /\ Idle \in Worker
  BY IdleType DEF Inv, Domains
<1> QED
  BY <1>1 DEF Ending, Worker, Phases, Idle

LEMMA FetchFailsStep ==
    ASSUME Inv, NEW w \in Workers, FetchFails(w)
    PROVE  Inv'
<1>1. /\ worker[w].phase = "fetching" /\ worker' = [worker EXCEPT ![w] = Ending(w)]
      /\ history' = [history EXCEPT !.excused = @ \cup {p \in Products : Behind(p)}]
      /\ UNCHANGED <<store, connection, runs, catalogue, publishing, counted>>
      /\ spent' \in [Hazards -> Nat] /\ catalogue' \in [Products -> Product]
  BY SpendType DEF FetchFails, InPhase, Inv, Domains, Hazards
<1>2. OnlyWorker(w) /\ worker'[w] = Ending(w)
  BY <1>1, EndingType, OneReplaced
<1>3. /\ history' \in History /\ history'.held = history.held
      /\ history'.edited = history.edited /\ history'.crossed = history.crossed
  BY <1>1 DEF Inv, Domains, History
<1>4. HasRun(w) /\ Listing(w)
  BY <1>1 DEF HasRun, Listing
<1> QED
  BY <1>1, <1>2, <1>3, <1>4, EndingType, AfterListing

LEMMA SweepStep ==
    ASSUME Inv, NEW w \in Workers, Sweep(w)
    PROVE  Inv'
<1> DEFINE swept(p) == /\ Sweeps(w) /\ catalogue[p].status = "published"
                       /\ catalogue[p].run # worker[w].run
<1>1. /\ worker[w].phase = "persisting" /\ worker' = [worker EXCEPT ![w] = Ending(w)]
      /\ UNCHANGED <<store, connection, runs, publishing, counted, history>>
      /\ spent' \in [Hazards -> Nat] /\ history' \in History
      /\ \/ catalogue' = catalogue
         \/ catalogue' = [p \in Products |-> IF swept(p)
               THEN [catalogue[p] EXCEPT !.status = "deleted"] ELSE catalogue[p]]
  BY SpendType DEF Sweep, InPhase, Inv, Domains, Hazards
<1>2. OnlyWorker(w) /\ worker'[w] = Ending(w)
  BY <1>1, EndingType, OneReplaced
<1>3. catalogue \in [Products -> Product]
  BY DEF Inv, Domains
<1>4. /\ catalogue' \in [Products -> Product]
      /\ \A p \in Products : /\ catalogue'[p].platform = catalogue[p].platform
                             /\ catalogue'[p].conflict = catalogue[p].conflict
  <2> HIDE DEF swept
  <2> QED
    BY <1>1, <1>3 DEF Product
<1>5. HasRun(w) /\ Listing(w)
  BY <1>1 DEF HasRun, Listing
<1> QED
  BY <1>1, <1>2, <1>4, <1>5, EndingType, AfterListing

LEMMA FinishStep ==
    ASSUME Inv, NEW w \in Workers, FinishSync(w)
    PROVE  Inv'
<1> DEFINE next == [Ending(w) EXCEPT !.phase = "touching", !.run = 0]
<1>1. /\ worker[w].phase = "ending" /\ End(worker[w].run)
      /\ worker' = [worker EXCEPT ![w] = next]
      /\ catalogue' = [p \in Products |-> IF catalogue[p].run = worker[w].run
                        THEN [catalogue[p] EXCEPT !.run = 0] ELSE catalogue[p]]
      /\ history' = [history EXCEPT !.ended = TRUE]
      /\ UNCHANGED <<store, connection, publishing, counted, spent>>
  BY DEF FinishSync, InPhase
<1>2. next \in Worker /\ next.phase = "touching"
  BY EndingType DEF Worker, Phases
<1>3. OnlyWorker(w) /\ worker'[w] = next
  BY <1>1, <1>2, OneReplaced
<1>4. OneWorkerPerRun' /\ runs' \in [Runs -> RunRow]
  BY <1>1, <1>2, <1>3, RunEnds DEF HasRun
<1>5. /\ catalogue' \in [Products -> Product]
      /\ \A p \in Products : /\ catalogue'[p].platform = catalogue[p].platform
                             /\ catalogue'[p].conflict = catalogue[p].conflict
  BY <1>1 DEF Product, Inv, Domains
<1>6. /\ history' \in History /\ history'.held = history.held
      /\ history'.edited = history.edited /\ history'.crossed = history.crossed
  BY <1>1 DEF Inv, Domains, History
<1>7. HeldWhileDisconnected'
  BY <1>1, <1>3, <1>6, HeldOfOne DEF Listing
<1>8. Domains'
  BY <1>1, <1>3, <1>4, <1>5, <1>6 DEF OnlyWorker, Inv, Domains
<1> QED
  BY <1>1, <1>2, <1>3, <1>4, <1>5, <1>6, <1>7, <1>8, PricesOfOne, ListingOver DEF Inv

LEMMA TouchStep ==
    ASSUME Inv, NEW w \in Workers, Touch(w)
    PROVE  Inv'
<1>1. /\ worker[w].phase = "touching" /\ worker' = [worker EXCEPT ![w] = Idle]
      /\ connection' = [status |-> "connected", sinceSync |-> 0]
      /\ store' = [p \in Products |-> [store[p] EXCEPT !.covered = WithinOverlap(p)]]
      /\ history' = [history EXCEPT !.held = @ \ {w}]
      /\ UNCHANGED <<runs, catalogue, publishing, counted, spent>>
  BY DEF Touch, InPhase
<1>2. OnlyWorker(w) /\ worker'[w] = Idle /\ Idle.phase = "idle"
  BY <1>1, IdleType, OneReplaced DEF Idle
<1>3. connection' \in Connection /\ connection'.status = "connected"
  BY <1>1, DomainAssumption DEF Connection
<1>4. /\ store' \in [Products -> Item]
      /\ \A p \in Products : store'[p].price = store[p].price
  <2>1. \A p \in Products : store[p] \in Item /\ WithinOverlap(p) \in BOOLEAN
    BY DEF Inv, Domains, WithinOverlap
  <2> HIDE DEF WithinOverlap
  <2> QED
    BY <1>1, <2>1 DEF Item
<1>5. /\ history' \in History /\ history'.held = history.held \ {w}
      /\ history'.edited = history.edited /\ history'.crossed = history.crossed
  BY <1>1 DEF Inv, Domains, History
<1>6. OneWorkerPerRun'
  BY <1>1, <1>2, RunOfOne DEF HasRun
<1>7. HeldWhileDisconnected'
  BY <1>2, <1>3, <1>5, HeldOfOne DEF Listing
<1>8. Domains'
  BY <1>1, <1>2, <1>3, <1>4, <1>5 DEF OnlyWorker, Inv, Domains
<1> QED
  BY <1>1, <1>2, <1>4, <1>5, <1>6, <1>7, <1>8, PricesOfOne, ListingOver DEF Inv

LEMMA DiesStep ==
    ASSUME Inv, NEW w \in Workers, Dies(w)
    PROVE  Inv'
<1>1. /\ worker' = [worker EXCEPT ![w] = Idle]
      /\ history' = [history EXCEPT !.held = @ \ {w}]
      /\ spent' \in [Hazards -> Nat]
      /\ UNCHANGED <<store, connection, runs, catalogue, publishing, counted>>
  BY SpendType DEF Dies, Inv, Domains, Hazards
<1>2. OnlyWorker(w) /\ worker'[w] = Idle /\ Idle.phase = "idle"
  BY <1>1, IdleType, OneReplaced DEF Idle
<1>3. /\ history' \in History /\ history'.held = history.held \ {w}
      /\ history'.edited = history.edited /\ history'.crossed = history.crossed
  BY <1>1 DEF Inv, Domains, History
<1>4. OneWorkerPerRun'
  BY <1>1, <1>2, RunOfOne DEF HasRun
<1>5. HeldWhileDisconnected'
  BY <1>1, <1>2, <1>3, HeldOfOne DEF Listing
<1>6. Domains'
  BY <1>1, <1>2, <1>3 DEF OnlyWorker, Inv, Domains
<1> QED
  BY <1>1, <1>2, <1>3, <1>4, <1>5, <1>6, PricesOfOne, ListingOver DEF Inv

(* A conflict flagged for a listed price that no publish crossed means that *)
(* the price was edited.                                                    *)
LEMMA SaveExplains ==
    ASSUME Inv, NEW w \in Workers, NEW p \in Products, Save(w, p),
           worker[w].phase = "persisting", worker[w].todo[p] # 0
    PROVE  /\ catalogue' \in [Products -> Product] /\ history' \in History
           /\ history'.held = history.held /\ history'.edited = history.edited
           /\ \A q \in Products : /\ catalogue'[q].platform = catalogue[q].platform
                                  /\ Explained(q)'
<1> DEFINE price == worker[w].todo[p]
           conflict == Conflicts(p, price)
           row == [status |-> "published", price |-> price,
                   platform |-> catalogue[p].platform,
                   run |-> worker[w].run, conflict |-> conflict]
           crossed == IF conflict /\ (p \in worker[w].crossed \/ publishing[p] # 0)
                      THEN history.crossed \cup {p} ELSE history.crossed \ {p}
           excused == IF price = store[p].price THEN history.excused \ {p} ELSE history.excused
<1>1. /\ catalogue' = [catalogue EXCEPT ![p] = row]
      /\ history' = [history EXCEPT !.crossed = crossed, !.excused = excused]
  BY DEF Save
<1>2. /\ catalogue[p] \in Product /\ history \in History /\ price \in Amounts
      /\ worker[w].run \in Runs \cup {0}
  BY DEF Inv, Domains, Worker
<1>3. conflict \in BOOLEAN /\ (conflict => price # catalogue[p].platform /\ catalogue[p].platform # 0)
  BY DEF Conflicts
<1>4. conflict /\ p \notin worker[w].crossed /\ publishing[p] = 0 => p \in history.edited
  BY <1>3 DEF Inv, PricesFollow, ListingFollows, Uncrossed, Reading
<1>5. crossed \in SUBSET Products /\ excused \in SUBSET Products
  BY <1>2 DEF History
<1>6. /\ conflict => p \in history.edited \/ p \in crossed
      /\ \A q \in Products : q # p => (q \in crossed <=> q \in history.crossed)
  BY <1>4
<1> HIDE DEF conflict, crossed, excused
<1>7. row \in Product /\ row.platform = catalogue[p].platform /\ row.conflict = conflict
  BY <1>2, <1>3 DEF Product
<1>8. /\ catalogue' \in [Products -> Product] /\ catalogue'[p] = row
      /\ \A q \in Products : q # p => catalogue'[q] = catalogue[q]
  BY <1>1, <1>7 DEF Inv, Domains
<1>9. /\ history' \in History /\ history'.held = history.held
      /\ history'.edited = history.edited /\ history'.crossed = crossed
  BY <1>1, <1>2, <1>5 DEF History
<1> HIDE DEF row
<1>10. ASSUME NEW q \in Products
       PROVE  catalogue'[q].platform = catalogue[q].platform /\ Explained(q)'
  <2>1. CASE q = p
    BY <1>6, <1>7, <1>8, <1>9, <2>1 DEF Explained
  <2>2. CASE q # p
    BY <1>6, <1>8, <1>9, <2>2 DEF Inv, PricesFollow, Explained
  <2> QED
    BY <2>1, <2>2
<1> QED
  BY <1>8, <1>9, <1>10

LEMMA PersistStep ==
    ASSUME Inv, NEW w \in Workers, NEW p \in Products, Persist(w, p) \/ PersistFails(w, p)
    PROVE  Inv'
<1>1. /\ worker[w].phase = "persisting" /\ worker[w].todo[p] # 0
      /\ UNCHANGED <<store, connection, runs, publishing, counted>>
      /\ spent' \in [Hazards -> Nat] /\ worker[w] \in Worker
  BY SpendType DEF Persist, PersistFails, InPhase, Inv, Domains, Hazards
<1>2. PICK failed \in BOOLEAN :
         worker' = [worker EXCEPT ![w] = [worker[w] EXCEPT !.todo = [@ EXCEPT ![p] = 0],
                                                           !.failed = failed]]
  <2>1. worker[w].failed \in BOOLEAN
    BY <1>1 DEF Worker
  <2>2. CASE Persist(w, p)
    <3>1. worker' = [worker EXCEPT ![w] = [worker[w] EXCEPT !.todo = [@ EXCEPT ![p] = 0]]]
      BY <2>2 DEF Persist
    <3>2. [worker[w] EXCEPT !.todo = [@ EXCEPT ![p] = 0]] =
             [worker[w] EXCEPT !.todo = [@ EXCEPT ![p] = 0], !.failed = worker[w].failed]
      BY <1>1 DEF Worker
    <3> QED
      BY <2>1, <3>1, <3>2
  <2>3. CASE PersistFails(w, p)
    <3>1. worker' = [worker EXCEPT ![w].todo[p] = 0, ![w].failed = TRUE]
      BY <2>3 DEF PersistFails
    <3> QED
      BY <1>1, <3>1 DEF Inv, Domains, Worker
  <2> QED
    BY <2>2, <2>3
<1> DEFINE todo == [worker[w].todo EXCEPT ![p] = 0]
           next == [worker[w] EXCEPT !.todo = todo, !.failed = failed]
<1>3. /\ todo \in [Products -> Amounts] /\ todo[p] = 0
      /\ \A q \in Products : q # p => todo[q] = worker[w].todo[q]
  BY <1>1 DEF Worker, Amounts
<1> HIDE DEF todo
<1>4. /\ next \in Worker /\ next.phase = "persisting" /\ next.run = worker[w].run
      /\ next.todo = todo /\ next.crossed = worker[w].crossed
  BY <1>1, <1>3 DEF Worker
<1>5. OnlyWorker(w) /\ worker'[w] = next
  BY <1>2, <1>4, OneReplaced DEF todo
<1> HIDE DEF next
<1>6. /\ catalogue' \in [Products -> Product] /\ history' \in History
      /\ history'.held = history.held /\ history'.edited = history.edited
      /\ \A q \in Products : /\ catalogue'[q].platform = catalogue[q].platform
                             /\ Explained(q)'
  <2>1. CASE Save(w, p)
    BY <1>1, <2>1, SaveExplains
  <2>2. CASE /\ catalogue' = catalogue
             /\ history' = [history EXCEPT !.excused = @ \cup {p}]
    <3>1. /\ history' \in History /\ history'.held = history.held
          /\ history'.edited = history.edited /\ history'.crossed = history.crossed
      BY <2>2 DEF Inv, Domains, History
    <3> QED
      BY <2>2, <3>1 DEF Inv, Domains, PricesFollow, Explained
  <2> QED
    BY <2>1, <2>2 DEF Persist, PersistFails
<1>7. Domains'
  BY <1>1, <1>5, <1>6 DEF OnlyWorker, Inv, Domains
<1>8. OneWorkerPerRun'
  BY <1>1, <1>4, <1>5, RunOfOne DEF HasRun
<1>9. HeldWhileDisconnected'
  BY <1>1, <1>5, <1>6, HeldOfOne DEF Listing
<1>10. ASSUME NEW q \in Products PROVE StoreFollows(q)'
  BY <1>1, <1>6 DEF Inv, PricesFollow, StoreFollows
<1>11. ASSUME NEW q \in Products, NEW v \in Workers PROVE ListingFollows(v, q)'
  <2>1. ListingFollows(v, q)
    BY DEF Inv, PricesFollow
  <2>2. CASE v # w
    BY <1>1, <1>5, <1>6, <2>1, <2>2 DEF OnlyWorker, ListingFollows, Uncrossed, Reading
  <2>3. CASE v = w
    BY <1>1, <1>3, <1>4, <1>5, <1>6, <2>1, <2>3 DEF ListingFollows, Uncrossed, Reading
  <2> QED
    BY <2>2, <2>3
<1> QED
  BY <1>6, <1>7, <1>8, <1>9, <1>10, <1>11 DEF Inv, PricesFollow

-----------------------------------------------------------------------------
LEMMA InitHolds == Init => Inv
<1> SUFFICES ASSUME Init PROVE Inv
  OBVIOUS
<1> DEFINE any == CHOOSE price \in Prices : TRUE
<1>1. any \in Prices
  BY DomainAssumption
<1>2. store \in [Products -> Item]
  <2> DEFINE first == [state : {"absent", "live"}, price : {any}, age : {Overlap},
                       covered : {TRUE}]
  <2>1. store \in [Products -> first]
    BY DEF Init
  <2>2. any \in Amounts /\ Overlap \in 0..Overlap
    BY <1>1, DomainAssumption DEF Amounts
  <2> HIDE DEF any
  <2>3. first \subseteq Item
    BY <2>2 DEF Item, States
  <2> HIDE DEF first
  <2> QED
    BY <2>1, <2>3
<1>3. /\ connection \in Connection /\ runs \in [Runs -> RunRow]
      /\ catalogue \in [Products -> Product] /\ publishing \in [Products -> Amounts]
      /\ counted \subseteq Callers /\ history \in History /\ spent \in [Hazards -> Nat]
  <2>1. connection \in Connection
    BY DomainAssumption DEF Init, Connection
  <2>2. runs \in [Runs -> RunRow]
    BY DEF Init, RunRow, Kinds, NoRun
  <2>3. catalogue \in [Products -> Product]
    BY DEF Init, Product, Amounts
  <2>4. publishing \in [Products -> Amounts] /\ counted \subseteq Callers
    BY DEF Init, Amounts
  <2>5. history \in History
    BY DEF Init, History
  <2>6. spent \in [Hazards -> Nat]
    BY DEF Init
  <2> QED
    BY <2>1, <2>2, <2>3, <2>4, <2>5, <2>6
<1>4. worker \in [Workers -> Worker] /\ \A w \in Workers : worker[w].phase = "idle"
  BY IdleType DEF Init, Idle
<1>5. OneWorkerPerRun /\ HeldWhileDisconnected
  BY <1>4 DEF OneWorkerPerRun, HasRun, HeldWhileDisconnected, Listing
<1>6. PricesFollow
  BY <1>4 DEF Init, PricesFollow, StoreFollows, Explained, ListingFollows, Uncrossed, Reading
<1> QED
  BY <1>2, <1>3, <1>4, <1>5, <1>6 DEF Inv, Domains

LEMMA StepHolds == Inv /\ [Next]_vars => Inv'
<1> SUFFICES ASSUME Inv, [Next]_vars PROVE Inv'
  OBVIOUS
<1>1. ASSUME NEW p \in Products, Create(p) \/ Remove(p) \/ RecordPublished(p) \/ ReceiveWebhook(p)
      PROVE  Inv'
  BY <1>1, CreateRemoveStep, RecordStep, QuietSteps
<1>2. ASSUME NEW p \in Products, NEW price \in Prices, Edit(p, price) \/ PublishPrice(p, price)
      PROVE  Inv'
  BY <1>2, EditStep, PublishStep
<1>3. ASSUME NEW c \in Callers, EnqueueSync(c) PROVE Inv'
  BY <1>3, EnqueueStep
<1>4. ASSUME NEW w \in Workers, ProcessNext(w) \/ FetchFails(w) \/ Dies(w)
      PROVE  Inv'
  BY <1>4, ClaimStep, LoadStep, ListPageStep, SweepStep, FinishStep, TouchStep,
     PersistStep, FetchFailsStep, DiesStep DEF ProcessNext
<1>5. ASSUME NEW w \in Workers, NEW p \in Products, PersistFails(w, p) PROVE Inv'
  BY <1>5, PersistStep
<1>6. CASE \/ Tick \/ ReconcileDue \/ RetrySync \/ Connect \/ Disconnect \/ TestConnection
           \/ UNCHANGED vars
  BY <1>6, QuietSteps
<1> QED
  BY <1>1, <1>2, <1>3, <1>4, <1>5, <1>6 DEF Next

(* Rows of runs, the connection and flagged prices stay explained by what    *)
(* happened before, whatever workers, users and webhooks do (sync.go,       *)
(* persistProduct, runSync; service.go, Disconnect).                        *)
THEOREM InvHolds == Spec => []Inv
BY InitHolds, StepHolds, PTL DEF Spec

(* Every variable stays in its domain, and a run a worker is carrying out   *)
(* is marked running until that worker ends it (sync.go, claim to finish).  *)
THEOREM TypeCorrect == Spec => []TypeOK
<1>1. Inv => TypeOK
  BY TypeParts DEF Inv
<1> QED
  BY <1>1, InvHolds, PTL

(* A price conflict is flagged only when somebody edited a published price  *)
(* in the store, or when a publish crossed the run that flagged it.         *)
THEOREM ConflictsAreReal == Spec => []ConflictIsReal
<1>1. Inv => ConflictIsReal
  BY DEF Inv, PricesFollow, Explained, ConflictIsReal
<1> QED
  BY <1>1, InvHolds, PTL

(* Whatever makes a disconnected store connected again is somebody who      *)
(* connects or tests it, or a run that had loaded the connection before.    *)
THEOREM DisconnectAlwaysHolds == Spec => DisconnectHolds
<1> DEFINE Reconnects == /\ connection.status = "disconnected"
                         /\ connection'.status = "connected"
           Rightly == Connect \/ TestConnection \/ \E w \in history.held : Touch(w)
<1>1. Inv /\ [Next]_vars => [Reconnects => Rightly]_vars
  <2> SUFFICES ASSUME Inv, Next, Reconnects PROVE Rightly
    BY DEF vars
  <2>1. ASSUME NEW w \in Workers, Touch(w) PROVE Rightly
    <3>1. w \in history.held
      BY <2>1 DEF Touch, InPhase, Listing, Inv, HeldWhileDisconnected
    <3> QED
      BY <2>1, <3>1
  <2>2. ASSUME connection' # connection, ~Connect, ~TestConnection,
               \A w \in Workers : ~Touch(w)
        PROVE  Tick \/ Disconnect
    <3>1. ASSUME NEW p \in Products
          PROVE  Create(p) \/ Remove(p) \/ RecordPublished(p) \/ ReceiveWebhook(p)
                    => connection' = connection
      BY DEF Create, Remove, RecordPublished, ReceiveWebhook, Modified
    <3>2. ASSUME NEW p \in Products, NEW price \in Prices
          PROVE  Edit(p, price) \/ PublishPrice(p, price) => connection' = connection
      BY DEF Edit, PublishPrice, Modified
    <3>3. ASSUME NEW c \in Callers
          PROVE  EnqueueSync(c) => connection' = connection
      BY DEF EnqueueSync
    <3>4. ASSUME NEW w \in Workers
          PROVE  Claim(w) \/ Load(w) \/ ListPage(w) \/ Sweep(w) \/ FinishSync(w)
                    \/ FetchFails(w) \/ Dies(w) => connection' = connection
      BY DEF Claim, Load, ListPage, Sweep, FinishSync, FetchFails, Dies
    <3>5. ASSUME NEW w \in Workers, NEW p \in Products
          PROVE  Persist(w, p) \/ PersistFails(w, p) => connection' = connection
      BY DEF Persist, PersistFails
    <3>6. ReconcileDue \/ RetrySync => connection' = connection
      BY DEF ReconcileDue, RetrySync
    <3> QED
      BY <2>2, <3>1, <3>2, <3>3, <3>4, <3>5, <3>6 DEF Next, ProcessNext
  <2>3. Tick => connection'.status = connection.status
    BY DEF Tick, Inv, Domains, Connection
  <2>4. Disconnect => connection'.status = "disconnected"
    BY DEF Disconnect, SetStatus, Inv, Domains, Connection
  <2> QED
    BY <2>1, <2>2, <2>3, <2>4
<1> QED
  BY <1>1, InvHolds, PTL DEF Spec, DisconnectHolds

-----------------------------------------------------------------------------
(***************************************************************************)
(* Runs that do not overlap miss no change and delete nothing that is sold. *)
(* A product counts as noticed by a run that has the price the store has,   *)
(* or has yet to come to the page the product is on, or was listing when it *)
(* was modified, less than the overlap ago.                                *)
(***************************************************************************)
Active(w) == worker[w].phase \notin {"idle", "touching"}

Alone == \A v, w \in Workers : Active(v) /\ Active(w) => v = w

Queue(w, p) == {q \in Products \ worker[w].skip : Live(q) /\ q < p}

Coming(w, p) ==
    /\ p \notin worker[w].skip
    /\ Cardinality(Queue(w, p)) >= (worker[w].page - 1) * PageSize

InTime(w, p) == p \in worker[w].late /\ WithinOverlap(p)

Excused(p) == p \in history.excused

SafeFromSweep(w, p) ==
    Reading(w) /\ Live(p) /\ catalogue[p].status = "published" /\ Run(w).kind = "full" =>
        /\ InPhase(w, "fetching") => worker[w].todo[p] # 0 \/ Coming(w, p)
        /\ InPhase(w, "persisting") /\ ~worker[w].failed =>
              worker[w].todo[p] # 0 \/ catalogue[p].run = worker[w].run

(* What is listed and no longer so was modified under everybody's eyes.     *)
StaleIsLate(w, p) ==
    Reading(w) /\ Live(p) /\ worker[w].todo[p] \notin {0, store[p].price} =>
        /\ \A v \in Workers : Listing(v) => p \in worker[v].late
        /\ WithinOverlap(p) \/ Excused(p)

Noticed(w, p) ==
    Behind(p) /\ ~Excused(p) =>
        /\ InPhase(w, "fetching") =>
              worker[w].todo[p] = store[p].price \/ InTime(w, p) \/ Coming(w, p)
        /\ InPhase(w, "persisting") => worker[w].todo[p] = store[p].price \/ InTime(w, p)
        /\ worker[w].phase \in {"ending", "touching"} => InTime(w, p)

Followed(w, p) == SafeFromSweep(w, p) /\ StaleIsLate(w, p) /\ Noticed(w, p)

Settled(p) ==
    /\ Live(p) => catalogue[p].status # "deleted"
    /\ publishing[p] # 0 /\ Live(p) => catalogue[p].status = "published"
    /\ Behind(p) => store[p].covered \/ Excused(p)

Sound(p) ==
    /\ store[p].price # 0
    /\ WithinOverlap(p) => store[p].covered
    /\ store[p].state = "absent" =>
          /\ catalogue[p].status = "unknown" /\ publishing[p] = 0
          /\ \A w \in Workers : worker[w].todo[p] = 0

Tracked == Alone /\ \A p \in Products : Settled(p) /\ \A w \in Workers : Followed(w, p)

ChangesInv == (\A p \in Products : Sound(p)) /\ (history.disturbed \/ Tracked)

-----------------------------------------------------------------------------
LEMMA AloneKept ==
    ASSUME Alone, \A w \in Workers : Active(w)' => Active(w)
    PROVE  Alone'
BY DEF Alone, Active

(* A listing that only grows does not move a product to an earlier page.    *)
LEMMA ComingKept ==
    ASSUME Inv, NEW w \in Workers, NEW p \in Products, Coming(w, p),
           worker'[w].page = worker[w].page, worker'[w].skip \subseteq worker[w].skip,
           \A q \in Products : Live(q) => Live(q)'
    PROVE  Coming(w, p)'
<1> DEFINE before == Queue(w, p)
           after == {q \in Products \ worker'[w].skip : Live(q)' /\ q < p}
<1>1. before \subseteq after /\ after \subseteq Products
  BY DEF Queue
<1>2. IsFiniteSet(after) /\ Cardinality(before) <= Cardinality(after)
  BY <1>1, FS_Subset, DomainAssumption
<1>3. Cardinality(before) \in Nat /\ Cardinality(after) \in Nat
  BY <1>1, <1>2, FS_Subset, FS_CardinalityType
<1>4. PICK n : n = (worker[w].page - 1) * PageSize
  OBVIOUS
<1>5. n \in Int
  BY <1>4, DomainAssumption DEF Inv, Domains, Worker
<1>6. Cardinality(before) >= n /\ p \notin worker'[w].skip
  BY <1>4 DEF Coming
<1>7. Cardinality(after) >= n
  BY <1>2, <1>3, <1>5, <1>6
<1>8. (worker'[w].page - 1) * PageSize = n /\ Queue(w, p)' = after
  BY <1>4 DEF Queue
<1> QED
  BY <1>6, <1>7, <1>8 DEF Coming

(* What a step leaves alone of a run and a product keeps the product        *)
(* followed by the run.                                                    *)
LEMMA FollowedKept ==
    ASSUME Inv, NEW w \in Workers, NEW p \in Products, Followed(w, p),
           worker'[w].phase = worker[w].phase, worker'[w].run = worker[w].run,
           worker'[w].todo = worker[w].todo, worker'[w].failed = worker[w].failed,
           worker[w].late \subseteq worker'[w].late,
           InPhase(w, "fetching") =>
               /\ worker'[w].page = worker[w].page /\ worker'[w].skip \subseteq worker[w].skip
               /\ \A q \in Products : Live(q) => Live(q)',
           store'[p].state = store[p].state, store'[p].price = store[p].price,
           InTime(w, p) => WithinOverlap(p)' \/ Excused(p)',
           Excused(p) => Excused(p)',
           Live(p) => /\ catalogue'[p].status = catalogue[p].status
                      /\ catalogue'[p].price = catalogue[p].price,
           InPhase(w, "persisting") => catalogue'[p].run = catalogue[p].run,
           Reading(w) => /\ Run(w)'.kind = Run(w).kind
                         /\ \A v \in Workers : Listing(v)' =>
                               Listing(v) /\ worker[v].late \subseteq worker'[v].late
    PROVE  Followed(w, p)'
<1>1. /\ Live(p)' = Live(p) /\ Reading(w)' = Reading(w) /\ Listing(w)' = Listing(w)
      /\ \A phase : InPhase(w, phase)' = InPhase(w, phase)
  BY DEF Live, Reading, Listing, InPhase
<1>2. InPhase(w, "fetching") /\ Coming(w, p) => Coming(w, p)'
  BY ComingKept
<1>3. InTime(w, p) => InTime(w, p)' \/ Excused(p)'
  BY DEF InTime
<1>4. SafeFromSweep(w, p)'
  BY <1>1, <1>2 DEF Followed, SafeFromSweep
<1>5. StaleIsLate(w, p)'
  BY <1>1, <1>3 DEF Followed, StaleIsLate, InTime, Reading, Listing
<1>6. Behind(p)' => Behind(p)
  BY <1>1 DEF Behind, Agrees
<1>7. Noticed(w, p)'
  BY <1>1, <1>2, <1>3, <1>6 DEF Followed, Noticed, InPhase
<1> QED
  BY <1>4, <1>5, <1>7 DEF Followed

-----------------------------------------------------------------------------
(* What a change of the store leaves alone of a run, and what it does not.  *)
LEMMA ModifiedRuns ==
    ASSUME Inv, NEW m \in Products, NEW state \in States, NEW price \in Amounts,
           NEW crossing \in SUBSET Products, Modified(m, state, price, crossing)
    PROVE  /\ store'[m] = [state |-> state, price |-> price, age |-> 0, covered |-> TRUE]
           /\ \A q \in Products : q # m => store'[q] = store[q]
           /\ UNCHANGED <<runs, catalogue>>
           /\ \A w \in Workers :
                 /\ worker'[w].phase = worker[w].phase /\ worker'[w].run = worker[w].run
                 /\ worker'[w].todo = worker[w].todo /\ worker'[w].page = worker[w].page
                 /\ worker'[w].failed = worker[w].failed
                 /\ worker'[w].skip \subseteq worker[w].skip
                 /\ worker[w].late \subseteq worker'[w].late
                 /\ Listing(w) => m \notin worker'[w].skip /\ m \in worker'[w].late
<1> DEFINE item == [state |-> state, price |-> price, age |-> 0, covered |-> TRUE]
           after(w) == IF ~Listing(w) THEN worker[w] ELSE
                     [worker[w] EXCEPT !.skip = @ \ {m}, !.late = @ \cup {m},
                                       !.crossed = IF Reading(w) THEN @ \cup crossing ELSE @]
<1>1. /\ store' = [store EXCEPT ![m] = item]
      /\ worker' = [w \in Workers |-> after(w)]
      /\ UNCHANGED <<connection, runs, catalogue, counted>>
  BY DEF Modified
<1>2. store'[m] = item /\ \A q \in Products : q # m => store'[q] = store[q]
  BY <1>1 DEF Inv, Domains
<1>3. ASSUME NEW w \in Workers
      PROVE  /\ worker'[w].phase = worker[w].phase /\ worker'[w].run = worker[w].run
             /\ worker'[w].todo = worker[w].todo /\ worker'[w].page = worker[w].page
             /\ worker'[w].failed = worker[w].failed
             /\ worker'[w].skip \subseteq worker[w].skip
             /\ worker[w].late \subseteq worker'[w].late
             /\ Listing(w) => m \notin worker'[w].skip /\ m \in worker'[w].late
  <2>1. worker[w] \in Worker /\ worker'[w] = after(w)
    BY <1>1 DEF Inv, Domains
  <2>2. CASE ~Listing(w)
    BY <2>1, <2>2
  <2>3. CASE Listing(w)
    BY <2>1, <2>3 DEF Worker
  <2> QED
    BY <2>2, <2>3
<1> QED
  BY <1>1, <1>2, <1>3

(* A change of the store is covered by the next webhook run, and every run  *)
(* that is listing notes it as late.                                       *)
LEMMA ModifiedTracked ==
    ASSUME Inv, Inv', ChangesInv, NEW m \in Products, NEW state \in {"live", "gone"},
           NEW price \in Prices, NEW crossing \in SUBSET Products,
           Modified(m, state, price, crossing), store[m].state # "gone",
           \A q \in Products : q # m => publishing'[q] = publishing[q],
           publishing'[m] = publishing[m] \/ catalogue[m].status = "published",
           history'.excused = history.excused,
           ~history'.disturbed => ~history.disturbed,
           ~history'.disturbed /\ state = "gone" =>
               \A w \in Workers : worker[w].phase # "fetching"
    PROVE  ChangesInv'
<1>1. /\ store'[m] = [state |-> state, price |-> price, age |-> 0, covered |-> TRUE]
      /\ \A q \in Products : q # m => store'[q] = store[q]
      /\ UNCHANGED <<runs, catalogue>>
      /\ \A w \in Workers :
             /\ worker'[w].phase = worker[w].phase /\ worker'[w].run = worker[w].run
             /\ worker'[w].todo = worker[w].todo /\ worker'[w].page = worker[w].page
             /\ worker'[w].failed = worker[w].failed
             /\ worker'[w].skip \subseteq worker[w].skip
             /\ worker[w].late \subseteq worker'[w].late
             /\ Listing(w) => m \notin worker'[w].skip /\ m \in worker'[w].late
  <2> state \in States /\ price \in Amounts
    BY DEF States, Amounts
  <2> QED
    BY ModifiedRuns
<1>2. /\ store'[m].state = state /\ store'[m].price = price /\ price # 0
      /\ store'[m].age = 0 /\ store'[m].covered
  BY <1>1, DomainAssumption
<1>3. WithinOverlap(m)'
  BY <1>2, DomainAssumption DEF WithinOverlap
<1>4. ASSUME NEW p \in Products PROVE Sound(p)'
  <2>1. CASE p = m
    BY <1>2, <2>1 DEF Sound
  <2>2. CASE p # m
    BY <1>1, <2>2 DEF ChangesInv, Sound, WithinOverlap
  <2> QED
    BY <2>1, <2>2
<1>5. ASSUME Tracked, ~history'.disturbed PROVE Tracked'
  <2>1. Alone'
    BY <1>1, <1>5, AloneKept DEF Tracked, Active
  <2>2. ASSUME NEW w \in Workers, InPhase(w, "fetching"), NEW q \in Products, Live(q)
        PROVE  Live(q)'
    BY <1>1, <1>2, <1>5, <2>2 DEF Live, InPhase
  <2>3. ASSUME NEW p \in Products, p # m
        PROVE  Settled(p)' /\ \A w \in Workers : Followed(w, p)'
    <3>1. /\ store'[p] = store[p] /\ publishing'[p] = publishing[p]
          /\ Settled(p) /\ Excused(p)' = Excused(p)
      BY <1>1, <1>5, <2>3 DEF Tracked, Excused
    <3>2. Settled(p)'
      BY <1>1, <3>1 DEF Settled, Live, Behind, Agrees
    <3>3. ASSUME NEW w \in Workers PROVE Followed(w, p)'
      <4>1. Followed(w, p)
        BY <1>5 DEF Tracked
      <4>2. InTime(w, p) => WithinOverlap(p)'
        BY <3>1 DEF InTime, WithinOverlap
      <4>3. Run(w)' = Run(w) /\ \A v \in Workers : Listing(v)' = Listing(v)
        BY <1>1 DEF Run, Listing
      <4> QED
        BY <1>1, <2>2, <3>1, <4>1, <4>2, <4>3, FollowedKept
    <3> QED
      BY <3>2, <3>3
  <2>4. Settled(m)'
    <3>1. Settled(m) /\ Sound(m)
      BY <1>5 DEF Tracked, ChangesInv
    <3>2. Live(m) \/ store[m].state = "absent"
      BY DEF Live, Inv, Domains, Item, States
    <3> QED
      BY <1>1, <1>2, <3>1, <3>2 DEF Settled, Sound, Live
  <2>5. ASSUME NEW w \in Workers PROVE Followed(w, m)'
    <3>1. Listing(w) => InTime(w, m)'
      BY <1>1, <1>3 DEF InTime
    <3>2. Noticed(w, m)'
      BY <1>1, <3>1 DEF Noticed, InPhase, Listing
    <3>3. StaleIsLate(w, m)'
      BY <1>1, <1>3 DEF StaleIsLate, Listing
    <3>4. SafeFromSweep(w, m)'
      <4> SUFFICES ASSUME Reading(w)', Live(m)', catalogue'[m].status = "published",
                          Run(w)'.kind = "full"
                   PROVE  /\ InPhase(w, "fetching")' =>
                                worker'[w].todo[m] # 0 \/ Coming(w, m)'
                          /\ InPhase(w, "persisting")' /\ ~worker'[w].failed =>
                                worker'[w].todo[m] # 0 \/ catalogue'[m].run = worker'[w].run
        BY DEF SafeFromSweep
      <4>1. Live(m) /\ SafeFromSweep(w, m)
        BY <1>1, <1>5 DEF ChangesInv, Sound, Live, Tracked, Followed, Inv, Domains, Item, States
      <4>2. Reading(w) /\ Run(w).kind = "full" /\ catalogue[m].status = "published"
        BY <1>1 DEF Reading, Run
      <4>3. InPhase(w, "fetching") /\ Coming(w, m) => Coming(w, m)'
        BY <1>1, <2>2, ComingKept
      <4> QED
        BY <1>1, <4>1, <4>2, <4>3 DEF SafeFromSweep, InPhase
    <3> QED
      BY <3>2, <3>3, <3>4 DEF Followed
  <2> QED
    BY <2>1, <2>3, <2>4, <2>5 DEF Tracked
<1> QED
  BY <1>4, <1>5 DEF ChangesInv

LEMMA ChangeTracked ==
    ASSUME Inv, Inv', ChangesInv, NEW p \in Products,
           \/ Create(p) \/ Remove(p)
           \/ \E price \in Prices : Edit(p, price) \/ PublishPrice(p, price)
    PROVE  ChangesInv'
<1>0. PICK old \in Prices : old = store[p].price
  BY DEF ChangesInv, Sound, Inv, Domains, Item, Amounts
<1>1. /\ history \in History /\ publishing \in [Products -> Amounts]
      /\ {p} \in SUBSET Products /\ {} \in SUBSET Products
  BY DEF Inv, Domains
<1>2. CASE Create(p)
  <2>1. /\ Modified(p, "live", old, {}) /\ store[p].state = "absent"
        /\ UNCHANGED <<publishing, history>>
    BY <1>0, <1>2 DEF Create
  <2> QED
    BY <1>1, <2>1, ModifiedTracked
<1>3. CASE Remove(p)
  <2>1. /\ Modified(p, "gone", old, {}) /\ store[p].state = "live"
        /\ publishing' = publishing /\ history'.excused = history.excused
        /\ ~history'.disturbed =>
              ~history.disturbed /\ \A w \in Workers : worker[w].phase # "fetching"
    BY <1>0, <1>1, <1>3 DEF Remove, Live, History
  <2> QED
    BY <1>1, <2>1, ModifiedTracked
<1>4. ASSUME NEW price \in Prices, Edit(p, price) PROVE ChangesInv'
  <2>1. /\ Modified(p, "live", price, {}) /\ store[p].state = "live"
        /\ publishing' = publishing /\ history'.excused = history.excused
        /\ history'.disturbed = history.disturbed
    BY <1>1, <1>4 DEF Edit, Live, History
  <2> QED
    BY <1>1, <2>1, ModifiedTracked
<1>5. ASSUME NEW price \in Prices, PublishPrice(p, price) PROVE ChangesInv'
  <2>1. /\ Modified(p, "live", price, {p}) /\ store[p].state = "live"
        /\ catalogue[p].status = "published" /\ UNCHANGED history
        /\ \A q \in Products : q # p => publishing'[q] = publishing[q]
    BY <1>1, <1>5 DEF PublishPrice, Live
  <2> QED
    BY <1>1, <2>1, ModifiedTracked
<1> QED
  BY <1>2, <1>3, <1>4, <1>5

-----------------------------------------------------------------------------
(* Steps that change no product that is sold and nothing a worker holds.    *)
LEMMA QuietTracked ==
    ASSUME Inv, ChangesInv, UNCHANGED <<store, worker, publishing>>,
           history'.excused = history.excused, history'.disturbed = history.disturbed,
           \A p \in Products : /\ catalogue'[p].price = catalogue[p].price
                               /\ catalogue'[p].run = catalogue[p].run
                               /\ \/ catalogue'[p].status = catalogue[p].status
                                  \/ store[p].state = "gone",
           \A w \in Workers : Reading(w) => Run(w)'.kind = Run(w).kind
    PROVE  ChangesInv'
<1>1. ASSUME NEW p \in Products PROVE Sound(p)'
  BY DEF ChangesInv, Sound, WithinOverlap
<1>2. ASSUME Tracked PROVE Tracked'
  <2>1. Alone'
    BY <1>2 DEF Tracked, Alone, Active
  <2>2. ASSUME NEW p \in Products PROVE Settled(p)'
    BY <1>2 DEF Tracked, Settled, Live, Behind, Agrees, Excused
  <2>3. ASSUME NEW p \in Products, NEW w \in Workers PROVE Followed(w, p)'
    <3>1. Followed(w, p) /\ Excused(p)' = Excused(p)
      BY <1>2 DEF Tracked, Excused
    <3>2. /\ InTime(w, p) => WithinOverlap(p)'
          /\ \A q \in Products : Live(q)' = Live(q)
          /\ \A v \in Workers : Listing(v)' = Listing(v)
          /\ Live(p) => catalogue'[p].status = catalogue[p].status
      BY DEF InTime, WithinOverlap, Live, Listing
    <3> QED
      BY <3>1, <3>2, FollowedKept
  <2> QED
    BY <2>1, <2>2, <2>3 DEF Tracked
<1> QED
  BY <1>1, <1>2 DEF ChangesInv

LEMMA OutsideTracked ==
    ASSUME Inv, ChangesInv,
           \/ ReconcileDue \/ RetrySync \/ Connect \/ Disconnect \/ TestConnection
           \/ \E p \in Products : ReceiveWebhook(p)
           \/ \E c \in Callers : EnqueueSync(c)
           \/ UNCHANGED vars
    PROVE  ChangesInv'
<1>0. history \in History /\ catalogue \in [Products -> Product] /\ runs \in [Runs -> RunRow]
  BY DEF Inv, Domains
<1>1. CASE ReconcileDue \/ RetrySync \/ UNCHANGED vars
  <2>1. UNCHANGED <<store, worker, publishing, history, catalogue, runs>>
    BY <1>1 DEF ReconcileDue, RetrySync, vars
  <2> QED
    BY <2>1, QuietTracked DEF Run
<1>2. CASE Connect \/ Disconnect \/ TestConnection
  <2>1. /\ UNCHANGED <<store, worker, publishing, catalogue, runs>>
        /\ history'.excused = history.excused /\ history'.disturbed = history.disturbed
    BY <1>0, <1>2 DEF Connect, Disconnect, TestConnection, SetStatus, History
  <2> QED
    BY <2>1, QuietTracked DEF Run
<1>3. ASSUME NEW p \in Products, ReceiveWebhook(p) PROVE ChangesInv'
  <2>1. UNCHANGED <<store, worker, publishing, history, runs>>
    BY <1>3 DEF ReceiveWebhook
  <2>2. ASSUME NEW q \in Products
        PROVE  /\ catalogue'[q].price = catalogue[q].price
               /\ catalogue'[q].run = catalogue[q].run
               /\ catalogue'[q].status = catalogue[q].status \/ store[q].state = "gone"
    <3>1. CASE Live(p) \/ catalogue[p].status = "unknown"
      BY <1>3, <3>1 DEF ReceiveWebhook
    <3>2. CASE ~(Live(p) \/ catalogue[p].status = "unknown")
      <4>1. store[p].state = "gone"
        BY <1>3, <3>2 DEF ReceiveWebhook, Live, Inv, Domains, Item, States
      <4>2. catalogue' = [catalogue EXCEPT ![p].status = "deleted"]
        BY <1>3, <3>2 DEF ReceiveWebhook
      <4>3. CASE q = p
        BY <1>0, <4>1, <4>2, <4>3 DEF Product
      <4>4. CASE q # p
        BY <1>0, <4>2, <4>4
      <4> QED
        BY <4>3, <4>4
    <3> QED
      BY <3>1, <3>2
  <2> QED
    BY <2>1, <2>2, QuietTracked DEF Run
<1>4. ASSUME NEW c \in Callers, EnqueueSync(c) PROVE ChangesInv'
  <2>1. UNCHANGED <<store, worker, publishing, history, catalogue>>
    BY <1>4 DEF EnqueueSync
  <2>2. PICK r, row : r \in Runs /\ runs[r] = NoRun /\ runs' = [runs EXCEPT ![r] = row]
    BY <1>4 DEF EnqueueSync
  <2>3. ASSUME NEW w \in Workers, Reading(w) PROVE Run(w)' = Run(w)
    <3>1. worker[w].run \in Runs /\ runs[worker[w].run].status = "running"
      BY <2>3 DEF Reading, Inv, OneWorkerPerRun, HasRun
    <3> QED
      BY <1>0, <2>1, <2>2, <3>1 DEF Run, NoRun
  <2> QED
    BY <2>1, <2>3, QuietTracked
<1> QED
  BY <1>1, <1>2, <1>3, <1>4

(* Once a product is older than the overlap, a run that had not read its    *)
(* change excuses it.                                                      *)
LEMMA TickTracked ==
    ASSUME Inv, ChangesInv, Tick
    PROVE  ChangesInv'
<1> DEFINE older(p) == Min({Overlap, store[p].age + 1})
<1>1. /\ store' = [p \in Products |-> [store[p] EXCEPT !.age = older(p)]]
      /\ history' = [history EXCEPT !.excused = @ \cup
            {p \in Products : older(p) = Overlap /\ \E w \in Workers : p \in worker[w].late}]
      /\ UNCHANGED <<runs, worker, catalogue, publishing>>
  BY DEF Tick
<1>2. history \in History
  BY DEF Inv, Domains
<1>3. ASSUME NEW p \in Products
      PROVE  /\ store'[p].state = store[p].state /\ store'[p].price = store[p].price
             /\ store'[p].covered = store[p].covered
             /\ store'[p].age = older(p)
             /\ store'[p].age < Overlap => store[p].age < Overlap
             /\ store'[p].age \in 0..Overlap
  <2>1. store[p] \in Item /\ store[p].age \in Nat /\ store[p].age + 1 \in Nat
    BY DEF Inv, Domains, Item
  <2>2. older(p) \in 0..Overlap
    BY <2>1, MinOfTwo, DomainAssumption
  <2>3. older(p) = Overlap \/ older(p) = store[p].age + 1
    BY <2>1, DomainAssumption DEF Min
  <2>4. store'[p] = [store[p] EXCEPT !.age = older(p)]
    BY <1>1
  <2> HIDE DEF older
  <2>5. /\ store'[p].state = store[p].state /\ store'[p].price = store[p].price
        /\ store'[p].covered = store[p].covered /\ store'[p].age = older(p)
    BY <2>1, <2>4 DEF Item
  <2> QED
    BY <2>1, <2>2, <2>3, <2>5, DomainAssumption
<1>4. /\ history'.disturbed = history.disturbed
      /\ \A p \in Products : Excused(p) => Excused(p)'
      /\ \A p \in Products : Excused(p)' <=>
            Excused(p) \/ (older(p) = Overlap /\ \E w \in Workers : p \in worker[w].late)
  <2> HIDE DEF older
  <2> QED
    BY <1>1, <1>2 DEF History, Excused
<1>5. ASSUME NEW w \in Workers, NEW p \in Products, InTime(w, p)
      PROVE  WithinOverlap(p)' \/ Excused(p)'
  <2> HIDE DEF older
  <2>1. store'[p].age = Overlap \/ store'[p].age < Overlap
    <3>1. store'[p].age \in 0..Overlap /\ Overlap \in Nat
      BY <1>3, DomainAssumption
    <3> QED
      BY <3>1
  <2> QED
    BY <1>3, <1>4, <1>5, <2>1 DEF InTime, WithinOverlap
<1> HIDE DEF older
<1>6. ASSUME NEW p \in Products PROVE Sound(p)'
  <2>1. Sound(p) /\ (WithinOverlap(p)' => WithinOverlap(p))
    BY <1>3 DEF ChangesInv, WithinOverlap
  <2> QED
    BY <1>1, <1>3, <2>1 DEF Sound
<1>7. ASSUME Tracked PROVE Tracked'
  <2>1. Alone'
    BY <1>1, <1>7 DEF Tracked, Alone, Active
  <2>2. ASSUME NEW p \in Products PROVE Settled(p)'
    BY <1>1, <1>3, <1>4, <1>7 DEF Tracked, Settled, Live, Behind, Agrees
  <2>3. ASSUME NEW p \in Products, NEW w \in Workers PROVE Followed(w, p)'
    <3>1. Followed(w, p)
      BY <1>7 DEF Tracked
    <3>2. /\ \A q \in Products : Live(q)' = Live(q)
          /\ \A v \in Workers : Listing(v)' = Listing(v)
          /\ Run(w)' = Run(w)
      BY <1>1, <1>3 DEF Live, Listing, Run
    <3> QED
      BY <1>1, <1>3, <1>4, <1>5, <3>1, <3>2, FollowedKept
  <2> QED
    BY <2>1, <2>2, <2>3 DEF Tracked
<1> QED
  BY <1>4, <1>6, <1>7 DEF ChangesInv

(* A publish that is recorded leaves the copy agreeing with the store, or    *)
(* excuses the product.                                                    *)
LEMMA RecordTracked ==
    ASSUME Inv, ChangesInv, NEW m \in Products, RecordPublished(m)
    PROVE  ChangesInv'
<1> DEFINE same == store[m].price = publishing[m]
           edited == IF same THEN history.edited \ {m} ELSE history.edited
           excused == IF same THEN history.excused ELSE history.excused \cup {m}
           after(w) == IF Reading(w) THEN [worker[w] EXCEPT !.crossed = @ \cup {m}]
                                     ELSE worker[w]
<1>1. /\ publishing[m] # 0 /\ publishing' = [publishing EXCEPT ![m] = 0]
      /\ catalogue' = [catalogue EXCEPT ![m] = Recorded(m)]
      /\ worker' = [w \in Workers |-> after(w)]
      /\ history' = [history EXCEPT !.crossed = @ \ {m}, !.edited = edited, !.excused = excused]
      /\ UNCHANGED <<store, runs>>
  BY DEF RecordPublished
<1>2. /\ catalogue[m] \in Product /\ history \in History
      /\ catalogue \in [Products -> Product] /\ publishing \in [Products -> Amounts]
  BY DEF Inv, Domains
<1>3. /\ catalogue'[m].status = catalogue[m].status /\ catalogue'[m].run = catalogue[m].run
      /\ catalogue'[m].price = publishing[m] /\ publishing'[m] = 0
      /\ \A q \in Products : q # m => catalogue'[q] = catalogue[q]
                                      /\ publishing'[q] = publishing[q]
  BY <1>1, <1>2 DEF Recorded, Product
<1>4. ASSUME NEW w \in Workers
      PROVE  /\ worker'[w].phase = worker[w].phase /\ worker'[w].run = worker[w].run
             /\ worker'[w].todo = worker[w].todo /\ worker'[w].page = worker[w].page
             /\ worker'[w].failed = worker[w].failed
             /\ worker'[w].skip = worker[w].skip /\ worker'[w].late = worker[w].late
  <2>1. worker[w] \in Worker /\ worker'[w] = after(w)
    BY <1>1 DEF Inv, Domains
  <2> QED
    BY <2>1 DEF Worker
<1>5. /\ history'.disturbed = history.disturbed
      /\ \A p \in Products : Excused(p) => Excused(p)'
      /\ store[m].price # publishing[m] => Excused(m)'
  <2>1. history'.disturbed = history.disturbed /\ history'.excused = excused
    BY <1>1, <1>2 DEF History
  <2> QED
    BY <2>1 DEF Excused
<1> HIDE DEF same, edited, excused, after
<1>6. ASSUME NEW p \in Products PROVE Sound(p)'
  <2>1. Sound(p) /\ (p = m => store[m].state # "absent")
    BY <1>1 DEF ChangesInv, Sound
  <2> QED
    BY <1>1, <1>3, <1>4, <2>1 DEF Sound, WithinOverlap
<1>7. ASSUME Tracked PROVE Tracked'
  <2>1. Alone'
    BY <1>4, <1>7, AloneKept DEF Tracked, Active
  <2>2. Behind(m)' => Excused(m)'
    <3>1. Live(m) => catalogue[m].status = "published"
      BY <1>1, <1>7 DEF Tracked, Settled
    <3> QED
      BY <1>1, <1>3, <1>5, <3>1 DEF Behind, Agrees, Live
  <2>3. ASSUME NEW p \in Products PROVE Settled(p)'
    <3>1. Settled(p)
      BY <1>7 DEF Tracked
    <3>2. CASE p = m
      BY <1>1, <1>3, <2>2, <3>1, <3>2 DEF Settled, Live
    <3>3. CASE p # m
      BY <1>1, <1>3, <1>5, <3>1, <3>3 DEF Settled, Live, Behind, Agrees
    <3> QED
      BY <3>2, <3>3
  <2>4. ASSUME NEW p \in Products, NEW w \in Workers PROVE Followed(w, p)'
    <3>1. Followed(w, p)
      BY <1>7 DEF Tracked
    <3>2. /\ \A q \in Products : Live(q)' = Live(q)
          /\ \A v \in Workers : Listing(v)' = Listing(v)
          /\ Run(w)' = Run(w) /\ Reading(w)' = Reading(w)
          /\ \A phase : InPhase(w, phase)' = InPhase(w, phase)
          /\ WithinOverlap(p)' = WithinOverlap(p)
      BY <1>1, <1>4 DEF Live, Listing, Run, Reading, InPhase, WithinOverlap
    <3>3. CASE p # m
      <4>1. InTime(w, p) => WithinOverlap(p)'
        BY <3>2 DEF InTime
      <4> QED
        BY <1>1, <1>3, <1>4, <1>5, <3>1, <3>2, <3>3, <4>1, FollowedKept
    <3>4. CASE p = m
      <4>1. InPhase(w, "fetching") /\ Coming(w, p) => Coming(w, p)'
        BY <1>4, <3>2, ComingKept
      <4>2. SafeFromSweep(w, p)'
        BY <1>3, <1>4, <3>1, <3>2, <3>4, <4>1 DEF Followed, SafeFromSweep
      <4>3. StaleIsLate(w, p)'
        BY <1>1, <1>4, <1>5, <3>1, <3>2 DEF Followed, StaleIsLate
      <4>4. Noticed(w, p)'
        BY <2>2, <3>4 DEF Noticed
      <4> QED
        BY <4>2, <4>3, <4>4 DEF Followed
    <3> QED
      BY <3>3, <3>4
  <2> QED
    BY <2>1, <2>3, <2>4 DEF Tracked
<1> QED
  BY <1>5, <1>6, <1>7 DEF ChangesInv

-----------------------------------------------------------------------------
(* A worker without a listing has nothing to follow, and one past it only    *)
(* what was modified meanwhile.                                            *)
LEMMA NotListing ==
    ASSUME NEW w \in Workers, NEW p \in Products, worker'[w].phase \in {"idle", "claimed"}
    PROVE  Followed(w, p)'
BY DEF Followed, SafeFromSweep, StaleIsLate, Noticed, Reading, InPhase

LEMMA PastListing ==
    ASSUME NEW w \in Workers, NEW p \in Products, worker'[w].phase \in {"ending", "touching"},
           Behind(p)' /\ ~Excused(p)' => InTime(w, p)'
    PROVE  Followed(w, p)'
BY DEF Followed, SafeFromSweep, StaleIsLate, Noticed, Reading, InPhase

(* A step of one worker that changes no product that is sold.               *)
LEMMA WorkerTracked ==
    ASSUME Inv, ChangesInv, NEW w \in Workers, OnlyWorker(w), UNCHANGED <<store, publishing>>,
           \A p \in Products :
              /\ catalogue[p].status = "unknown" => catalogue'[p].status = "unknown"
              /\ store[p].state = "absent" => worker'[w].todo[p] = 0
              /\ Excused(p) => Excused(p)',
           ~history'.disturbed => ~history.disturbed,
           Tracked /\ ~history'.disturbed =>
              /\ Alone'
              /\ \A p \in Products :
                    /\ Live(p) => /\ catalogue'[p].status = catalogue[p].status
                                  /\ catalogue'[p].price = catalogue[p].price
                    /\ Followed(w, p)'
              /\ \A v \in Workers \ {w} : Reading(v) =>
                    UNCHANGED <<runs, catalogue>> /\ ~Listing(w)'
    PROVE  ChangesInv'
<1>1. ASSUME NEW p \in Products PROVE Sound(p)'
  BY DEF ChangesInv, Sound, WithinOverlap, OnlyWorker
<1>2. ASSUME Tracked, ~history'.disturbed PROVE Tracked'
  <2>1. ASSUME NEW p \in Products PROVE Settled(p)'
    BY <1>2 DEF Tracked, Settled, Live, Behind, Agrees
  <2>2. ASSUME NEW p \in Products, NEW v \in Workers, v # w PROVE Followed(v, p)'
    <3>1. Followed(v, p) /\ worker'[v] = worker[v]
      BY <1>2, <2>2 DEF Tracked, OnlyWorker
    <3>2. /\ InTime(v, p) => WithinOverlap(p)'
          /\ \A q \in Products : Live(q)' = Live(q)
      BY DEF InTime, WithinOverlap, Live
    <3>3. ASSUME Reading(v)
          PROVE  /\ catalogue' = catalogue /\ Run(v)' = Run(v)
                 /\ \A u \in Workers : Listing(u)' =>
                       Listing(u) /\ worker[u].late \subseteq worker'[u].late
      <4>1. UNCHANGED <<runs, catalogue>> /\ ~Listing(w)'
        BY <1>2, <2>2, <3>3
      <4> QED
        BY <3>1, <4>1 DEF Run, Listing, OnlyWorker
    <3>4. InPhase(v, "persisting") => Reading(v)
      BY DEF InPhase, Reading
    <3> QED
      BY <1>2, <3>1, <3>2, <3>3, <3>4, FollowedKept
  <2> QED
    BY <1>2, <2>1, <2>2 DEF Tracked
<1> QED
  BY <1>1, <1>2 DEF ChangesInv

(* A run that is claimed while another is active is recorded as disturbed.  *)
LEMMA ClaimTracked ==
    ASSUME Inv, ChangesInv, NEW w \in Workers, Claim(w)
    PROVE  ChangesInv'
<1>1. PICK r \in Runs :
         worker' = [worker EXCEPT ![w] = [Idle EXCEPT !.phase = "claimed", !.run = r]]
  BY DEF Claim
<1> DEFINE next == [Idle EXCEPT !.phase = "claimed", !.run = r]
<1>2. /\ next \in Worker /\ next.phase = "claimed"
      /\ \A p \in Products : next.todo[p] = 0
  BY IdleType DEF Idle, Worker, Phases
<1>3. OnlyWorker(w) /\ worker'[w] = next
  BY <1>1, <1>2, OneReplaced
<1> HIDE DEF next
<1>4. /\ UNCHANGED <<store, catalogue, publishing>>
      /\ history' = [history EXCEPT !.disturbed = @ \/ \E v \in Workers : Active(v)]
  BY DEF Claim, Active
<1>5. /\ \A p \in Products : Excused(p)' = Excused(p)
      /\ ~history'.disturbed => ~history.disturbed /\ \A v \in Workers : ~Active(v)
  BY <1>4 DEF Inv, Domains, History, Excused
<1>6. ASSUME ~history'.disturbed PROVE Alone' /\ \A v \in Workers \ {w} : ~Reading(v)
  BY <1>3, <1>5, <1>6 DEF Alone, Active, OnlyWorker, Reading
<1> QED
  BY <1>2, <1>3, <1>4, <1>5, <1>6, NotListing, WorkerTracked

(* Of the workers that are active one may take a step: nobody else reads.    *)
LEMMA AloneAtWork ==
    ASSUME Tracked, NEW w \in Workers, OnlyWorker(w), Active(w)
    PROVE  Alone' /\ \A v \in Workers \ {w} : ~Reading(v)
<1>1. \A v \in Workers : Active(v)' => Active(v)
  BY DEF OnlyWorker, Active
<1> QED
  BY <1>1, AloneKept DEF Tracked, Alone, Reading, Active

(* A webhook run asks for all products whose changes are not copied yet.    *)
LEMMA LoadTracked ==
    ASSUME Inv, ChangesInv, NEW w \in Workers, Load(w)
    PROVE  ChangesInv'
<1>1. /\ worker[w].phase = "claimed" /\ worker[w] \in Worker /\ Active(w)
      /\ UNCHANGED <<store, catalogue, publishing>> /\ history \in History
  BY DEF Load, InPhase, Inv, Domains, Active
<1>2. \A p \in Products : worker[w].todo[p] = 0
  BY <1>1 DEF Inv, PricesFollow, ListingFollows
<1>3. CASE Refused
  <2>1. /\ worker' = [worker EXCEPT ![w] = Idle]
        /\ history' = [history EXCEPT !.ended = TRUE]
    BY <1>3 DEF Load
  <2>2. OnlyWorker(w) /\ worker'[w] = Idle /\ Idle.phase = "idle"
        /\ \A p \in Products : Idle.todo[p] = 0
    BY <2>1, IdleType, OneReplaced DEF Idle
  <2>3. /\ history'.disturbed = history.disturbed
        /\ \A p \in Products : Excused(p)' = Excused(p)
    BY <1>1, <2>1 DEF History, Excused
  <2> QED
    BY <1>1, <2>2, <2>3, AloneAtWork, NotListing, WorkerTracked
<1>4. CASE ~Refused
  <2> DEFINE skip == IF Run(w).kind = "webhook"
                     THEN {p \in Products : ~store[p].covered} ELSE {}
             next == [worker[w] EXCEPT !.phase = "fetching", !.page = 1, !.skip = skip]
  <2>1. worker' = [worker EXCEPT ![w] = next] /\ UNCHANGED <<runs, history>>
    BY <1>4 DEF Load
  <2>2. skip \in SUBSET Products
    OBVIOUS
  <2>3. /\ Run(w).kind = "full" => skip = {}
        /\ \A p \in Products : store[p].covered => p \notin skip
    OBVIOUS
  <2> HIDE DEF skip
  <2>4. /\ next \in Worker /\ next.phase = "fetching" /\ next.run = worker[w].run
        /\ next.todo = worker[w].todo /\ next.page = 1 /\ next.skip = skip
    BY <1>1, <2>2 DEF Worker, Phases
  <2> HIDE DEF next
  <2>5. OnlyWorker(w) /\ worker'[w] = next
    BY <2>1, <2>4, OneReplaced
  <2>6. ASSUME Tracked, NEW p \in Products PROVE Followed(w, p)'
    <3>1. /\ Run(w)' = Run(w) /\ Live(p)' = Live(p) /\ Behind(p)' = Behind(p)
          /\ Excused(p)' = Excused(p) /\ Settled(p)
      BY <1>1, <2>1, <2>4, <2>5, <2>6 DEF Run, Live, Behind, Agrees, Excused, Tracked
    <3>2. ASSUME p \notin skip PROVE Coming(w, p)'
      <4> DEFINE queue == {q \in Products \ skip : Live(q)' /\ q < p}
      <4>1. IsFiniteSet(queue)
        BY DomainAssumption, FS_Subset
      <4>2. Cardinality(queue) \in Nat
        BY <4>1, FS_CardinalityType
      <4>3. Queue(w, p)' = queue
        BY <2>4, <2>5 DEF Queue
      <4>4. (worker'[w].page - 1) * PageSize = 0
        BY <2>4, <2>5, DomainAssumption
      <4> QED
        BY <2>4, <2>5, <3>2, <4>2, <4>3, <4>4 DEF Coming
    <3>3. SafeFromSweep(w, p)'
      BY <2>3, <2>4, <2>5, <3>1, <3>2 DEF SafeFromSweep, InPhase
    <3>4. StaleIsLate(w, p)'
      BY <1>2, <2>4, <2>5 DEF StaleIsLate
    <3>5. Noticed(w, p)'
      BY <2>3, <2>4, <2>5, <3>1, <3>2 DEF Noticed, InPhase, Settled
    <3> QED
      BY <3>3, <3>4, <3>5 DEF Followed
  <2> QED
    BY <1>1, <1>2, <2>1, <2>4, <2>5, <2>6, AloneAtWork, WorkerTracked DEF Excused
<1> QED
  BY <1>3, <1>4

-----------------------------------------------------------------------------
LEMMA Quotient ==
    ASSUME NEW n \in Nat, NEW size \in Nat \ {0}, NEW q, q = n \div size
    PROVE  q \in Nat /\ q * size <= n /\ n < (q + 1) * size
OBVIOUS

LEMMA Multiples ==
    ASSUME NEW a \in Nat, NEW b \in Nat, NEW size \in Nat \ {0}
    PROVE  /\ a <= b => a * size <= b * size
           /\ a * size < b * size => a < b
OBVIOUS

(* What is on no page before the next is on a later one.                    *)
LEMMA LaterPage ==
    ASSUME NEW n \in Nat, NEW page \in Nat, NEW size \in Nat \ {0},
           n >= (page - 1) * size, n \div size + 1 # page
    PROVE  n >= page * size
<1>1. PICK q : q = n \div size
  OBVIOUS
<1>2. q \in Nat /\ q * size <= n /\ n < (q + 1) * size
  BY <1>1, Quotient
<1>3. CASE page = 0
  BY <1>3
<1>4. CASE page # 0
  <2>1. PICK before \in Nat : before = page - 1
    BY <1>4
  <2>2. before * size < (q + 1) * size
    <3>1. PICK a \in Nat : a = before * size
      OBVIOUS
    <3>2. PICK b \in Nat : b = (q + 1) * size
      BY <1>2
    <3> QED
      BY <1>2, <2>1, <3>1, <3>2
  <2>3. before < q + 1
    BY <1>2, <2>2, Multiples
  <2>4. page <= q
    BY <1>1, <1>2, <2>1, <2>3
  <2>5. page * size <= q * size
    BY <1>2, <2>4, Multiples
  <2>6. PICK a \in Nat, b \in Nat : a = page * size /\ b = q * size
    BY <1>2
  <2> QED
    BY <1>2, <2>5, <2>6
<1> QED
  BY <1>3, <1>4

(* A run that lists page by page has listed, or is still to come to, all     *)
(* that matches; after the last page it has listed all of it.              *)
LEMMA ListPageTracked ==
    ASSUME Inv, ChangesInv, NEW w \in Workers, ListPage(w)
    PROVE  ChangesInv'
<1> DEFINE match == {p \in Products \ worker[w].skip : Live(p)}
           before(p) == Cardinality({q \in match : q < p})
           page == {p \in match : before(p) \div PageSize + 1 = worker[w].page}
           last == worker[w].page * PageSize >= Cardinality(match)
           todo == [p \in Products |-> IF p \in page THEN store[p].price
                                                     ELSE worker[w].todo[p]]
           crossed == worker[w].crossed \cup {p \in page : publishing[p] # 0}
           number == IF last THEN 0 ELSE worker[w].page + 1
           skip == IF last THEN {} ELSE worker[w].skip
           phase == IF last THEN "persisting" ELSE worker[w].phase
           next == [worker[w] EXCEPT !.todo = todo, !.crossed = crossed, !.page = number,
                                     !.skip = skip, !.phase = phase]
<1>1. /\ worker' = [worker EXCEPT ![w] = next] /\ worker[w].phase = "fetching"
      /\ worker[w] \in Worker /\ page \in SUBSET Products
      /\ UNCHANGED <<store, runs, catalogue, publishing, history>>
  BY DEF ListPage, InPhase, Inv, Domains
<1>2. todo \in [Products -> Amounts]
  BY <1>1 DEF Worker, Inv, Domains, Item
<1>3. /\ crossed \in SUBSET Products /\ number \in Nat /\ skip \in SUBSET Products
      /\ phase \in Phases
  BY <1>1 DEF Worker, Phases
<1>4. \A p \in Products : /\ p \in page => Live(p) /\ todo[p] = store[p].price
                          /\ p \notin page => todo[p] = worker[w].todo[p]
  OBVIOUS
<1>5. ASSUME NEW p \in Products, Live(p), Coming(w, p), p \notin page
      PROVE  /\ ~last
             /\ Cardinality(Queue(w, p)) >= worker[w].page * PageSize
  <2>1. p \in match /\ {q \in match : q < p} = Queue(w, p)
    BY <1>5 DEF Queue, Coming
  <2>2. IsFiniteSet(match) /\ IsFiniteSet(match \ {p})
    BY DomainAssumption, FS_Subset
  <2>3. Queue(w, p) \subseteq match \ {p}
    BY DomainAssumption DEF Queue
  <2>4. IsFiniteSet(Queue(w, p)) /\ Cardinality(Queue(w, p)) <= Cardinality(match \ {p})
    BY <2>2, <2>3, FS_Subset
  <2>5. Cardinality(match \ {p}) = Cardinality(match) - 1
    BY <2>1, <2>2, FS_RemoveElement
  <2>6. PICK n \in Nat : n = Cardinality(Queue(w, p))
    BY <2>4, FS_CardinalityType
  <2>7. PICK all \in Nat : all = Cardinality(match)
    BY <2>2, FS_CardinalityType
  <2>8. PICK k \in Nat : k = worker[w].page
    BY <1>1 DEF Worker
  <2>9. PICK size \in Nat \ {0} : size = PageSize
    BY DomainAssumption
  <2>10. n \div size + 1 # k
    BY <1>5, <2>1, <2>6, <2>8, <2>9
  <2>11. n >= (k - 1) * size
    BY <1>5, <2>6, <2>8, <2>9 DEF Coming
  <2>12. n >= k * size
    BY <2>10, <2>11, LaterPage
  <2>13. n <= all - 1
    BY <2>4, <2>5, <2>6, <2>7
  <2>14. PICK reached \in Nat : reached = k * size
    BY <2>8, <2>9
  <2>15. ~(reached >= all)
    BY <2>12, <2>13, <2>14
  <2> QED
    BY <2>6, <2>7, <2>8, <2>9, <2>12, <2>14, <2>15
<1>6. /\ last => phase = "persisting"
      /\ ~last => phase = "fetching" /\ number = worker[w].page + 1 /\ skip = worker[w].skip
  BY <1>1
<1> HIDE DEF todo, crossed, number, skip, phase, last, page
<1>7. /\ next \in Worker /\ next.phase = phase /\ next.run = worker[w].run
      /\ next.todo = todo /\ next.page = number /\ next.skip = skip
      /\ next.late = worker[w].late
  BY <1>1, <1>2, <1>3 DEF Worker
<1> HIDE DEF next
<1>8. OnlyWorker(w) /\ worker'[w] = next
  BY <1>1, <1>7, OneReplaced
<1>9. Reading(w) /\ Listing(w) /\ Active(w)
  BY <1>1 DEF Reading, Listing, Active
<1>10. ASSUME Tracked, NEW p \in Products PROVE Followed(w, p)'
  <2>1. /\ Run(w)' = Run(w) /\ Live(p)' = Live(p) /\ Behind(p)' = Behind(p)
        /\ Excused(p)' = Excused(p) /\ InTime(w, p)' = InTime(w, p)
        /\ WithinOverlap(p)' = WithinOverlap(p)
    BY <1>1, <1>7, <1>8 DEF Run, Live, Behind, Agrees, Excused, InTime, WithinOverlap
  <2>2. /\ SafeFromSweep(w, p) /\ StaleIsLate(w, p) /\ Noticed(w, p) /\ store[p].price # 0
    BY <1>10 DEF Tracked, Followed, ChangesInv, Sound
  <2>3. ASSUME Live(p), Coming(w, p), p \notin page
        PROVE  phase = "fetching" /\ Coming(w, p)'
    <3>1. /\ ~last /\ Cardinality(Queue(w, p)) >= worker[w].page * PageSize
          /\ p \notin worker[w].skip
      BY <1>5, <2>3 DEF Coming
    <3>2. Queue(w, p)' = Queue(w, p)
      BY <1>1, <1>6, <1>7, <1>8, <3>1 DEF Queue, Live
    <3>3. worker'[w].page - 1 = worker[w].page
      BY <1>1, <1>6, <1>7, <1>8, <3>1 DEF Worker
    <3> QED
      BY <1>6, <1>7, <1>8, <3>1, <3>2, <3>3 DEF Coming
  <2>4. worker'[w].phase = phase /\ worker'[w].todo[p] = todo[p] /\ phase \in {"fetching", "persisting"}
    BY <1>6, <1>7, <1>8
  <2>5. SafeFromSweep(w, p)'
    BY <1>1, <1>4, <1>9, <2>1, <2>2, <2>3, <2>4 DEF SafeFromSweep, InPhase
  <2>6. StaleIsLate(w, p)'
    <3>1. ASSUME NEW v \in Workers
          PROVE  Listing(v)' => Listing(v) /\ worker'[v].late = worker[v].late
      BY <1>7, <1>8, <1>9 DEF OnlyWorker, Listing
    <3> QED
      BY <1>1, <1>4, <1>9, <2>1, <2>2, <2>4, <3>1 DEF StaleIsLate
  <2>7. Noticed(w, p)'
    BY <1>1, <1>4, <1>9, <2>1, <2>2, <2>3, <2>4 DEF Noticed, InPhase, Behind
  <2> QED
    BY <2>5, <2>6, <2>7 DEF Followed
<1>11. ASSUME NEW p \in Products, store[p].state = "absent"
       PROVE  worker'[w].todo[p] = 0
  BY <1>4, <1>7, <1>8, <1>11 DEF Live, ChangesInv, Sound
<1> QED
  BY <1>1, <1>8, <1>9, <1>10, <1>11, AloneAtWork, WorkerTracked DEF Excused

-----------------------------------------------------------------------------
LEMMA EndingParts ==
    ASSUME Inv, NEW w \in Workers
    PROVE  Ending(w).late = worker[w].late /\ \A p \in Products : Ending(w).todo[p] = 0
<1>1. worker[w] \in Worker /\ Idle \in Worker
  BY IdleType DEF Inv, Domains
<1> QED
  BY <1>1 DEF Ending, Worker, Idle

(* A listing that fails excuses whatever it could have brought.             *)
LEMMA FetchFailsTracked ==
    ASSUME Inv, ChangesInv, NEW w \in Workers, FetchFails(w)
    PROVE  ChangesInv'
<1>1. /\ worker[w].phase = "fetching" /\ worker' = [worker EXCEPT ![w] = Ending(w)]
      /\ history' = [history EXCEPT !.excused = @ \cup {p \in Products : Behind(p)}]
      /\ UNCHANGED <<store, runs, catalogue, publishing>> /\ history \in History
  BY DEF FetchFails, InPhase, Inv, Domains
<1>2. OnlyWorker(w) /\ worker'[w] = Ending(w) /\ Active(w)
  BY <1>1, EndingType, OneReplaced DEF Active
<1>3. /\ history'.disturbed = history.disturbed
      /\ \A p \in Products : Excused(p)' <=> Excused(p) \/ Behind(p)
  BY <1>1 DEF History, Excused
<1>4. ASSUME NEW p \in Products PROVE Followed(w, p)'
  <2>1. Behind(p)' => Excused(p)'
    BY <1>1, <1>3 DEF Behind, Live, Agrees
  <2> QED
    BY <1>2, <2>1, EndingType, PastListing
<1> QED
  BY <1>1, <1>2, <1>3, <1>4, EndingParts, AloneAtWork, WorkerTracked

(* A sweep deletes only what is not in the store: all that is was listed    *)
(* and saved under this run.                                               *)
LEMMA SweepTracked ==
    ASSUME Inv, ChangesInv, NEW w \in Workers, Sweep(w)
    PROVE  ChangesInv'
<1> DEFINE swept(p) == /\ Sweeps(w) /\ catalogue[p].status = "published"
                       /\ catalogue[p].run # worker[w].run
<1>1. /\ worker[w].phase = "persisting" /\ worker' = [worker EXCEPT ![w] = Ending(w)]
      /\ UNCHANGED <<store, runs, publishing, history>>
      /\ \A p \in Products : worker[w].todo[p] = 0
      /\ \/ catalogue' = catalogue
         \/ catalogue' = [p \in Products |-> IF swept(p)
               THEN [catalogue[p] EXCEPT !.status = "deleted"] ELSE catalogue[p]]
  BY DEF Sweep, InPhase, Idle
<1>2. /\ OnlyWorker(w) /\ worker'[w] = Ending(w)
      /\ Active(w) /\ Reading(w) /\ InPhase(w, "persisting")
  BY <1>1, EndingType, OneReplaced DEF Active, Reading, InPhase
<1>3. ASSUME NEW p \in Products
      PROVE  /\ catalogue'[p].price = catalogue[p].price
             /\ catalogue[p].status = "unknown" => catalogue'[p].status = "unknown"
             /\ ~swept(p) => catalogue'[p].status = catalogue[p].status
  <2>1. catalogue[p] \in Product
    BY DEF Inv, Domains
  <2>2. CASE swept(p)
    <3> HIDE DEF swept
    <3>1. catalogue'[p] \in {catalogue[p], [catalogue[p] EXCEPT !.status = "deleted"]}
      BY <1>1, <2>2
    <3>2. catalogue[p].status = "published"
      BY <2>2 DEF swept
    <3> QED
      BY <2>1, <2>2, <3>1, <3>2 DEF Product
  <2>3. CASE ~swept(p)
    <3> HIDE DEF swept
    <3>1. catalogue'[p] = catalogue[p]
      BY <1>1, <2>3
    <3> QED
      BY <3>1
  <2> QED
    BY <2>2, <2>3
<1>4. ASSUME Tracked, NEW p \in Products
      PROVE  /\ Live(p) => catalogue'[p].status = catalogue[p].status
             /\ Followed(w, p)'
  <2>1. SafeFromSweep(w, p) /\ Noticed(w, p) /\ store[p].price # 0
    BY <1>4 DEF Tracked, Followed, ChangesInv, Sound
  <2>2. Live(p) => ~swept(p)
    BY <1>1, <1>2, <2>1 DEF SafeFromSweep, Sweeps
  <2>3. Live(p) => catalogue'[p].status = catalogue[p].status
    BY <1>3, <2>2
  <2>4. Behind(p)' => Behind(p)
    BY <1>1, <1>3, <2>3 DEF Behind, Live, Agrees
  <2>5. Behind(p) /\ ~Excused(p) => InTime(w, p)
    BY <1>1, <1>2, <2>1 DEF Noticed
  <2>6. InTime(w, p)' = InTime(w, p) /\ Excused(p)' = Excused(p)
    BY <1>1, <1>2, EndingParts DEF InTime, WithinOverlap, Excused
  <2> QED
    BY <1>2, <2>3, <2>4, <2>5, <2>6, EndingType, PastListing
<1> QED
  BY <1>1, <1>2, <1>3, <1>4, EndingParts, AloneAtWork, WorkerTracked DEF Excused

LEMMA FinishTracked ==
    ASSUME Inv, ChangesInv, NEW w \in Workers, FinishSync(w)
    PROVE  ChangesInv'
<1> DEFINE next == [Ending(w) EXCEPT !.phase = "touching", !.run = 0]
<1>1. /\ worker[w].phase = "ending" /\ worker' = [worker EXCEPT ![w] = next]
      /\ catalogue' = [p \in Products |-> IF catalogue[p].run = worker[w].run
                        THEN [catalogue[p] EXCEPT !.run = 0] ELSE catalogue[p]]
      /\ history' = [history EXCEPT !.ended = TRUE]
      /\ UNCHANGED <<store, publishing>> /\ history \in History
  BY DEF FinishSync, InPhase, Inv, Domains
<1>2. /\ next \in Worker /\ next.phase = "touching" /\ next.late = worker[w].late
      /\ \A p \in Products : next.todo[p] = 0
  BY EndingType, EndingParts DEF Worker, Phases
<1> HIDE DEF next
<1>3. OnlyWorker(w) /\ worker'[w] = next /\ Active(w)
  BY <1>1, <1>2, OneReplaced DEF Active
<1>4. /\ history'.disturbed = history.disturbed
      /\ \A p \in Products : Excused(p)' = Excused(p)
  BY <1>1 DEF History, Excused
<1>5. ASSUME NEW p \in Products
      PROVE  /\ catalogue'[p].status = catalogue[p].status
             /\ catalogue'[p].price = catalogue[p].price
  BY <1>1 DEF Inv, Domains, Product
<1>6. ASSUME Tracked, NEW p \in Products PROVE Followed(w, p)'
  <2>1. Behind(p) /\ ~Excused(p) => InTime(w, p)
    BY <1>1, <1>6 DEF Tracked, Followed, Noticed
  <2>2. Behind(p)' = Behind(p) /\ InTime(w, p)' = InTime(w, p) /\ Excused(p)' = Excused(p)
    BY <1>1, <1>2, <1>3, <1>4, <1>5 DEF Behind, Live, Agrees, InTime, WithinOverlap
  <2> QED
    BY <1>2, <1>3, <2>1, <2>2, PastListing
<1> QED
  BY <1>1, <1>2, <1>3, <1>4, <1>5, <1>6, AloneAtWork, WorkerTracked

LEMMA DiesTracked ==
    ASSUME Inv, ChangesInv, NEW w \in Workers, Dies(w)
    PROVE  ChangesInv'
<1>1. /\ worker' = [worker EXCEPT ![w] = Idle]
      /\ history' = [history EXCEPT !.held = @ \ {w}]
      /\ UNCHANGED <<store, runs, catalogue, publishing>> /\ history \in History
  BY DEF Dies, Inv, Domains
<1>2. OnlyWorker(w) /\ worker'[w] = Idle /\ Idle.phase = "idle"
      /\ \A p \in Products : Idle.todo[p] = 0
  BY <1>1, IdleType, OneReplaced DEF Idle
<1>3. /\ history'.disturbed = history.disturbed
      /\ \A p \in Products : Excused(p)' = Excused(p)
  BY <1>1 DEF History, Excused
<1>4. Tracked => Alone'
  <2>1. \A v \in Workers : Active(v)' => Active(v)
    BY <1>2 DEF OnlyWorker, Active
  <2> QED
    BY <2>1, AloneKept DEF Tracked
<1>5. ~Listing(w)'
  BY <1>2 DEF Listing
<1> QED
  BY <1>1, <1>2, <1>3, <1>4, <1>5, NotListing, WorkerTracked

(* What a run did not read in time was modified within the overlap of its   *)
(* last_sync_at.                                                           *)
LEMMA TouchTracked ==
    ASSUME Inv, ChangesInv, NEW w \in Workers, Touch(w)
    PROVE  ChangesInv'
<1>1. /\ worker[w].phase = "touching" /\ worker' = [worker EXCEPT ![w] = Idle]
      /\ store' = [p \in Products |-> [store[p] EXCEPT !.covered = WithinOverlap(p)]]
      /\ history' = [history EXCEPT !.held = @ \ {w}]
      /\ UNCHANGED <<runs, catalogue, publishing>> /\ history \in History
  BY DEF Touch, InPhase, Inv, Domains
<1>2. OnlyWorker(w) /\ worker'[w] = Idle /\ Idle.phase = "idle"
      /\ \A p \in Products : Idle.todo[p] = 0
  BY <1>1, IdleType, OneReplaced DEF Idle
<1>3. /\ history'.disturbed = history.disturbed
      /\ \A p \in Products : Excused(p)' = Excused(p)
  BY <1>1 DEF History, Excused
<1>4. ASSUME NEW p \in Products
      PROVE  /\ store'[p].state = store[p].state /\ store'[p].price = store[p].price
             /\ store'[p].age = store[p].age /\ store'[p].covered = WithinOverlap(p)
  <2>1. store[p] \in Item /\ store'[p] = [store[p] EXCEPT !.covered = WithinOverlap(p)]
    BY <1>1 DEF Inv, Domains
  <2> HIDE DEF WithinOverlap
  <2> QED
    BY <2>1 DEF Item
<1>5. ASSUME NEW p \in Products
      PROVE  Live(p)' = Live(p) /\ Behind(p)' = Behind(p) /\ WithinOverlap(p)' = WithinOverlap(p)
  BY <1>1, <1>4 DEF Live, Behind, Agrees, WithinOverlap
<1>6. ASSUME NEW p \in Products PROVE Sound(p)'
  BY <1>1, <1>2, <1>4, <1>5 DEF ChangesInv, Sound, OnlyWorker
<1>7. ASSUME Tracked PROVE Tracked'
  <2>1. Alone'
    <3>1. \A v \in Workers : Active(v)' => Active(v)
      BY <1>2 DEF OnlyWorker, Active
    <3> QED
      BY <1>7, <3>1, AloneKept DEF Tracked
  <2>2. ASSUME NEW p \in Products PROVE Settled(p)'
    <3>1. Settled(p) /\ Noticed(w, p)
      BY <1>7 DEF Tracked, Followed
    <3>2. Behind(p) /\ ~Excused(p) => WithinOverlap(p)
      BY <1>1, <3>1 DEF Noticed, InTime
    <3> QED
      BY <1>1, <1>3, <1>4, <1>5, <3>1, <3>2 DEF Settled
  <2>3. ASSUME NEW p \in Products, NEW v \in Workers, v # w PROVE Followed(v, p)'
    <3>1. Followed(v, p) /\ worker'[v] = worker[v]
      BY <1>2, <1>7, <2>3 DEF Tracked, OnlyWorker
    <3>2. InTime(v, p) => WithinOverlap(p)'
      BY <1>5 DEF InTime
    <3>3. \A u \in Workers : Listing(u)' => worker'[u] = worker[u] /\ Listing(u)
      BY <1>2 DEF OnlyWorker, Listing
    <3>4. Run(v)' = Run(v)
      BY <1>1, <3>1 DEF Run
    <3> QED
      BY <1>1, <1>3, <1>4, <1>5, <3>1, <3>2, <3>3, <3>4, FollowedKept
  <2>4. ASSUME NEW p \in Products PROVE Followed(w, p)'
    BY <1>2, NotListing
  <2> QED
    BY <2>1, <2>2, <2>3, <2>4 DEF Tracked
<1> QED
  BY <1>3, <1>6, <1>7 DEF ChangesInv

-----------------------------------------------------------------------------
(* What a worker does with one item leaves its other items as they were.    *)
ItemDone(w, m) ==
    /\ worker[w].phase = "persisting" /\ worker[w].todo[m] # 0
    /\ worker'[w].phase = "persisting" /\ worker'[w].run = worker[w].run
    /\ worker'[w].late = worker[w].late
    /\ worker[w].failed => worker'[w].failed
    /\ worker'[w].todo[m] = 0
    /\ \A q \in Products : q # m => worker'[w].todo[q] = worker[w].todo[q]

LEMMA RestFollowed ==
    ASSUME NEW w \in Workers, NEW m \in Products, NEW q \in Products, q # m, Followed(w, q),
           OnlyWorker(w), ItemDone(w, m), UNCHANGED <<store, runs>>,
           catalogue'[q] = catalogue[q], Excused(q)' = Excused(q)
    PROVE  Followed(w, q)'
<1>1. /\ Live(q)' = Live(q) /\ Behind(q)' = Behind(q) /\ Run(w)' = Run(w)
      /\ InTime(w, q)' = InTime(w, q) /\ WithinOverlap(q)' = WithinOverlap(q)
      /\ InPhase(w, "persisting") /\ ~InPhase(w, "fetching")' /\ Reading(w)
      /\ worker'[w].todo[q] = worker[w].todo[q]
  BY DEF ItemDone, Live, Behind, Agrees, Run, InTime, WithinOverlap, InPhase, Reading
<1>2. SafeFromSweep(w, q)'
  BY <1>1 DEF ItemDone, Followed, SafeFromSweep
<1>3. StaleIsLate(w, q)'
  <2>1. \A v \in Workers : Listing(v)' => Listing(v) /\ worker'[v].late = worker[v].late
    BY DEF ItemDone, OnlyWorker, Listing
  <2> QED
    BY <1>1, <2>1 DEF Followed, StaleIsLate
<1>4. Noticed(w, q)'
  BY <1>1 DEF ItemDone, Followed, Noticed
<1> QED
  BY <1>2, <1>3, <1>4 DEF Followed

LEMMA ItemOfOne ==
    ASSUME Inv, NEW w \in Workers, NEW m \in Products,
           InPhase(w, "persisting"), worker[w].todo[m] # 0,
           NEW failed \in BOOLEAN, worker[w].failed => failed,
           worker' = [worker EXCEPT ![w].todo[m] = 0, ![w].failed = failed]
    PROVE  OnlyWorker(w) /\ ItemDone(w, m) /\ worker'[w].failed = failed
<1> DEFINE next == [worker[w] EXCEPT !.todo[m] = 0, !.failed = failed]
<1>1. worker[w] \in Worker
  BY DEF Inv, Domains
<1>2. /\ next \in Worker /\ next.phase = worker[w].phase /\ next.run = worker[w].run
      /\ next.late = worker[w].late /\ next.failed = failed /\ next.todo[m] = 0
      /\ \A q \in Products : q # m => next.todo[q] = worker[w].todo[q]
  BY <1>1 DEF Worker, Amounts
<1>3. worker' = [worker EXCEPT ![w] = next]
  BY <1>1 DEF Inv, Domains
<1> HIDE DEF next
<1>4. OnlyWorker(w) /\ worker'[w] = next
  BY <1>2, <1>3, OneReplaced
<1> QED
  BY <1>2, <1>4 DEF ItemDone, InPhase

(* An item that is saved agrees with the store, or every run that is        *)
(* listing knows it was modified meanwhile.                                *)
LEMMA SaveTracked ==
    ASSUME Inv, ChangesInv, NEW w \in Workers, NEW m \in Products,
           OnlyWorker(w), ItemDone(w, m), Save(w, m), UNCHANGED <<store, runs, publishing>>
    PROVE  ChangesInv'
<1>1. PICK price \in Amounts, conflict \in BOOLEAN,
             crossed \in {history'.crossed}, excused \in {history'.excused} :
         /\ price = worker[w].todo[m] /\ price # 0
         /\ catalogue' = [catalogue EXCEPT ![m] =
              [status |-> "published", price |-> price, platform |-> @.platform,
               run |-> worker[w].run, conflict |-> conflict]]
         /\ excused = IF price = store[m].price THEN history.excused \ {m} ELSE history.excused
         /\ history' = [history EXCEPT !.crossed = crossed, !.excused = excused]
  <2>1. worker[w].todo[m] \in Amounts /\ Conflicts(m, worker[w].todo[m]) \in BOOLEAN
    BY DEF Inv, Domains, Worker, Conflicts
  <2>2. PICK crossed, excused : history' = [history EXCEPT !.crossed = crossed, !.excused = excused]
          /\ excused = IF worker[w].todo[m] = store[m].price THEN history.excused \ {m}
                       ELSE history.excused
    BY DEF Save
  <2>3. crossed = history'.crossed /\ excused = history'.excused
    BY <2>2 DEF Inv, Domains, History
  <2> QED
    BY <2>1, <2>2, <2>3 DEF Save, ItemDone
<1>2. history \in History /\ catalogue \in [Products -> Product]
  BY DEF Inv, Domains
<1>3. /\ catalogue'[m].status = "published" /\ catalogue'[m].price = price
      /\ catalogue'[m].run = worker[w].run
      /\ \A q \in Products : q # m => catalogue'[q] = catalogue[q]
  BY <1>1, <1>2
<1>4. /\ history'.disturbed = history.disturbed
      /\ \A q \in Products : q # m => Excused(q)' = Excused(q)
      /\ price # store[m].price => Excused(m)' = Excused(m)
  BY <1>1, <1>2 DEF History, Excused
<1>5. ASSUME NEW p \in Products PROVE Sound(p)'
  <2>1. Sound(p) /\ (p = m => store[p].state # "absent")
    BY DEF ChangesInv, Sound, ItemDone
  <2>2. \A v \in Workers : worker[v].todo[p] = 0 => worker'[v].todo[p] = 0
    BY DEF OnlyWorker, ItemDone
  <2> QED
    BY <1>3, <2>1, <2>2 DEF Sound, WithinOverlap
<1>6. ASSUME Tracked PROVE Tracked'
  <2>1. Alone' /\ \A v \in Workers \ {w} : ~Reading(v)
    <3>1. Active(w)
      BY DEF ItemDone, Active
    <3> QED
      BY <1>6, <3>1, AloneAtWork
  <2>2. /\ Live(m)' = Live(m) /\ WithinOverlap(m)' = WithinOverlap(m)
        /\ Behind(m)' => Live(m) /\ price # store[m].price
    BY <1>3 DEF Behind, Agrees, Live, WithinOverlap
  <2>3. ASSUME Behind(m)'
        PROVE  /\ \A v \in Workers : Listing(v)' => m \in worker'[v].late
               /\ WithinOverlap(m) \/ Excused(m)'
    <3>1. StaleIsLate(w, m) /\ Reading(w)
      BY <1>6 DEF Tracked, Followed, ItemDone, Reading
    <3>2. /\ \A v \in Workers : Listing(v) => m \in worker[v].late
          /\ WithinOverlap(m) \/ Excused(m)
      BY <1>1, <2>2, <2>3, <3>1 DEF StaleIsLate
    <3>3. \A v \in Workers : Listing(v)' => Listing(v) /\ worker'[v].late = worker[v].late
      BY DEF OnlyWorker, ItemDone, Listing
    <3> QED
      BY <1>4, <2>2, <2>3, <3>2, <3>3
  <2>4. ASSUME NEW p \in Products PROVE Settled(p)'
    <3>1. Settled(p) /\ Sound(p)
      BY <1>6 DEF Tracked, ChangesInv
    <3>2. CASE p = m
      BY <1>3, <2>2, <2>3, <3>1, <3>2 DEF Settled, Sound
    <3>3. CASE p # m
      BY <1>3, <1>4, <3>1, <3>3 DEF Settled, Live, Behind, Agrees
    <3> QED
      BY <3>2, <3>3
  <2>5. ASSUME NEW v \in Workers PROVE Followed(v, m)'
    <3>1. Noticed(v, m)'
      <4>1. ASSUME Behind(m)', ~Excused(m)', Listing(v)' PROVE InTime(v, m)'
        BY <2>2, <2>3, <4>1 DEF InTime
      <4>2. ~InPhase(v, "fetching")'
        BY <2>1 DEF OnlyWorker, ItemDone, Reading, InPhase
      <4> QED
        BY <4>1, <4>2 DEF Noticed, InPhase, Listing
    <3>2. CASE v = w
      <4>1. SafeFromSweep(w, m)'
        BY <1>3 DEF SafeFromSweep, InPhase, ItemDone
      <4>2. StaleIsLate(w, m)'
        BY DEF StaleIsLate, ItemDone
      <4> QED
        BY <3>1, <3>2, <4>1, <4>2 DEF Followed
    <3>3. CASE v # w
      <4>1. ~Reading(v)'
        BY <2>1, <3>3 DEF OnlyWorker, Reading
      <4> QED
        BY <3>1, <4>1 DEF Followed, SafeFromSweep, StaleIsLate
    <3> QED
      BY <3>2, <3>3
  <2>6. ASSUME NEW q \in Products, q # m, NEW v \in Workers PROVE Followed(v, q)'
    <3>1. /\ Followed(v, q) /\ catalogue'[q] = catalogue[q] /\ Excused(q)' = Excused(q)
      BY <1>3, <1>4, <1>6, <2>6 DEF Tracked
    <3>2. CASE v = w
      BY <2>6, <3>1, <3>2, RestFollowed
    <3>3. CASE v # w
      <4>1. worker'[v] = worker[v] /\ ~Reading(v)
        BY <2>1, <3>3 DEF OnlyWorker
      <4>2. ~InPhase(v, "persisting")
        BY <4>1 DEF Reading, InPhase
      <4>3. InTime(v, q) => WithinOverlap(q)'
        BY DEF InTime, WithinOverlap
      <4>4. \A p \in Products : Live(p) => Live(p)'
        BY DEF Live
      <4> QED
        BY <3>1, <4>1, <4>2, <4>3, <4>4, FollowedKept
    <3> QED
      BY <3>2, <3>3
  <2> QED
    BY <2>1, <2>4, <2>5, <2>6 DEF Tracked
<1> QED
  BY <1>4, <1>5, <1>6 DEF ChangesInv

LEMMA PersistTracked ==
    ASSUME Inv, ChangesInv, NEW w \in Workers, NEW m \in Products,
           Persist(w, m) \/ PersistFails(w, m)
    PROVE  ChangesInv'
<1>1. /\ InPhase(w, "persisting") /\ worker[w].todo[m] # 0
      /\ UNCHANGED <<store, runs, publishing>>
      /\ worker \in [Workers -> Worker] /\ history \in History
  BY DEF Persist, PersistFails, Inv, Domains
<1>2. CASE Persist(w, m)
  <2>1. PICK failed \in BOOLEAN : failed = worker[w].failed
    BY <1>1 DEF Worker
  <2>2. worker' = [worker EXCEPT ![w].todo[m] = 0, ![w].failed = failed]
    <3>1. worker' = [worker EXCEPT ![w].todo[m] = 0]
      BY <1>2 DEF Persist
    <3> QED
      BY <1>1, <2>1, <3>1 DEF Worker
  <2>3. OnlyWorker(w) /\ ItemDone(w, m)
    BY <1>1, <2>1, <2>2, ItemOfOne
  <2> QED
    BY <1>1, <1>2, <2>3, SaveTracked DEF Persist
<1>3. CASE PersistFails(w, m)
  <2>1. OnlyWorker(w) /\ ItemDone(w, m) /\ worker'[w].failed
    BY <1>1, <1>3, ItemOfOne DEF PersistFails
  <2>2. CASE Save(w, m)
    BY <1>1, <2>1, <2>2, SaveTracked
  <2>3. CASE history' = [history EXCEPT !.excused = @ \cup {m}] /\ UNCHANGED catalogue
    <3>1. /\ history'.disturbed = history.disturbed /\ Excused(m)'
          /\ \A p \in Products : p # m => Excused(p)' = Excused(p)
      BY <1>1, <2>3 DEF History, Excused
    <3>2. Active(w)
      BY <2>1 DEF ItemDone, Active
    <3>3. ASSUME Tracked, NEW p \in Products PROVE Followed(w, p)'
      <4>1. CASE p = m
        BY <2>1, <3>1, <4>1 DEF Followed, SafeFromSweep, StaleIsLate, Noticed, ItemDone, InPhase
      <4>2. CASE p # m
        BY <1>1, <2>1, <2>3, <3>1, <3>3, <4>2, RestFollowed DEF Tracked
      <4> QED
        BY <4>1, <4>2
    <3>4. ASSUME NEW p \in Products, store[p].state = "absent"
          PROVE  worker'[w].todo[p] = 0
      BY <2>1, <3>4 DEF ChangesInv, Sound, ItemDone
    <3>5. \A p \in Products : Excused(p) => Excused(p)'
      BY <3>1
    <3> QED
      BY <1>1, <2>1, <2>3, <3>1, <3>2, <3>3, <3>4, <3>5, AloneAtWork, WorkerTracked
  <2> QED
    BY <1>3, <2>2, <2>3 DEF PersistFails
<1> QED
  BY <1>2, <1>3

-----------------------------------------------------------------------------
LEMMA InitTracked == Init => ChangesInv
<1> SUFFICES ASSUME Init PROVE ChangesInv
  OBVIOUS
<1>1. (CHOOSE any \in Prices : TRUE) \in Prices
  BY DomainAssumption
<1>2. ASSUME NEW w \in Workers
      PROVE  worker[w].phase = "idle" /\ \A p \in Products : worker[w].todo[p] = 0
  BY DEF Init, Idle
<1>3. ASSUME NEW p \in Products
      PROVE  /\ store[p].price \in Prices /\ store[p].age = Overlap /\ store[p].covered
             /\ catalogue[p].status = "unknown" /\ publishing[p] = 0
  BY <1>1 DEF Init
<1>4. \A p \in Products : Sound(p) /\ Settled(p)
  BY <1>2, <1>3, DomainAssumption DEF Sound, Settled, WithinOverlap
<1>5. Alone /\ \A p \in Products, w \in Workers : Followed(w, p)
  BY <1>2 DEF Alone, Active, Followed, SafeFromSweep, StaleIsLate, Noticed, Reading, InPhase
<1> QED
  BY <1>4, <1>5 DEF ChangesInv, Tracked

LEMMA StepTracked == Inv /\ Inv' /\ ChangesInv /\ [Next]_vars => ChangesInv'
<1> SUFFICES ASSUME Inv, Inv', ChangesInv, [Next]_vars PROVE ChangesInv'
  OBVIOUS
<1>1. ASSUME NEW p \in Products,
             \/ Create(p) \/ Remove(p) \/ RecordPublished(p) \/ ReceiveWebhook(p)
             \/ \E price \in Prices : Edit(p, price) \/ PublishPrice(p, price)
      PROVE  ChangesInv'
  BY <1>1, ChangeTracked, RecordTracked, OutsideTracked
<1>2. ASSUME NEW c \in Callers, EnqueueSync(c) PROVE ChangesInv'
  BY <1>2, OutsideTracked
<1>3. ASSUME NEW w \in Workers, ProcessNext(w) \/ FetchFails(w) \/ Dies(w)
      PROVE  ChangesInv'
  BY <1>3, ClaimTracked, LoadTracked, ListPageTracked, SweepTracked, FinishTracked,
     TouchTracked, PersistTracked, FetchFailsTracked, DiesTracked DEF ProcessNext
<1>4. ASSUME NEW w \in Workers, NEW p \in Products, PersistFails(w, p) PROVE ChangesInv'
  BY <1>4, PersistTracked
<1>5. CASE Tick
  BY <1>5, TickTracked
<1>6. CASE \/ ReconcileDue \/ RetrySync \/ Connect \/ Disconnect \/ TestConnection
           \/ UNCHANGED vars
  BY <1>6, OutsideTracked
<1> QED
  BY <1>1, <1>2, <1>3, <1>4, <1>5, <1>6 DEF Next

(* As long as runs do not overlap, what the copy lacks is noticed by the run *)
(* under way and asked for by the next one (sync.go, runSync).              *)
THEOREM ChangesTracked == Spec => []ChangesInv
BY InvHolds, InitTracked, StepTracked, PTL DEF Spec

(* However many products and pages there are: a change that the copy lacks  *)
(* is asked for by the next webhook run, unless it was excused, or two runs *)
(* overlapped or a removal moved the pages under one that was listing.      *)
THEOREM NoChangeIsMissed == Spec => []NextRunListsChanges
<1>1. ChangesInv => NextRunListsChanges
  BY DEF ChangesInv, Tracked, Settled, Excused, NextRunListsChanges
<1> QED
  BY <1>1, ChangesTracked, PTL

(* And a product that is still sold is not deleted from the copy by a run's *)
(* sweep, nor by a webhook (sync.go, runSync; webhook_service.go).          *)
THEOREM NothingSoldIsDeleted == Spec => []LiveProductsStay
<1>1. ChangesInv => LiveProductsStay
  BY DEF ChangesInv, Tracked, Settled, LiveProductsStay
<1> QED
  BY <1>1, ChangesTracked, PTL
=============================================================================
