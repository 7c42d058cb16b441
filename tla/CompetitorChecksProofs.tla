----------------------- MODULE CompetitorChecksProofs -----------------------
(***************************************************************************)
(* Proofs about CompetitorChecks, for any pages, contents and workers.  Inv *)
(* gives the types, the reviews and the stale pages; CrossInv, on top of   *)
(* it, that runs of one page overlap only when two callers counted none.   *)
(***************************************************************************)
EXTENDS CompetitorChecks, TLAPS

Reviews == {"none", "needs_review", "rejected", "confirmed", "product"}
Page == [match : Matches, product : BOOLEAN, failures : 0..Breaks, due : BOOLEAN,
         observed : {"never", "fresh", "old"}, shown : Amounts, newest : Amounts]
Worker == [phase : {"idle", "claimed", "loaded", "observed"}, page : Pages \cup {NoPage},
           match : Matches, product : BOOLEAN, price : Amounts, before : SUBSET Workers,
           behind : BOOLEAN, old : BOOLEAN]
History == [review : [Pages -> Reviews], overtaken : SUBSET Pages, raced : SUBSET Pages,
            late : SUBSET (Callers \X Pages), crossed : SUBSET Pages]

(* The variables' domains, without what TypeOK adds about broken pages.     *)
Domains ==
    /\ page \in [Pages -> Page]
    /\ source \in [Pages -> Contents]
    /\ queue \in Seq(Pages)
    /\ counted \subseteq Callers \X Pages
    /\ scanned \subseteq Pages
    /\ worker \in [Workers -> Worker]
    /\ lost \subseteq Pages
    /\ history \in History
    /\ spent \in [Hazards -> Nat]

BrokenAfterFailures == \A p \in Pages : page[p].match = "broken" => page[p].failures = Breaks

LEMMA TypeParts == TypeOK <=> Domains /\ BrokenAfterFailures
BY DEF TypeOK, Domains, BrokenAfterFailures, Page, Worker, History, Reviews

(* A worker that is not idle works on a page.                               *)
AtWork == \A w \in Workers : worker[w].phase # "idle" => worker[w].page \in Pages

LEMMA MinOfTwo ==
    ASSUME NEW a \in Nat, NEW b \in Nat
    PROVE  Min({a, b}) = IF a <= b THEN a ELSE b
<1> DEFINE m == IF a <= b THEN a ELSE b
<1>1. m \in {a, b} /\ \A y \in {a, b} : m <= y
  OBVIOUS
<1>2. \A x \in {a, b} : (\A y \in {a, b} : x <= y) => x = m
  OBVIOUS
<1> QED
  BY <1>1, <1>2 DEF Min

LEMMA IdleType == Idle \in Worker
BY PagesAssumption DEF Idle, Worker, Matches, Amounts

LEMMA SpendType ==
    ASSUME spent \in [Hazards -> Nat], NEW h \in Hazards, Spend(h)
    PROVE  spent' \in [Hazards -> Nat]
BY DEF Spend

(* What a worker leaves behind is in the other workers' domains.            *)
LEMMA LeavesType ==
    ASSUME worker \in [Workers -> Worker], NEW w \in Workers, NEW written \in BOOLEAN,
           Leaves(w, written)
    PROVE  /\ worker' \in [Workers -> Worker]
           /\ worker'[w] = Idle
           /\ \A v \in Workers \ {w} :
                 /\ worker'[v].phase = worker[v].phase /\ worker'[v].page = worker[v].page
                 /\ worker'[v].match = worker[v].match /\ worker'[v].product = worker[v].product
                 /\ worker'[v].old = worker[v].old
<1> DEFINE after(v) == [worker[v] EXCEPT !.before = @ \ {w},
                                         !.behind = @ \/ (written /\ v \in worker[w].before)]
<1>1. worker' = [v \in Workers |-> IF v = w THEN Idle ELSE after(v)]
  BY DEF Leaves
<1>2. ASSUME NEW v \in Workers
      PROVE  /\ after(v) \in Worker
             /\ after(v).phase = worker[v].phase /\ after(v).page = worker[v].page
             /\ after(v).match = worker[v].match /\ after(v).product = worker[v].product
             /\ after(v).old = worker[v].old
  <2>1. worker[v] \in Worker
    OBVIOUS
  <2>2. (worker[v].behind \/ (written /\ v \in worker[w].before)) \in BOOLEAN
    OBVIOUS
  <2>3. worker[v].before \ {w} \in SUBSET Workers
    BY <2>1 DEF Worker
  <2> QED
    BY <2>1, <2>2, <2>3 DEF Worker
<1> QED
  BY <1>1, <1>2, IdleType

-----------------------------------------------------------------------------
(* A check that fails: only the page's failures, due time and match change. *)
FailedPage(p) ==
    LET failures == Min({Breaks, page[p].failures + 1}) IN
    [page[p] EXCEPT !.failures = failures, !.due = FALSE,
                    !.match = IF Breaking(failures) /\ @ # "rejected" THEN "broken" ELSE @]

LEMMA FailRunEffect ==
    ASSUME Domains, BrokenAfterFailures, NEW w \in Workers, worker[w].page \in Pages, FailRun(w)
    PROVE  LET p == worker[w].page IN
           /\ page' = [page EXCEPT ![p] = FailedPage(p)]
           /\ FailedPage(p) \in Page
           /\ FailedPage(p).product = page[p].product
           /\ FailedPage(p).observed = page[p].observed
           /\ \/ FailedPage(p).match = page[p].match
              \/ FailedPage(p).match = "broken" /\ page[p].match # "rejected"
           /\ page[p].failures = Breaks => FailedPage(p).failures = Breaks
           /\ FailedPage(p).match = "broken" => FailedPage(p).failures = Breaks
           /\ Leaves(w, FALSE)
<1> DEFINE p == worker[w].page
           n == Min({Breaks, page[p].failures + 1})
           m == IF Breaking(n) /\ page[p].match # "rejected" THEN "broken" ELSE page[p].match
<1>1. page[p] \in Page /\ page[p].failures \in 0..Breaks /\ Breaks \in Nat
  BY PagesAssumption DEF Domains, Page
<1>2. n = IF Breaks <= page[p].failures + 1 THEN Breaks ELSE page[p].failures + 1
  BY <1>1, MinOfTwo
<1>3. n \in 0..Breaks /\ (page[p].failures = Breaks => n = Breaks) /\ (Breaking(n) <=> n = Breaks)
  BY <1>1, <1>2 DEF Breaking
<1>4. FailedPage(p) = [page[p] EXCEPT !.failures = n, !.due = FALSE, !.match = m]
  BY <1>1 DEF FailedPage, Page
<1>5. m \in Matches
  BY <1>1 DEF Page, Matches
<1>6. /\ FailedPage(p) \in Page /\ FailedPage(p).failures = n /\ FailedPage(p).match = m
      /\ FailedPage(p).product = page[p].product /\ FailedPage(p).observed = page[p].observed
  BY <1>1, <1>3, <1>4, <1>5 DEF Page
<1>7. page' = [page EXCEPT ![p] = FailedPage(p)] /\ Leaves(w, FALSE)
  <2>1. page' = [page EXCEPT ![p].failures = n, ![p].due = FALSE, ![p].match = m]
    BY <1>1 DEF FailRun, At, Domains, Page
  <2> QED
    BY <1>4, <2>1 DEF FailRun, Domains
<1>8. m = "broken" => n = Breaks
  BY <1>1, <1>3 DEF BrokenAfterFailures
<1> QED
  BY <1>3, <1>6, <1>7, <1>8

-----------------------------------------------------------------------------
(* The inductive invariant.  Where no check has overtaken a review, a page, *)
(* and what a check has loaded of it, are as the review left them.          *)
AsReviewed(p) ==
    p \in history.overtaken \/
    /\ page[p].match = "rejected" <=> history.review[p] = "rejected"
    /\ page[p].match = "confirmed" => history.review[p] \in {"confirmed", "product"}
    /\ page[p].product <=> history.review[p] = "product"
    /\ page[p].product => \/ page[p].match \in {"confirmed", "broken"}
                          \/ page[p].match = "stale" /\ page[p].failures = Breaks

Loaded(w) == worker[w].phase \in {"loaded", "observed"} /\ ~worker[w].old

LoadedAsReviewed(w) ==
    Loaded(w) => \/ worker[w].page \in history.overtaken
                 \/ LET p == worker[w].page IN
                    /\ worker[w].match = "rejected" <=> history.review[p] = "rejected"
                    /\ worker[w].match = "confirmed" => history.review[p] \in {"confirmed", "product"}
                    /\ worker[w].product <=> history.review[p] = "product"

(* What the stale scan has selected or marked, no check has observed since. *)
Unobserved(p) ==
    p \in history.raced \/
    (page[p].match = "stale" \/ p \in scanned => page[p].observed # "fresh")

Inv ==
    /\ Domains /\ BrokenAfterFailures /\ AtWork
    /\ \A p \in Pages : AsReviewed(p) /\ Unobserved(p)
    /\ \A w \in Workers : LoadedAsReviewed(w)

(* The parts about people's reviews, where a step leaves pages, reviews and *)
(* what workers have loaded alone.                                         *)
LEMMA ReviewsKept ==
    ASSUME Inv, Domains',
           \A p \in Pages : /\ page'[p].match = page[p].match
                            /\ page'[p].product = page[p].product
                            /\ page'[p].failures = page[p].failures
           , history'.review = history.review, history'.overtaken = history.overtaken,
           worker' = worker
    PROVE  /\ BrokenAfterFailures' /\ AtWork'
           /\ \A p \in Pages : AsReviewed(p)'
           /\ \A w \in Workers : LoadedAsReviewed(w)'
<1>1. BrokenAfterFailures' /\ AtWork'
  BY DEF Inv, BrokenAfterFailures, AtWork
<1>2. \A p \in Pages : AsReviewed(p)'
  BY DEF Inv, AsReviewed
<1>3. \A w \in Workers : LoadedAsReviewed(w)'
  BY DEF Inv, LoadedAsReviewed, Loaded
<1> QED
  BY <1>1, <1>2, <1>3

(* Steps that touch neither the pages nor the workers.                      *)
LEMMA QuietSteps ==
    ASSUME Inv,
           \/ \E p \in Pages : \/ AskForCheck(p) \/ EnqueueDue(p) \/ SelectStale(p)
                               \/ \E content \in Contents : SourceChanges(p, content)
                               \/ \E c \in Callers : QueueCheck(c, p)
           \/ UNCHANGED vars
    PROVE  Inv'
<1> USE DEF Domains
<1>1. ASSUME NEW p \in Pages, AskForCheck(p) \/ EnqueueDue(p) PROVE Inv'
  <2>1. \E c \in Callers : counted' = counted \cup {<<c, p>>}
    BY <1>1 DEF AskForCheck, EnqueueDue, CountRuns, Callers
  <2>2. /\ UNCHANGED <<page, source, queue, scanned, worker, lost, history>>
        /\ spent' \in [Hazards -> Nat]
    BY <1>1, SpendType DEF AskForCheck, EnqueueDue, CountRuns, Inv, Hazards
  <2>3. Domains'
    BY <2>1, <2>2 DEF Inv
  <2> QED
    BY <2>2, <2>3, ReviewsKept DEF Inv, Unobserved
<1>2. ASSUME NEW p \in Pages, SelectStale(p) PROVE Inv'
  <2>1. /\ UNCHANGED <<page, source, queue, counted, worker, lost, history, spent>>
        /\ scanned' = scanned \cup {p} /\ page[p].observed # "fresh"
    BY <1>2 DEF SelectStale, Old
  <2>2. Domains'
    BY <2>1 DEF Inv
  <2>3. \A q \in Pages : Unobserved(q)'
    BY <2>1 DEF Inv, Unobserved
  <2> QED
    BY <2>1, <2>2, <2>3, ReviewsKept DEF Inv
<1>3. ASSUME NEW p \in Pages, NEW content \in Contents, SourceChanges(p, content) PROVE Inv'
  <2>1. UNCHANGED <<page, queue, counted, scanned, worker, lost, history>>
        /\ source' \in [Pages -> Contents] /\ spent' \in [Hazards -> Nat]
    BY <1>3, SpendType DEF SourceChanges, Inv, Hazards
  <2>2. Domains'
    BY <2>1 DEF Inv
  <2> QED
    BY <2>1, <2>2, ReviewsKept DEF Inv, Unobserved
<1>4. ASSUME NEW p \in Pages, NEW c \in Callers, QueueCheck(c, p) PROVE Inv'
  <2> DEFINE late == (history.late \cup {x \in counted : x[2] = p}) \ {<<c, p>>}
             crossed == IF <<c, p>> \in history.late THEN history.crossed \cup {p} ELSE history.crossed
  <2>1. /\ UNCHANGED <<page, source, scanned, worker, lost, spent>>
        /\ counted' = counted \ {<<c, p>>} /\ queue' = Append(queue, p)
        /\ history' = [history EXCEPT !.late = late, !.crossed = crossed]
    BY <1>4 DEF QueueCheck, Inv, History
  <2>2. history \in History
    BY DEF Inv
  <2>3. late \in SUBSET (Callers \X Pages) /\ crossed \in SUBSET Pages
    BY <2>2 DEF Inv, History
  <2>4. /\ history' \in History /\ history'.review = history.review
        /\ history'.overtaken = history.overtaken /\ history'.raced = history.raced
    BY <2>1, <2>2, <2>3 DEF History
  <2>5. Domains'
    BY <2>1, <2>4 DEF Inv
  <2> QED
    BY <2>1, <2>4, <2>5, ReviewsKept DEF Inv, Unobserved
<1>5. CASE UNCHANGED vars
  <2>1. Domains'
    BY <1>5 DEF vars, Inv
  <2> QED
    BY <1>5, <2>1, ReviewsKept DEF vars, Inv, Unobserved
<1> QED
  BY <1>1, <1>2, <1>3, <1>4, <1>5

-----------------------------------------------------------------------------
(* Steps that change one page and no worker.                                *)
LEMMA PageSteps ==
    ASSUME Inv, NEW p \in Pages, AddProduct(p) \/ ComesDue(p) \/ GetsOld(p) \/ MarkStale(p)
    PROVE  Inv'
<1> USE DEF Domains
<1>0. page[p] \in Page /\ history \in History
  BY DEF Inv
<1>1. ASSUME AddProduct(p) PROVE Inv'
  <2> DEFINE q == [page[p] EXCEPT !.match = "unmatched", !.due = TRUE]
  <2>1. /\ page[p].match = "absent" /\ page' = [page EXCEPT ![p] = q]
        /\ counted' = counted \cup {<<"user", p>>}
        /\ UNCHANGED <<source, queue, scanned, worker, lost, history, spent>>
    BY <1>0, <1>1 DEF AddProduct, Known, Inv, Page
  <2>2. /\ q \in Page /\ q.match = "unmatched" /\ q.product = page[p].product
        /\ q.observed = page[p].observed
    BY <1>0 DEF Page, Matches
  <2>3. Domains'
    BY <2>1, <2>2 DEF Inv, Callers
  <2>4. BrokenAfterFailures' /\ AtWork'
    BY <2>1, <2>2 DEF Inv, BrokenAfterFailures, AtWork
  <2>5. \A x \in Pages : AsReviewed(x)' /\ Unobserved(x)'
    BY <2>1, <2>2 DEF Inv, AsReviewed, Unobserved
  <2>6. \A w \in Workers : LoadedAsReviewed(w)'
    BY <2>1 DEF Inv, LoadedAsReviewed, Loaded
  <2> QED
    BY <2>3, <2>4, <2>5, <2>6 DEF Inv
<1>2. ASSUME ComesDue(p) PROVE Inv'
  <2> DEFINE q == [page[p] EXCEPT !.due = TRUE]
  <2>1. /\ page' = [page EXCEPT ![p] = q]
        /\ UNCHANGED <<source, queue, counted, scanned, worker, lost, history, spent>>
    BY <1>2 DEF ComesDue
  <2>2. /\ q \in Page /\ q.match = page[p].match /\ q.product = page[p].product
        /\ q.observed = page[p].observed /\ q.failures = page[p].failures
    BY <1>0 DEF Page
  <2>3. Domains'
    BY <2>1, <2>2 DEF Inv
  <2>4. \A x \in Pages : /\ page'[x].match = page[x].match /\ page'[x].product = page[x].product
                         /\ page'[x].failures = page[x].failures
                         /\ page'[x].observed = page[x].observed
    BY <2>1, <2>2 DEF Inv
  <2>5. \A x \in Pages : Unobserved(x)'
    BY <2>1, <2>4 DEF Inv, Unobserved
  <2> QED
    BY <2>1, <2>3, <2>4, <2>5, ReviewsKept DEF Inv
<1>3. ASSUME GetsOld(p) PROVE Inv'
  <2> DEFINE q == [page[p] EXCEPT !.observed = "old"]
  <2>1. /\ page' = [page EXCEPT ![p] = q]
        /\ UNCHANGED <<source, queue, counted, scanned, worker, lost, history, spent>>
    BY <1>3 DEF GetsOld
  <2>2. /\ q \in Page /\ q.match = page[p].match /\ q.product = page[p].product
        /\ q.observed = "old" /\ q.failures = page[p].failures
    BY <1>0 DEF Page
  <2>3. Domains'
    BY <2>1, <2>2 DEF Inv
  <2>4. \A x \in Pages : /\ page'[x].match = page[x].match /\ page'[x].product = page[x].product
                         /\ page'[x].failures = page[x].failures
                         /\ page'[x].observed \in {page[x].observed, "old"}
    BY <2>1, <2>2 DEF Inv
  <2>5. \A x \in Pages : Unobserved(x)'
    BY <2>1, <2>4 DEF Inv, Unobserved
  <2> QED
    BY <2>1, <2>3, <2>4, <2>5, ReviewsKept DEF Inv
<1>4. ASSUME MarkStale(p) PROVE Inv'
  <2> DEFINE q == [page[p] EXCEPT !.match = "stale"]
  <2>1. /\ scanned' = scanned \ {p} /\ p \in scanned
        /\ UNCHANGED <<source, queue, counted, worker, lost, history, spent>>
        /\ page' = IF StaysAsReviewed(p) THEN [page EXCEPT ![p] = q] ELSE page
    BY <1>4 DEF MarkStale
  <2>2. /\ q \in Page /\ q.match = "stale" /\ q.product = page[p].product
        /\ q.observed = page[p].observed /\ q.failures = page[p].failures
    BY <1>0 DEF Page, Matches
  <2>3. Domains'
    BY <2>1, <2>2 DEF Inv
  <2>4. BrokenAfterFailures' /\ AtWork'
    BY <2>1, <2>2 DEF Inv, BrokenAfterFailures, AtWork
  <2>5. AsReviewed(p)'
    <3>1. CASE StaysAsReviewed(p)
      BY <2>1, <2>2, <3>1 DEF Inv, AsReviewed, StaysAsReviewed, BrokenAfterFailures
    <3>2. CASE ~StaysAsReviewed(p)
      BY <2>1, <3>2 DEF Inv, AsReviewed
    <3> QED
      BY <3>1, <3>2
  <2>6. \A x \in Pages : AsReviewed(x)' /\ Unobserved(x)'
    BY <2>1, <2>2, <2>5 DEF Inv, AsReviewed, Unobserved
  <2>7. \A w \in Workers : LoadedAsReviewed(w)'
    BY <2>1 DEF Inv, LoadedAsReviewed, Loaded
  <2> QED
    BY <2>3, <2>4, <2>6, <2>7 DEF Inv
<1> QED
  BY <1>1, <1>2, <1>3, <1>4

(* A review: the page is as reviewed, and what any worker has loaded of it  *)
(* is old.                                                                 *)
LEMMA ReviewStep ==
    ASSUME Inv, NEW p \in Pages, NEW review \in {"needs_review", "rejected", "confirmed", "product"},
           ReviewMatch(p, review)
    PROVE  Inv'
<1> USE DEF Domains
<1> DEFINE m == IF review = "product" THEN "confirmed" ELSE review
           linked == review = "product"
           q == [page[p] EXCEPT !.match = m, !.product = linked]
           hit(w) == worker[w].page = p /\ worker[w].phase # "claimed"
           after(w) == IF hit(w) THEN [worker[w] EXCEPT !.old = TRUE] ELSE worker[w]
<1>0. page[p] \in Page /\ history \in History /\ spent' \in [Hazards -> Nat]
  BY SpendType DEF Inv, ReviewMatch, Hazards
<1>1. /\ page' = [page EXCEPT ![p] = q]
      /\ worker' = [w \in Workers |-> after(w)]
      /\ history' = [history EXCEPT !.review = [history.review EXCEPT ![p] = review],
                                    !.overtaken = @ \ {p}]
      /\ UNCHANGED <<source, queue, counted, scanned, lost>>
  <2>1. page' = [page EXCEPT ![p].match = m, ![p].product = linked]
        /\ UNCHANGED <<source, queue, counted, scanned, lost>>
    BY DEF ReviewMatch
  <2>2. page' = [page EXCEPT ![p] = q]
    BY <1>0, <2>1 DEF Page, Inv
  <2>3. history' = [history EXCEPT !.review[p] = review, !.overtaken = @ \ {p}]
    BY DEF ReviewMatch
  <2>4. worker' = [w \in Workers |-> after(w)]
    BY DEF ReviewMatch, At
  <2> QED
    BY <2>1, <2>2, <2>3, <2>4
<1>2. /\ q \in Page /\ q.match = m /\ q.observed = page[p].observed
      /\ q.product <=> review = "product"
  <2>1. m \in Matches /\ linked \in BOOLEAN
    BY DEF Matches
  <2> QED
    BY <1>0, <2>1 DEF Page
<1>3. \A w \in Workers :
         /\ after(w) \in Worker /\ after(w).phase = worker[w].phase
         /\ after(w).page = worker[w].page /\ after(w).match = worker[w].match
         /\ after(w).product = worker[w].product
         /\ hit(w) => after(w).old = TRUE
         /\ ~hit(w) => after(w) = worker[w]
  <2> SUFFICES ASSUME NEW w \in Workers
               PROVE  /\ after(w) \in Worker /\ after(w).phase = worker[w].phase
                      /\ after(w).page = worker[w].page /\ after(w).match = worker[w].match
                      /\ after(w).product = worker[w].product
                      /\ hit(w) => after(w).old = TRUE
                      /\ ~hit(w) => after(w) = worker[w]
    OBVIOUS
  <2>1. worker[w] \in Worker
    BY DEF Inv
  <2>2. CASE hit(w)
    <3>1. after(w) = [worker[w] EXCEPT !.old = TRUE]
      BY <2>2
    <3> QED
      BY <2>1, <2>2, <3>1 DEF Worker
  <2>3. CASE ~hit(w)
    <3>1. after(w) = worker[w]
      BY <2>3
    <3> QED
      BY <2>1, <2>3, <3>1
  <2> QED
    BY <2>2, <2>3
<1>4. /\ history' \in History
      /\ history'.review = [history.review EXCEPT ![p] = review]
      /\ history'.overtaken = history.overtaken \ {p} /\ history'.raced = history.raced
  <2>1. [history.review EXCEPT ![p] = review] \in [Pages -> Reviews]
    BY <1>0 DEF History, Reviews
  <2> QED
    BY <1>0, <1>1, <2>1 DEF History
<1>5. Domains'
  BY <1>0, <1>1, <1>2, <1>3, <1>4 DEF Inv
<1>6. BrokenAfterFailures' /\ AtWork'
  BY <1>1, <1>2, <1>3 DEF Inv, BrokenAfterFailures, AtWork
<1>7. \A x \in Pages : AsReviewed(x)'
  <2>1. AsReviewed(p)'
    BY <1>0, <1>1, <1>2, <1>4 DEF Inv, AsReviewed, History
  <2>2. ASSUME NEW x \in Pages, x # p PROVE AsReviewed(x)'
    BY <1>0, <1>1, <1>4, <2>2 DEF Inv, AsReviewed, History
  <2> QED
    BY <2>1, <2>2
<1>8. \A x \in Pages : Unobserved(x)'
  BY <1>1, <1>2, <1>4 DEF Inv, Unobserved
<1>9. \A w \in Workers : LoadedAsReviewed(w)'
  <2> SUFFICES ASSUME NEW w \in Workers, Loaded(w)' PROVE LoadedAsReviewed(w)'
    BY DEF LoadedAsReviewed
  <2>1. ~hit(w) /\ Loaded(w) /\ worker'[w] = worker[w]
    BY <1>1, <1>3 DEF Loaded
  <2>2. worker[w].page # p /\ worker[w].page \in Pages
    BY <2>1 DEF Loaded, Inv, AtWork
  <2> QED
    BY <1>0, <1>4, <2>1, <2>2 DEF Inv, LoadedAsReviewed, Loaded, History
<1> QED
  BY <1>5, <1>6, <1>7, <1>8, <1>9 DEF Inv

-----------------------------------------------------------------------------
(* A worker takes a run, and loads its page.                                *)
LEMMA ClaimStep ==
    ASSUME Inv, NEW w \in Workers, Claim(w) \/ LoadTask(w) \/ Fetch(w)
    PROVE  Inv'
<1> USE DEF Domains
<1>0. worker[w] \in Worker /\ worker \in [Workers -> Worker]
  BY DEF Inv
<1>1. ASSUME NEW new \in Worker, worker' = [worker EXCEPT ![w] = new],
             new.phase # "idle" => new.page \in Pages,
             queue' \in Seq(Pages),
             UNCHANGED <<page, source, counted, scanned, lost, history, spent>>,
             LoadedAsReviewed(w)'
      PROVE  Inv'
  <2>1. Domains'
    BY <1>0, <1>1 DEF Inv
  <2>2. BrokenAfterFailures' /\ AtWork'
    BY <1>0, <1>1 DEF Inv, BrokenAfterFailures, AtWork
  <2>3. \A p \in Pages : AsReviewed(p)' /\ Unobserved(p)'
    BY <1>1 DEF Inv, AsReviewed, Unobserved
  <2>4. \A v \in Workers : LoadedAsReviewed(v)'
    BY <1>0, <1>1 DEF Inv, LoadedAsReviewed, Loaded
  <2> QED
    BY <2>1, <2>2, <2>3, <2>4 DEF Inv
<1>2. ASSUME Claim(w) PROVE Inv'
  <2> DEFINE new == [Idle EXCEPT !.phase = "claimed", !.page = Head(queue)]
  <2>1. Head(queue) \in Pages /\ Tail(queue) \in Seq(Pages)
    BY <1>2 DEF Claim, Inv
  <2>2. new \in Worker /\ new.phase = "claimed" /\ new.page \in Pages
    BY <2>1, IdleType DEF Worker
  <2>3. worker' = [worker EXCEPT ![w] = new] /\ queue' = Tail(queue)
        /\ UNCHANGED <<page, source, counted, scanned, lost, history, spent>>
    BY <1>2 DEF Claim
  <2>4. LoadedAsReviewed(w)'
    BY <1>0, <2>2, <2>3 DEF LoadedAsReviewed, Loaded
  <2> QED
    BY <1>1, <2>1, <2>2, <2>3, <2>4
<1>3. ASSUME LoadTask(w) PROVE Inv'
  <2> DEFINE p == worker[w].page
             new == [worker[w] EXCEPT !.phase = "loaded", !.match = page[p].match,
                                      !.product = page[p].product]
  <2>1. p \in Pages /\ page[p] \in Page
    BY <1>3 DEF LoadTask, InPhase, Inv, AtWork
  <2>2. /\ new \in Worker /\ new.phase = "loaded" /\ new.page = p
        /\ new.match = page[p].match /\ new.product = page[p].product
    BY <1>0, <2>1 DEF Worker, Page
  <2>3. worker' = [worker EXCEPT ![w] = new]
    BY <1>0, <1>3 DEF LoadTask, At, Worker
  <2>4. UNCHANGED <<page, source, queue, counted, scanned, lost, history, spent>>
    BY <1>3 DEF LoadTask
  <2>5. AsReviewed(p)
    BY <2>1 DEF Inv
  <2>6. worker'[w] = new
    BY <1>0, <2>3
  <2>7. LoadedAsReviewed(w)'
    BY <2>2, <2>4, <2>5, <2>6 DEF LoadedAsReviewed, AsReviewed
  <2> QED
    BY <1>1, <2>1, <2>2, <2>3, <2>4, <2>7 DEF Inv
<1>4. ASSUME Fetch(w) PROVE Inv'
  <2> DEFINE price == ExtractProduct(source[worker[w].page]).price
             before == {v \in Busy(At(w)) : InPhase(v, "observed")}
             new == [worker[w] EXCEPT !.phase = "observed", !.price = price, !.before = before]
  <2>1. worker[w].page \in Pages /\ worker[w].phase = "loaded"
    BY <1>4 DEF Fetch, InPhase, Inv, AtWork
  <2>2. price \in Amounts
    BY <2>1 DEF Inv, Amounts
  <2>3. before \in SUBSET Workers
    BY DEF Busy
  <2>4. /\ new \in Worker /\ new.phase = "observed" /\ new.page = worker[w].page
        /\ new.match = worker[w].match /\ new.product = worker[w].product
        /\ new.old = worker[w].old
    BY <1>0, <2>2, <2>3 DEF Worker
  <2>5. worker' = [worker EXCEPT ![w] = new]
        /\ UNCHANGED <<page, source, queue, counted, scanned, lost, history, spent>>
    BY <1>0, <1>4 DEF Fetch, At
  <2>6. LoadedAsReviewed(w)'
    BY <1>0, <2>1, <2>4, <2>5 DEF Inv, LoadedAsReviewed, Loaded
  <2> QED
    BY <1>1, <2>1, <2>4, <2>5, <2>6 DEF Inv
<1> QED
  BY <1>2, <1>3, <1>4

(* A check ends without an observation.                                     *)
LEMMA FailStep ==
    ASSUME Inv, NEW w \in Workers, FetchFails(w) \/ CheckFails(w) \/ Dies(w)
    PROVE  Inv'
<1> USE DEF Domains
<1> DEFINE p == worker[w].page
<1>1. /\ p \in Pages /\ spent' \in [Hazards -> Nat] /\ lost' \in SUBSET Pages
      /\ UNCHANGED <<source, queue, counted, scanned, history>>
  <2>1. p \in Pages
    BY DEF FetchFails, CheckFails, Dies, InPhase, Inv, AtWork
  <2>2. spent' \in [Hazards -> Nat]
    BY SpendType DEF FetchFails, CheckFails, Dies, Inv, Hazards
  <2> QED
    BY <2>1, <2>2 DEF FetchFails, CheckFails, Dies, Inv, At
<1>2. page[p] \in Page
  BY <1>1 DEF Inv
<1>3. /\ Leaves(w, FALSE)
      /\ \/ page' = page
         \/ \E q \in Page :
               /\ page' = [page EXCEPT ![p] = q]
               /\ q.product = page[p].product /\ q.observed = page[p].observed
               /\ \/ q.match = page[p].match
                  \/ q.match = "broken" /\ page[p].match # "rejected"
               /\ page[p].failures = Breaks => q.failures = Breaks
               /\ q.match = "broken" => q.failures = Breaks
  <2>1. CASE FailRun(w)
    BY <1>1, <2>1, FailRunEffect DEF Inv
  <2>2. CASE Dies(w)
    BY <2>2 DEF Dies
  <2> QED
    BY <2>1, <2>2 DEF FetchFails, CheckFails
<1>4. /\ worker' \in [Workers -> Worker] /\ worker'[w] = Idle
      /\ \A v \in Workers \ {w} :
            /\ worker'[v].phase = worker[v].phase /\ worker'[v].page = worker[v].page
            /\ worker'[v].match = worker[v].match /\ worker'[v].product = worker[v].product
            /\ worker'[v].old = worker[v].old
  BY <1>3, LeavesType DEF Inv
<1>5. Domains'
  BY <1>1, <1>3, <1>4 DEF Inv
<1>6. BrokenAfterFailures'
  BY <1>1, <1>3 DEF Inv, BrokenAfterFailures
<1>7. AtWork'
  <2>1. worker'[w].phase = "idle"
    BY <1>4 DEF Idle
  <2>2. ASSUME NEW v \in Workers, v # w, worker'[v].phase # "idle"
        PROVE  worker'[v].page \in Pages
    BY <1>4, <2>2 DEF Inv, AtWork
  <2> QED
    BY <2>1, <2>2 DEF AtWork
<1>8. \A x \in Pages : AsReviewed(x)'
  BY <1>1, <1>3 DEF Inv, AsReviewed
<1>9. \A x \in Pages : Unobserved(x)'
  BY <1>1, <1>3 DEF Inv, Unobserved
<1>10. \A v \in Workers : LoadedAsReviewed(v)'
  <2>1. LoadedAsReviewed(w)'
    BY <1>4 DEF LoadedAsReviewed, Loaded, Idle
  <2>2. ASSUME NEW v \in Workers \ {w} PROVE LoadedAsReviewed(v)'
    BY <1>1, <1>4, <2>2 DEF Inv, LoadedAsReviewed, Loaded
  <2> QED
    BY <2>1, <2>2
<1> QED
  BY <1>5, <1>6, <1>7, <1>8, <1>9, <1>10 DEF Inv

(* A check writes what it observed, over what may have changed meanwhile.   *)
LEMMA PersistStep ==
    ASSUME Inv, NEW w \in Workers, NEW p \in Pages, worker[w].page = p, PersistObservation(w)
    PROVE  Inv'
<1> USE DEF Domains
<1> DEFINE overtaken == IF worker[w].old THEN history.overtaken \cup {p} ELSE history.overtaken
           raced == IF p \in scanned THEN history.raced \cup {p} ELSE history.raced \ {p}
           crossed == IF Busy(p) = {w} /\ ~Contains(queue, p) /\ ~worker[w].behind
                      THEN history.crossed \ {p} ELSE history.crossed
           row(suggestion) ==
               [match |-> MatchAfter(w, suggestion), product |-> page[p].product, failures |-> 0,
                due |-> FALSE, observed |-> "fresh", shown |-> worker[w].price,
                newest |-> IF worker[w].behind THEN page[p].newest ELSE worker[w].price]
<1>1. /\ worker[w].phase = "observed" /\ Leaves(w, TRUE)
      /\ history' = [history EXCEPT !.overtaken = overtaken, !.raced = raced, !.crossed = crossed]
      /\ UNCHANGED <<source, queue, counted, scanned, lost, spent>>
  <2>1. history' = [history EXCEPT !.overtaken = overtaken, !.raced = raced, !.crossed = crossed]
    BY DEF PersistObservation, At
  <2> QED
    BY <2>1 DEF PersistObservation, InPhase
<1>2. PICK suggestion \in {"unmatched", "suggested"} :
         page' = [page EXCEPT ![p] = row(suggestion)]
  BY <1>1 DEF PersistObservation, At, Inv
<1> DEFINE q == row(suggestion)
<1>3. page[p] \in Page /\ worker[w] \in Worker /\ history \in History /\ 0 \in 0..Breaks
  BY <1>1, PagesAssumption DEF Inv
<1>4. q.match \in Matches /\ q.match = MatchAfter(w, suggestion)
  BY <1>3 DEF MatchAfter, Matches, Worker
<1>5. /\ q \in Page /\ q.product = page[p].product /\ q.observed = "fresh"
      /\ q.match # "stale" /\ q.match # "broken"
  <2>1. q.newest \in Amounts /\ q.shown \in Amounts
    BY <1>3 DEF Page, Worker
  <2>2. q \in Page
    BY <1>3, <1>4, <2>1 DEF Page
  <2> QED
    BY <1>4, <2>2 DEF MatchAfter
<1>6. /\ history' \in History /\ history'.review = history.review
      /\ history'.overtaken = overtaken /\ history'.raced = raced
  <2>1. overtaken \in SUBSET Pages /\ raced \in SUBSET Pages /\ crossed \in SUBSET Pages
    BY <1>1, <1>3 DEF History
  <2> QED
    BY <1>1, <1>3, <2>1 DEF History
<1>7. /\ worker' \in [Workers -> Worker] /\ worker'[w] = Idle
      /\ \A v \in Workers \ {w} :
            /\ worker'[v].phase = worker[v].phase /\ worker'[v].page = worker[v].page
            /\ worker'[v].match = worker[v].match /\ worker'[v].product = worker[v].product
            /\ worker'[v].old = worker[v].old
  BY <1>1, LeavesType DEF Inv
<1>8. Domains'
  BY <1>1, <1>2, <1>5, <1>6, <1>7 DEF Inv
<1>9. BrokenAfterFailures' /\ AtWork'
  <2>1. BrokenAfterFailures'
    BY <1>2, <1>5 DEF Inv, BrokenAfterFailures
  <2>2. AtWork'
    BY <1>7 DEF Inv, AtWork, Idle
  <2> QED
    BY <2>1, <2>2
<1>10. \A x \in Pages : AsReviewed(x)'
  <2>1. AsReviewed(p)'
    <3>1. CASE worker[w].old
      BY <1>6, <3>1 DEF AsReviewed
    <3>2. CASE ~worker[w].old
      <4>1. AsReviewed(p) /\ LoadedAsReviewed(w) /\ Loaded(w)
        BY <1>1, <3>2 DEF Inv, Loaded
      <4>2. page'[p] = q
        BY <1>1, <1>2 DEF Inv
      <4> QED
        BY <1>4, <1>5, <1>6, <3>2, <4>1, <4>2 DEF AsReviewed, LoadedAsReviewed, MatchAfter
    <3> QED
      BY <3>1, <3>2
  <2>2. ASSUME NEW x \in Pages, x # p PROVE AsReviewed(x)'
    BY <1>2, <1>6, <2>2 DEF Inv, AsReviewed
  <2> QED
    BY <2>1, <2>2
<1>11. \A x \in Pages : Unobserved(x)'
  <2>1. Unobserved(p)'
    BY <1>1, <1>2, <1>5, <1>6 DEF Inv, Unobserved
  <2>2. ASSUME NEW x \in Pages, x # p PROVE Unobserved(x)'
    BY <1>1, <1>2, <1>6, <2>2 DEF Inv, Unobserved
  <2> QED
    BY <2>1, <2>2
<1>12. \A v \in Workers : LoadedAsReviewed(v)'
  BY <1>1, <1>6, <1>7 DEF Inv, LoadedAsReviewed, Loaded, Idle
<1> QED
  BY <1>8, <1>9, <1>10, <1>11, <1>12 DEF Inv

LEMMA InvHolds == Spec => []Inv
<1>1. ASSUME Init PROVE Inv
  <2>1. NewPage \in Page /\ Idle \in Worker
    BY IdleType, PagesAssumption DEF NewPage, Page, Matches, Amounts
  <2>2. history \in History
    BY <1>1 DEF Init, History, Reviews
  <2>3. Domains
    BY <1>1, <2>1, <2>2 DEF Init, Domains
  <2>4. BrokenAfterFailures /\ AtWork
    BY <1>1 DEF Init, BrokenAfterFailures, AtWork, NewPage, Idle
  <2>5. \A p \in Pages : AsReviewed(p) /\ Unobserved(p)
    BY <1>1 DEF Init, AsReviewed, Unobserved, NewPage
  <2>6. \A w \in Workers : LoadedAsReviewed(w)
    BY <1>1 DEF Init, LoadedAsReviewed, Loaded, Idle
  <2> QED
    BY <2>3, <2>4, <2>5, <2>6 DEF Inv
<1>2. ASSUME Inv, [Next]_vars PROVE Inv'
  <2>1. ASSUME NEW w \in Workers, PersistObservation(w) PROVE Inv'
    <3>1. worker[w].page \in Pages
      BY <1>2, <2>1 DEF PersistObservation, InPhase, Inv, AtWork
    <3> QED
      BY <1>2, <2>1, <3>1, PersistStep
  <2> QED
    BY <1>2, <2>1, QuietSteps, PageSteps, ReviewStep, ClaimStep, FailStep DEF Next, ProcessNext
<1> QED
  BY <1>1, <1>2, PTL DEF Spec

-----------------------------------------------------------------------------
(* Pages, reviews, runs and what workers hold stay in their domains, and a  *)
(* page is broken only after Breaks failures.                              *)
THEOREM TypeCorrect == Spec => []TypeOK
<1>1. Inv => TypeOK
  BY TypeParts DEF Inv
<1> QED
  BY <1>1, InvHolds, PTL

(* A person's review stands for any number of workers and callers, however  *)
(* checks, stale scans and reviews interleave, except where a check that    *)
(* had loaded the page before the review wrote after it.                    *)
THEOREM ReviewsStand == Spec => []ReviewStands
<1>1. Inv => ReviewStands
  BY DEF Inv, AsReviewed, ReviewStands
<1> QED
  BY <1>1, InvHolds, PTL

(* What is marked stale has not been observed lately, for any number of     *)
(* workers, except where a check wrote between the scan's two statements.   *)
THEOREM StaleIsAlwaysOld == Spec => []StaleIsOld
<1>1. Inv => StaleIsOld
  BY DEF Inv, Unobserved, StaleIsOld
<1> QED
  BY <1>1, InvHolds, PTL

-----------------------------------------------------------------------------
(* The newest observation is the one shown *)

(* One run of a page at a time: queued, or with one worker, and nobody who  *)
(* has counted none while there is one gets past unnoticed (history.late).  *)
Once(s, x) == \A i, j \in 1..Len(s) : s[i] = x /\ s[j] = x => i = j

OneRun(p) ==
    /\ Once(queue, p)
    /\ \A w \in Workers : At(w) = p => ~Contains(queue, p)
    /\ \A v, w \in Workers : At(v) = p /\ At(w) = p => v = w
CountedNone(p) == \A c \in Callers :
    <<c, p>> \in counted /\ <<c, p>> \notin history.late =>
        ~Contains(queue, p) /\ \A w \in Workers : At(w) # p
NoneBehind(p) == \A w \in Workers : At(w) = p => ~worker[w].behind

Uncrossed(p) ==
    p \in history.crossed \/ /\ page[p].shown = page[p].newest
                             /\ OneRun(p) /\ CountedNone(p) /\ NoneBehind(p)

(* A page that was not added is not checked by anyone.                      *)
Untouched(p) ==
    page[p].match = "absent" => /\ ~page[p].due
                                /\ ~Contains(queue, p)
                                /\ \A c \in Callers : <<c, p>> \notin counted
                                /\ \A w \in Workers : At(w) # p
(* Who is to be put behind is about to write to the same page.              *)
BehindOnPage == \A v, w \in Workers :
    v \in worker[w].before => At(v) = At(w) /\ v # w /\ InPhase(v, "observed")
LoadedKnown == \A w \in Workers :
    worker[w].phase \in {"loaded", "observed"} => worker[w].match # "absent"

CrossInv ==
    /\ \A p \in Pages : Uncrossed(p) /\ Untouched(p)
    /\ BehindOnPage /\ LoadedKnown

(* Steps that leave runs, callers and what workers do alone.                *)
LEMMA CrossQuiet ==
    ASSUME CrossInv, UNCHANGED <<queue, counted>>,
           history'.late = history.late, history'.crossed = history.crossed,
           \A w \in Workers :
              /\ worker'[w].page = worker[w].page /\ worker'[w].phase = worker[w].phase
              /\ worker'[w].before = worker[w].before /\ worker'[w].behind = worker[w].behind
              /\ worker'[w].match = worker[w].match,
           \A p \in Pages :
              /\ page'[p].shown = page[p].shown /\ page'[p].newest = page[p].newest
              /\ page'[p].match = "absent" => page[p].match = "absent" /\ page'[p].due = page[p].due
    PROVE  CrossInv'
<1>1. \A p \in Pages : Uncrossed(p)'
  BY DEF CrossInv, Uncrossed, OneRun, CountedNone, NoneBehind, At
<1>2. \A p \in Pages : Untouched(p)'
  BY DEF CrossInv, Untouched, At
<1>3. BehindOnPage' /\ LoadedKnown'
  BY DEF CrossInv, BehindOnPage, LoadedKnown, At, InPhase
<1> QED BY <1>1, <1>2, <1>3 DEF CrossInv

LEMMA CrossPages ==
    ASSUME Inv, CrossInv, NEW p \in Pages,
           \/ ComesDue(p) \/ GetsOld(p) \/ SelectStale(p) \/ MarkStale(p)
           \/ \E content \in Contents : SourceChanges(p, content)
           \/ \E review \in Reviews \ {"none"} : ReviewMatch(p, review)
           \/ UNCHANGED vars
    PROVE  CrossInv'
<1>0. page \in [Pages -> Page] /\ worker \in [Workers -> Worker] /\ history \in History
  BY DEF Inv, Domains
<1>1. UNCHANGED <<queue, counted>>
  BY DEF ComesDue, GetsOld, SelectStale, MarkStale, SourceChanges, ReviewMatch, vars
<1>2. history'.late = history.late /\ history'.crossed = history.crossed
  <2>1. CASE history' = history
    BY <2>1
  <2>2. ASSUME NEW review \in Reviews, ReviewMatch(p, review)
        PROVE  history'.late = history.late /\ history'.crossed = history.crossed
    BY <1>0, <2>2 DEF ReviewMatch, History
  <2> QED
    BY <2>1, <2>2 DEF ComesDue, GetsOld, SelectStale, MarkStale, SourceChanges, vars
<1>3. \A w \in Workers :
        /\ worker'[w].page = worker[w].page /\ worker'[w].phase = worker[w].phase
        /\ worker'[w].before = worker[w].before /\ worker'[w].behind = worker[w].behind
        /\ worker'[w].match = worker[w].match
  <2>1. CASE worker' = worker
    BY <2>1
  <2>2. ASSUME NEW review \in Reviews, ReviewMatch(p, review), NEW w \in Workers
        PROVE  /\ worker'[w].page = worker[w].page /\ worker'[w].phase = worker[w].phase
               /\ worker'[w].before = worker[w].before /\ worker'[w].behind = worker[w].behind
               /\ worker'[w].match = worker[w].match
    <3>1. PICK t \in Worker : t = worker[w]
      BY <1>0
    <3>2. worker'[w] \in {t, [t EXCEPT !.old = TRUE]}
      BY <2>2, <3>1 DEF ReviewMatch
    <3> QED BY <3>1, <3>2 DEF Worker
  <2> QED
    BY <2>1, <2>2 DEF ComesDue, GetsOld, SelectStale, MarkStale, SourceChanges, vars
<1>4. ASSUME NEW q \in Pages
      PROVE  /\ page'[q].shown = page[q].shown /\ page'[q].newest = page[q].newest
             /\ page'[q].match = "absent" => page[q].match = "absent" /\ page'[q].due = page[q].due
  <2>1. CASE page'[q] = page[q]
    BY <2>1
  <2>2. CASE page'[q] # page[q]
    <3>0. PICK t \in Page : t = page[q]
      BY <1>0
    <3>1. q = p
      BY <1>0, <2>2 DEF ComesDue, GetsOld, SelectStale, MarkStale, SourceChanges, ReviewMatch, vars
    <3>2. CASE ComesDue(p)
      <4>1. page'[q] = [t EXCEPT !.due = TRUE] /\ t.match # "absent"
        BY <1>0, <3>0, <3>1, <3>2 DEF ComesDue, Known
      <4> QED BY <3>0, <4>1 DEF Page
    <3>3. CASE GetsOld(p)
      <4>1. page'[q] = [t EXCEPT !.observed = "old"]
        BY <1>0, <3>0, <3>1, <3>3 DEF GetsOld
      <4> QED BY <3>0, <4>1 DEF Page
    <3>4. CASE MarkStale(p)
      <4>1. page'[q] = [t EXCEPT !.match = "stale"]
        BY <1>0, <2>2, <3>0, <3>1, <3>4 DEF MarkStale
      <4> QED BY <3>0, <4>1 DEF Page
    <3>5. ASSUME NEW review \in Reviews \ {"none"}, ReviewMatch(p, review)
          PROVE  /\ page'[q].shown = page[q].shown /\ page'[q].newest = page[q].newest
                 /\ page'[q].match # "absent"
      <4>1. PICK m \in Reviews \ {"none"}, b \in BOOLEAN :
               page'[q] = [t EXCEPT !.match = m, !.product = b]
        <5>1. page'[q] = [t EXCEPT !.match = IF review = "product" THEN "confirmed" ELSE review,
                                   !.product = review = "product"]
          BY <1>0, <3>0, <3>1, <3>5 DEF ReviewMatch
        <5> QED BY <5>1 DEF Reviews
      <4> QED BY <3>0, <4>1 DEF Page, Reviews
    <3> QED BY <2>2, <3>2, <3>3, <3>4, <3>5 DEF SelectStale, SourceChanges, vars
  <2> QED BY <2>1, <2>2
<1> QED BY <1>1, <1>2, <1>3, <1>4, CrossQuiet

(* A new caller has counted no run, and there is none.                      *)
LEMMA CrossCounts ==
    ASSUME Inv, CrossInv, NEW p \in Pages, AddProduct(p) \/ AskForCheck(p) \/ EnqueueDue(p)
    PROVE  CrossInv'
<1>0. page \in [Pages -> Page] /\ queue \in Seq(Pages)
  BY DEF Inv, Domains
<1>1. PICK c \in Callers : counted' = counted \cup {<<c, p>>}
  BY DEF AddProduct, AskForCheck, EnqueueDue, CountRuns, Callers
<1>2. UNCHANGED <<queue, worker, history>>
  BY DEF AddProduct, AskForCheck, EnqueueDue, CountRuns
<1>3. ~Contains(queue, p) /\ \A w \in Workers : At(w) # p
  <2>1. CASE AddProduct(p)
    BY <2>1 DEF AddProduct, Known, CrossInv, Untouched
  <2>2. CASE AskForCheck(p) \/ EnqueueDue(p)
    BY <2>2 DEF AskForCheck, EnqueueDue, CountRuns, Active, Busy
  <2> QED BY <2>1, <2>2
<1>4. ASSUME NEW q \in Pages
      PROVE  /\ page'[q].shown = page[q].shown /\ page'[q].newest = page[q].newest
             /\ q # p => page'[q] = page[q]
             /\ page'[p].match # "absent"
  <2>1. CASE AddProduct(p)
    <3>1. PICK t \in Page : t = page[p]
      BY <1>0
    <3>2. page' = [page EXCEPT ![p] = [t EXCEPT !.match = "unmatched", !.due = TRUE]]
      BY <1>0, <2>1, <3>1 DEF AddProduct
    <3> QED BY <1>0, <3>1, <3>2 DEF Page
  <2>2. CASE AskForCheck(p)
    BY <2>2 DEF AskForCheck, CountRuns, Known
  <2>3. CASE EnqueueDue(p)
    BY <2>3 DEF EnqueueDue, CountRuns, Due, CrossInv, Untouched
  <2> QED BY <2>1, <2>2, <2>3
<1>5. \A q \in Pages : Uncrossed(q)'
  BY <1>1, <1>2, <1>3, <1>4 DEF CrossInv, Uncrossed, OneRun, CountedNone, NoneBehind, At
<1>6. \A q \in Pages : Untouched(q)'
  BY <1>1, <1>2, <1>3, <1>4 DEF CrossInv, Untouched, At
<1>7. BehindOnPage' /\ LoadedKnown'
  BY <1>2 DEF CrossInv, BehindOnPage, LoadedKnown, At, InPhase
<1> QED BY <1>5, <1>6, <1>7 DEF CrossInv

(* The queue: its runs of a page after one is added, and without its first. *)
LEMMA AddedRun ==
    ASSUME queue \in Seq(Pages), NEW p \in Pages, NEW x \in Pages, NEW s, s = Append(queue, p)
    PROVE  /\ Contains(s, x) <=> Contains(queue, x) \/ x = p
           /\ Once(queue, x) /\ (x = p => ~Contains(queue, p)) => Once(s, x)
<1>1. /\ Len(queue) \in Nat /\ Len(s) = Len(queue) + 1
      /\ \A i \in 1..Len(queue) : s[i] = queue[i]
      /\ s[Len(queue) + 1] = p
  OBVIOUS
<1>2. Contains(s, x) <=> Contains(queue, x) \/ x = p
  BY <1>1 DEF Contains
<1>3. ASSUME Once(queue, x), x = p => ~Contains(queue, p) PROVE Once(s, x)
  <2> SUFFICES ASSUME NEW i \in 1..Len(s), NEW j \in 1..Len(s), s[i] = x, s[j] = x
               PROVE  i = j
    BY DEF Once
  <2>1. i \in 1..Len(queue) \/ i = Len(queue) + 1
    BY <1>1
  <2>2. j \in 1..Len(queue) \/ j = Len(queue) + 1
    BY <1>1
  <2> QED BY <1>1, <1>3, <2>1, <2>2 DEF Once, Contains
<1> QED BY <1>2, <1>3

LEMMA TakenRun ==
    ASSUME queue \in Seq(Pages), queue # <<>>, NEW x \in Pages, NEW s, s = Tail(queue)
    PROVE  /\ Contains(s, x) => Contains(queue, x)
           /\ Contains(queue, Head(queue))
           /\ Once(queue, x) => Once(s, x) /\ (x = Head(queue) => ~Contains(s, x))
<1>1. /\ Len(queue) \in Nat \ {0} /\ Len(s) = Len(queue) - 1
      /\ \A i \in 1..Len(s) : s[i] = queue[i + 1] /\ i + 1 \in 1..Len(queue)
      /\ Head(queue) = queue[1] /\ 1 \in 1..Len(queue)
  OBVIOUS
<1>2. (Contains(s, x) => Contains(queue, x)) /\ Contains(queue, Head(queue))
  BY <1>1 DEF Contains
<1>3. ASSUME Once(queue, x) PROVE Once(s, x)
  <2> SUFFICES ASSUME NEW i \in 1..Len(s), NEW j \in 1..Len(s), s[i] = x, s[j] = x
               PROVE  i = j
    BY DEF Once
  <2>1. i + 1 = j + 1
    BY <1>1, <1>3 DEF Once
  <2> QED BY <1>1, <2>1
<1>4. ASSUME Once(queue, x), x = Head(queue), Contains(s, x) PROVE FALSE
  <2>1. PICK i \in 1..Len(s) : s[i] = x
    BY <1>4 DEF Contains
  <2>2. i + 1 = 1
    BY <1>1, <1>4, <2>1 DEF Once
  <2> QED BY <1>1, <2>2
<1> QED BY <1>2, <1>3, <1>4

(* A caller that counted none inserts a run: the others have counted too    *)
(* early, and a caller that had makes the page crossed.                     *)
LEMMA CrossQueues ==
    ASSUME Inv, CrossInv, NEW p \in Pages, NEW c \in Callers, QueueCheck(c, p)
    PROVE  CrossInv'
<1>0. queue \in Seq(Pages) /\ history \in History
  BY DEF Inv, Domains
<1>1. /\ UNCHANGED <<page, worker>> /\ <<c, p>> \in counted
      /\ counted' = counted \ {<<c, p>>} /\ queue' = Append(queue, p)
  BY DEF QueueCheck
<1>2. /\ history'.late = (history.late \cup {x \in counted : x[2] = p}) \ {<<c, p>>}
      /\ history'.crossed = IF <<c, p>> \in history.late THEN history.crossed \cup {p}
                            ELSE history.crossed
  <2>1. PICK h \in History : h = history
    BY <1>0
  <2>2. PICK l, k : /\ l = (history.late \cup {x \in counted : x[2] = p}) \ {<<c, p>>}
                    /\ k = IF <<c, p>> \in history.late THEN history.crossed \cup {p}
                           ELSE history.crossed
    OBVIOUS
  <2>3. history' = [h EXCEPT !.late = l, !.crossed = k]
    BY <2>1, <2>2 DEF QueueCheck
  <2> QED BY <2>2, <2>3 DEF History
<1>3. ASSUME NEW x \in Pages
      PROVE  /\ Contains(queue, x)' <=> Contains(queue, x) \/ x = p
             /\ Once(queue, x) /\ (x = p => ~Contains(queue, p)) => Once(queue, x)'
  BY <1>0, <1>1, AddedRun
<1>4. ASSUME NEW x \in Pages, x # p PROVE Uncrossed(x)'
  <2>1. Uncrossed(x)
    BY DEF CrossInv
  <2>2. \A d \in Callers : /\ <<d, x>> \in counted' <=> <<d, x>> \in counted
                           /\ <<d, x>> \in history'.late <=> <<d, x>> \in history.late
    BY <1>1, <1>2, <1>4
  <2>3. x \in history'.crossed <=> x \in history.crossed
    BY <1>2, <1>4
  <2>4. OneRun(x) => OneRun(x)'
    BY <1>1, <1>3, <1>4 DEF OneRun, At
  <2>5. CountedNone(x) => CountedNone(x)'
    BY <1>1, <1>3, <1>4, <2>2 DEF CountedNone, At
  <2> QED BY <1>1, <2>1, <2>3, <2>4, <2>5 DEF Uncrossed, NoneBehind, At
<1>5. Uncrossed(p)'
  <2>1. CASE p \in history'.crossed
    BY <2>1 DEF Uncrossed
  <2>2. CASE p \notin history'.crossed
    <3>1. p \notin history.crossed /\ <<c, p>> \notin history.late
      BY <1>2, <2>2
    <3>2. /\ page[p].shown = page[p].newest
          /\ OneRun(p) /\ CountedNone(p) /\ NoneBehind(p)
      BY <3>1 DEF CrossInv, Uncrossed
    <3>3. ~Contains(queue, p) /\ \A w \in Workers : At(w) # p
      BY <1>1, <3>1, <3>2 DEF CountedNone
    <3>4. OneRun(p)'
      BY <1>1, <1>3, <3>2, <3>3 DEF OneRun, At
    <3>5. CountedNone(p)'
      BY <1>1, <1>2 DEF CountedNone
    <3> QED BY <1>1, <3>2, <3>4, <3>5 DEF Uncrossed, NoneBehind, At
  <2> QED BY <2>1, <2>2
<1>6. \A x \in Pages : Untouched(x)'
  <2>1. page[p].match # "absent"
    BY <1>1 DEF CrossInv, Untouched
  <2> QED BY <1>1, <1>3, <2>1 DEF CrossInv, Untouched, At
<1>7. BehindOnPage' /\ LoadedKnown'
  BY <1>1 DEF CrossInv, BehindOnPage, LoadedKnown, At, InPhase
<1> QED BY <1>4, <1>5, <1>6, <1>7 DEF CrossInv

(* A worker takes the first run.                                            *)
LEMMA CrossClaims ==
    ASSUME Inv, CrossInv, NEW w \in Workers, Claim(w)
    PROVE  CrossInv'
<1>0. queue \in Seq(Pages) /\ worker \in [Workers -> Worker]
  BY DEF Inv, Domains
<1>1. /\ UNCHANGED <<page, counted, history>> /\ queue # <<>> /\ queue' = Tail(queue)
      /\ worker[w].phase = "idle"
  BY DEF Claim, InPhase
<1>2. PICK p \in Pages : p = Head(queue)
  BY <1>0, <1>1
<1>3. /\ worker'[w].phase = "claimed" /\ worker'[w].page = p
      /\ worker'[w].before = {} /\ worker'[w].behind = FALSE
      /\ \A v \in Workers \ {w} : worker'[v] = worker[v]
  <2>1. worker' = [worker EXCEPT ![w] = [Idle EXCEPT !.phase = "claimed", !.page = p]]
    BY <1>2 DEF Claim
  <2>2. worker'[w] = [Idle EXCEPT !.phase = "claimed", !.page = p]
    BY <1>0, <2>1
  <2> QED BY <1>0, <2>1, <2>2 DEF Idle
<1>4. ASSUME NEW x \in Pages
      PROVE  /\ Contains(queue, x)' => Contains(queue, x)
             /\ Contains(queue, p)
             /\ Once(queue, x) => Once(queue, x)' /\ (x = p => ~Contains(queue, x)')
  BY <1>0, <1>1, <1>2, TakenRun
<1>5. ASSUME NEW x \in Pages PROVE Uncrossed(x)'
  <2>1. Uncrossed(x)
    BY DEF CrossInv
  <2>2. OneRun(x) => OneRun(x)'
    BY <1>3, <1>4 DEF OneRun, At
  <2>3. CountedNone(x) => CountedNone(x)'
    BY <1>1, <1>3, <1>4 DEF CountedNone, At
  <2>4. NoneBehind(x) => NoneBehind(x)'
    BY <1>3 DEF NoneBehind, At
  <2> QED BY <1>1, <2>1, <2>2, <2>3, <2>4 DEF Uncrossed
<1>6. \A x \in Pages : Untouched(x)'
  BY <1>1, <1>3, <1>4 DEF CrossInv, Untouched, At
<1>7. BehindOnPage' /\ LoadedKnown'
  BY <1>1, <1>3 DEF CrossInv, BehindOnPage, LoadedKnown, At, InPhase
<1> QED BY <1>5, <1>6, <1>7 DEF CrossInv

(* It loads the match of a page that exists, and fetches the page; who has  *)
(* fetched the same page before is remembered.                              *)
LEMMA CrossFetches ==
    ASSUME Inv, CrossInv, NEW w \in Workers, LoadTask(w) \/ Fetch(w)
    PROVE  CrossInv'
<1>0. worker \in [Workers -> Worker]
  BY DEF Inv, Domains
<1>1. UNCHANGED <<page, queue, counted, history>>
  BY DEF LoadTask, Fetch
<1>2. PICK t \in Worker : t = worker[w]
  BY <1>0
<1>3. /\ worker'[w].page = t.page /\ worker'[w].behind = t.behind
      /\ worker'[w].phase \in {"loaded", "observed"} /\ worker'[w].match # "absent"
      /\ \/ worker'[w].before = t.before
         \/ worker'[w].before = {v \in Busy(At(w)) : InPhase(v, "observed")}
      /\ t.phase # "observed"
      /\ \A v \in Workers \ {w} : worker'[v] = worker[v]
  <2>1. CASE LoadTask(w)
    <3>0. t.page \in Pages
      BY <1>2, <2>1 DEF LoadTask, InPhase, Inv, AtWork
    <3>1. PICK m, b : m = page[t.page].match /\ b = page[t.page].product
      OBVIOUS
    <3>2. m # "absent"
      BY <1>2, <3>0, <3>1 DEF CrossInv, Untouched, At
    <3>3. worker' = [worker EXCEPT ![w] = [t EXCEPT !.phase = "loaded", !.match = m, !.product = b]]
      BY <1>0, <1>2, <2>1, <3>1 DEF LoadTask, At
    <3>4. worker'[w] = [t EXCEPT !.phase = "loaded", !.match = m, !.product = b]
      BY <1>0, <3>3
    <3> QED BY <1>0, <1>2, <2>1, <3>2, <3>3, <3>4 DEF LoadTask, InPhase, Worker
  <2>2. CASE Fetch(w)
    <3>1. PICK a, B : /\ a = ExtractProduct(source[At(w)]).price
                      /\ B = {v \in Busy(At(w)) : InPhase(v, "observed")}
      OBVIOUS
    <3>2. worker' = [worker EXCEPT ![w] = [t EXCEPT !.phase = "observed", !.price = a, !.before = B]]
      BY <1>0, <1>2, <2>2, <3>1 DEF Fetch
    <3>3. worker'[w] = [t EXCEPT !.phase = "observed", !.price = a, !.before = B]
      BY <1>0, <3>2
    <3>4. t.match # "absent" /\ t.phase = "loaded"
      BY <1>2, <2>2 DEF Fetch, InPhase, CrossInv, LoadedKnown
    <3> QED BY <1>0, <1>2, <3>1, <3>2, <3>3, <3>4 DEF Worker
  <2> QED BY <2>1, <2>2
<1>4. \A x \in Pages : Uncrossed(x)'
  BY <1>1, <1>2, <1>3 DEF CrossInv, Uncrossed, OneRun, CountedNone, NoneBehind, At
<1>5. \A x \in Pages : Untouched(x)'
  BY <1>1, <1>2, <1>3 DEF CrossInv, Untouched, At
<1>6. LoadedKnown'
  BY <1>3 DEF CrossInv, LoadedKnown
<1>7. BehindOnPage'
  BY <1>2, <1>3 DEF CrossInv, BehindOnPage, At, InPhase, Busy
<1> QED BY <1>4, <1>5, <1>6, <1>7 DEF CrossInv

(* What a worker that leaves does to the others: it is behind nobody, and   *)
(* puts behind it only workers on its own page.                             *)
LEMMA LeavesBehind ==
    ASSUME Inv, CrossInv, NEW w \in Workers, NEW written \in BOOLEAN, Leaves(w, written)
    PROVE  /\ worker'[w].page = NoPage /\ worker'[w].phase = "idle" /\ worker'[w].before = {}
           /\ \A v \in Workers \ {w} :
                 /\ worker'[v].page = worker[v].page /\ worker'[v].phase = worker[v].phase
                 /\ worker'[v].match = worker[v].match
                 /\ worker'[v].before = worker[v].before \ {w}
                 /\ worker[v].page # worker[w].page => worker'[v].behind = worker[v].behind
<1>0. worker \in [Workers -> Worker]
  BY DEF Inv, Domains
<1>1. worker'[w] = Idle
  BY <1>0, LeavesType
<1>2. ASSUME NEW v \in Workers \ {w}
      PROVE  /\ worker'[v].before = worker[v].before \ {w}
             /\ worker[v].page # worker[w].page => worker'[v].behind = worker[v].behind
  <2>1. PICK t \in Worker : t = worker[v]
    BY <1>0
  <2>2. PICK b \in BOOLEAN : b = (worker[v].behind \/ (written /\ v \in worker[w].before))
    OBVIOUS
  <2>3. PICK B : B = worker[v].before \ {w}
    OBVIOUS
  <2>4. worker'[v] = [t EXCEPT !.before = B, !.behind = b]
    BY <2>1, <2>2, <2>3 DEF Leaves
  <2>5. worker'[v].before = B /\ worker'[v].behind = b
    BY <2>4 DEF Worker
  <2>6. v \in worker[w].before => worker[v].page = worker[w].page
    BY DEF CrossInv, BehindOnPage, At
  <2> QED BY <2>1, <2>2, <2>3, <2>5, <2>6 DEF Worker
<1> QED BY <1>0, <1>1, <1>2, LeavesType DEF Idle

(* A worker leaves, and its page is written or not: the rest of the         *)
(* invariant, for a page whose prices agree or that stays crossed.          *)
LEMMA CrossLeaves ==
    ASSUME Inv, CrossInv, NEW w \in Workers, NEW written \in BOOLEAN, Leaves(w, written),
           worker[w].page \in Pages, UNCHANGED <<queue, counted>>,
           history'.late = history.late,
           \A x \in Pages : x # worker[w].page => page'[x] = page[x],
           \A x \in Pages :
              x # worker[w].page => (x \in history'.crossed <=> x \in history.crossed),
           page'[worker[w].page].match # "absent",
           LET p == worker[w].page
           IN  \/ p \in history'.crossed
               \/ /\ page'[p].shown = page'[p].newest
                  /\ \/ p \notin history.crossed
                     \/ (\A v \in Workers : At(v) = p => v = w) /\ ~Contains(queue, p)
    PROVE  CrossInv'
<1>0. PICK p \in Pages : p = worker[w].page
  OBVIOUS
<1>1. /\ worker'[w].page = NoPage /\ worker'[w].phase = "idle" /\ worker'[w].before = {}
      /\ \A v \in Workers \ {w} :
            /\ worker'[v].page = worker[v].page /\ worker'[v].phase = worker[v].phase
            /\ worker'[v].match = worker[v].match
            /\ worker'[v].before = worker[v].before \ {w}
            /\ worker[v].page # p => worker'[v].behind = worker[v].behind
  BY <1>0, LeavesBehind
<1>2. NoPage \notin Pages
  BY PagesAssumption
<1>3. ASSUME NEW x \in Pages, x # p PROVE Uncrossed(x)'
  <2>1. Uncrossed(x)
    BY DEF CrossInv
  <2>2. \A v \in Workers : worker'[v].page = x =>
           v # w /\ worker[v].page = x /\ worker'[v].behind = worker[v].behind
    BY <1>1, <1>2, <1>3
  <2>3. OneRun(x) => OneRun(x)'
    BY <2>2 DEF OneRun, At
  <2>4. CountedNone(x) => CountedNone(x)'
    BY <2>2 DEF CountedNone, At
  <2>5. NoneBehind(x) => NoneBehind(x)'
    BY <2>2 DEF NoneBehind, At
  <2> QED BY <1>0, <1>3, <2>1, <2>3, <2>4, <2>5 DEF Uncrossed
<1>4. Uncrossed(p)'
  <2>1. CASE p \in history'.crossed
    BY <2>1 DEF Uncrossed
  <2>2. CASE p \notin history'.crossed
    <3>1. /\ \A v \in Workers : At(v) = p => v = w
          /\ ~Contains(queue, p)
      <4>1. CASE p \notin history.crossed
        <5>1. OneRun(p)
          BY <4>1 DEF CrossInv, Uncrossed
        <5> QED BY <1>0, <5>1 DEF OneRun, At
      <4> QED BY <1>0, <2>2, <4>1
    <3>2. \A v \in Workers : worker'[v].page # p
      BY <1>1, <1>2, <3>1 DEF At
    <3>3. Once(queue, p)'
      BY <3>1 DEF Once, Contains
    <3>4. /\ OneRun(p)'
          /\ CountedNone(p)'
          /\ NoneBehind(p)'
      BY <3>1, <3>2, <3>3 DEF OneRun, CountedNone, NoneBehind, At
    <3> QED BY <1>0, <2>2, <3>4 DEF Uncrossed
  <2> QED BY <2>1, <2>2
<1>5. \A x \in Pages : Untouched(x)'
  BY <1>0, <1>1, <1>2 DEF CrossInv, Untouched, At
<1>6. LoadedKnown'
  BY <1>1 DEF CrossInv, LoadedKnown
<1>7. BehindOnPage'
  BY <1>1 DEF CrossInv, BehindOnPage, At, InPhase
<1> QED BY <1>0, <1>3, <1>4, <1>5, <1>6, <1>7 DEF CrossInv

LEMMA CrossFails ==
    ASSUME Inv, CrossInv, NEW w \in Workers, FetchFails(w) \/ CheckFails(w) \/ Dies(w)
    PROVE  CrossInv'
<1>0. page \in [Pages -> Page] /\ worker[w].page \in Pages
  BY DEF FetchFails, CheckFails, Dies, InPhase, Inv, Domains, AtWork
<1> DEFINE p == worker[w].page
<1>1. Leaves(w, FALSE) /\ UNCHANGED <<queue, counted, history>>
  BY DEF FetchFails, CheckFails, Dies, FailRun
<1>2. page[p].match # "absent"
  BY <1>0 DEF CrossInv, Untouched, At
<1>3. /\ page'[p].match # "absent"
      /\ page'[p].shown = page[p].shown /\ page'[p].newest = page[p].newest
      /\ \A x \in Pages : x # p => page'[x] = page[x]
  <2>1. CASE Dies(w)
    BY <1>2, <2>1 DEF Dies
  <2>2. CASE FetchFails(w) \/ CheckFails(w)
    <3>1. FailRun(w)
      BY <2>2 DEF FetchFails, CheckFails
    <3>2. PICK f \in Page : /\ page' = [page EXCEPT ![p] = f] /\ f = FailedPage(p)
                            /\ f.match = page[p].match \/ f.match = "broken"
      BY <1>0, <3>1, FailRunEffect DEF Inv
    <3>3. f.shown = page[p].shown /\ f.newest = page[p].newest
      <4>1. PICK t, n, m : /\ f = [t EXCEPT !.failures = n, !.due = FALSE, !.match = m]
                            /\ t \in Page /\ t = page[p]
        <5>1. PICK t \in Page : t = page[p]
          BY <1>0
        <5> QED BY <3>2, <5>1 DEF FailedPage
      <4> QED BY <4>1 DEF Page
    <3> QED BY <1>0, <1>2, <3>2, <3>3
  <2> QED BY <2>1, <2>2
<1>4. Uncrossed(p)
  BY <1>0 DEF CrossInv
<1> QED BY <1>0, <1>1, <1>3, <1>4, CrossLeaves DEF Uncrossed

LEMMA CrossPersists ==
    ASSUME Inv, CrossInv, NEW w \in Workers, PersistObservation(w)
    PROVE  CrossInv'
<1>0. /\ page \in [Pages -> Page] /\ history \in History /\ worker[w].page \in Pages
      /\ worker[w].phase = "observed"
  BY DEF PersistObservation, InPhase, Inv, Domains, AtWork
<1> DEFINE p == worker[w].page
<1>1. Leaves(w, TRUE) /\ UNCHANGED <<queue, counted>>
  BY DEF PersistObservation
<1>2. PICK suggestion \in {"unmatched", "suggested"} :
        page' = [page EXCEPT ![p] =
          [match |-> MatchAfter(w, suggestion), product |-> page[p].product, failures |-> 0,
           due |-> FALSE, observed |-> "fresh", shown |-> worker[w].price,
           newest |-> IF worker[w].behind THEN page[p].newest ELSE worker[w].price]]
  BY <1>0 DEF PersistObservation, At
<1>3. /\ page'[p].match = MatchAfter(w, suggestion)
      /\ page'[p].shown = worker[w].price
      /\ page'[p].newest = IF worker[w].behind THEN page[p].newest ELSE worker[w].price
      /\ \A x \in Pages : x # p => page'[x] = page[x]
  BY <1>0, <1>2
<1>4. MatchAfter(w, suggestion) # "absent"
  <2>1. worker[w].match # "absent"
    BY <1>0 DEF CrossInv, LoadedKnown
  <2> QED BY <2>1 DEF MatchAfter
<1>5. /\ history'.late = history.late
      /\ history'.crossed = IF Busy(p) = {w} /\ ~Contains(queue, p) /\ ~worker[w].behind
                            THEN history.crossed \ {p} ELSE history.crossed
  <2>1. PICK h \in History : h = history
    BY <1>0
  <2>2. PICK o, r, c :
          /\ history' = [h EXCEPT !.overtaken = o, !.raced = r, !.crossed = c]
          /\ c = IF Busy(p) = {w} /\ ~Contains(queue, p) /\ ~worker[w].behind
                 THEN history.crossed \ {p} ELSE history.crossed
    BY <2>1 DEF PersistObservation, At
  <2> QED BY <2>1, <2>2 DEF History
<1>6. \/ p \in history'.crossed
      \/ /\ page'[p].shown = page'[p].newest
         /\ \/ p \notin history.crossed
            \/ (\A v \in Workers : At(v) = p => v = w) /\ ~Contains(queue, p)
  <2>1. CASE p \notin history.crossed
    <3>1. NoneBehind(p)
      BY <1>0, <2>1 DEF CrossInv, Uncrossed
    <3> QED BY <1>3, <2>1, <3>1 DEF NoneBehind, At
  <2>2. CASE p \in history.crossed
    BY <1>3, <1>5, <2>2 DEF Busy
  <2> QED BY <2>1, <2>2
<1> QED BY <1>0, <1>1, <1>3, <1>4, <1>5, <1>6, CrossLeaves

(* The price shown is the newest, for any number of workers and pages,      *)
(* until two callers that had both counted no run let two checks overlap,   *)
(* and again once a check without a rival has written.                      *)
THEOREM NewestIsAlwaysShown == Spec => []NewestIsShown
<1>1. Init => CrossInv
  <2> SUFFICES ASSUME Init PROVE CrossInv
    OBVIOUS
  <2>1. \A p \in Pages : ~Contains(queue, p) /\ Once(queue, p)
    BY DEF Init, Contains, Once
  <2>2. \A w \in Workers : /\ worker[w].phase = "idle" /\ worker[w].before = {}
                           /\ worker[w].page \notin Pages
    BY PagesAssumption DEF Init, Idle
  <2>3. \A p \in Pages : page[p].shown = page[p].newest /\ ~page[p].due
    BY DEF Init, NewPage
  <2>4. counted = {}
    BY DEF Init
  <2> QED BY <2>1, <2>2, <2>3, <2>4 DEF CrossInv, Uncrossed, OneRun, CountedNone, NoneBehind,
        Untouched, BehindOnPage, LoadedKnown, At
<1>2. Inv /\ CrossInv /\ [Next]_vars => CrossInv'
  <2> SUFFICES ASSUME Inv, CrossInv, [Next]_vars PROVE CrossInv'
    OBVIOUS
  <2>1. ASSUME NEW p \in Pages, \/ AddProduct(p) \/ AskForCheck(p) \/ EnqueueDue(p)
                                 \/ \E c \in Callers : QueueCheck(c, p)
        PROVE  CrossInv'
    BY <2>1, CrossCounts, CrossQueues
  <2>2. ASSUME NEW p \in Pages,
               \/ ComesDue(p) \/ GetsOld(p) \/ SelectStale(p) \/ MarkStale(p)
               \/ \E content \in Contents : SourceChanges(p, content)
               \/ \E review \in {"needs_review", "rejected", "confirmed", "product"} :
                     ReviewMatch(p, review)
        PROVE  CrossInv'
    <3>1. {"needs_review", "rejected", "confirmed", "product"} = Reviews \ {"none"}
      BY DEF Reviews
    <3> QED BY <2>2, <3>1, CrossPages
  <2>3. ASSUME NEW w \in Workers, ProcessNext(w) \/ CheckFails(w) \/ Dies(w)
        PROVE  CrossInv'
    BY <2>3, CrossClaims, CrossFetches, CrossFails, CrossPersists DEF ProcessNext
  <2>4. CASE UNCHANGED vars
    <3>1. UNCHANGED <<queue, counted, worker, page, history>>
      BY <2>4 DEF vars
    <3> QED BY <3>1, CrossQuiet
  <2> QED BY <2>1, <2>2, <2>3, <2>4 DEF Next
<1>3. CrossInv => NewestIsShown
  BY DEF CrossInv, Uncrossed, NewestIsShown
<1> QED BY <1>1, <1>2, <1>3, InvHolds, PTL DEF Spec
=============================================================================
