-------------------------- MODULE CompetitorChecks --------------------------
(***************************************************************************)
(* Watching competitors' product pages: pages are added and their match     *)
(* with a product of the catalogue reviewed by people, checks are queued by *)
(* them and by the scheduler, workers fetch the pages and write what they   *)
(* observed or that they failed, and a scan marks pages not observed for    *)
(* too long.  A worker reads the page's match when it loads the run and     *)
(* writes it back after the fetch, whatever was reviewed in between.        *)
(*                                                                         *)
(* Runs are kept by what they do: queued ones are the queue, running ones   *)
(* are at a worker or, when the worker died, lost.                          *)
(***************************************************************************)
EXTENDS Naturals, SequencesExt

CONSTANTS
    Pages,       \* competitor_products
    NoPage,      \* none of them: what an idle worker checks
    Contents,    \* what a page may show: [answers, ld, meta]
    Workers,
    Breaks,      \* failures in a row after which a page is broken: 3
    Bound,       \* how often each hazard may happen
    MostHazards  \* and all of them together

Hazards == {"source", "review", "ask", "fault", "crash"}

ASSUME PagesAssumption ==
    /\ NoPage \notin Pages
    /\ Contents # {}
    /\ Contents \subseteq [answers : BOOLEAN, ld : [named : BOOLEAN, price : Nat],
                            meta : [named : BOOLEAN, price : Nat]]
    /\ Breaks \in Nat \ {0}
    /\ Bound \in [Hazards -> Nat] /\ MostHazards \in Nat

VARIABLES
    page,     \* the rows of competitor_products, and each one's observations
    source,   \* what each page shows
    queue,    \* queued runs, the oldest first
    counted,  \* callers of QueueCheck that have counted no active run
    scanned,  \* pages MarkStale has selected and not updated yet
    worker,   \* what each worker holds in memory
    lost,     \* pages with a run that is left running
    history,  \* what the properties need to know of the past
    spent     \* hazards so far

vars == <<page, source, queue, counted, scanned, worker, lost, history, spent>>

Matches == {"absent", "unmatched", "suggested", "needs_review", "confirmed",
            "rejected", "stale", "broken"}
Callers == {"scheduler", "user"}

(* ExtractProduct: the JSON-LD product, when it has a name or an exact price *)
(* (0 stands for none, which is also what a range of prices leaves), and    *)
(* the meta tags otherwise.                                                *)
Said(data) == data.named \/ data.price # 0
ExtractProduct(content) == IF Said(content.ld) THEN content.ld ELSE content.meta
Extractable(content) == content.answers /\ Said(ExtractProduct(content))

Amounts == {0} \cup {ExtractProduct(content).price : content \in Contents}
Idle == [phase |-> "idle", page |-> NoPage, match |-> "absent", product |-> FALSE,
         price |-> 0, before |-> {}, behind |-> FALSE, old |-> FALSE]

(* product: confirmed_product_id is set, which is all that the engine asks. *)
(* observed: last_observed_at against freshness_minutes.  shown is the      *)
(* page's last price, newest that of its newest observation.                *)
TypeOK ==
    /\ page \in [Pages -> [match : Matches, product : BOOLEAN, failures : 0..Breaks,
                           due : BOOLEAN, observed : {"never", "fresh", "old"},
                           shown : Amounts, newest : Amounts]]
    /\ source \in [Pages -> Contents]
    /\ queue \in Seq(Pages)
    /\ counted \subseteq Callers \X Pages
    /\ scanned \subseteq Pages
    /\ worker \in [Workers -> [phase : {"idle", "claimed", "loaded", "observed"},
                               page : Pages \cup {NoPage}, match : Matches,
                               product : BOOLEAN, price : Amounts,
                               before : SUBSET Workers, behind : BOOLEAN,
                               old : BOOLEAN]]
    /\ lost \subseteq Pages
    /\ history \in [review : [Pages -> {"none", "needs_review", "rejected",
                                        "confirmed", "product"}],
                    overtaken : SUBSET Pages, raced : SUBSET Pages,
                    late : SUBSET (Callers \X Pages), crossed : SUBSET Pages]
    /\ spent \in [Hazards -> Nat]
    /\ \A p \in Pages : page[p].match = "broken" => page[p].failures = Breaks

NewPage == [match |-> "absent", product |-> FALSE, failures |-> 0, due |-> FALSE,
            observed |-> "never", shown |-> 0, newest |-> 0]

Init ==
    /\ page = [p \in Pages |-> NewPage]
    /\ source \in [Pages -> Contents]
    /\ queue = <<>> /\ counted = {} /\ scanned = {}
    /\ worker = [w \in Workers |-> Idle]
    /\ lost = {}
    /\ history = [review |-> [p \in Pages |-> "none"], overtaken |-> {},
                  raced |-> {}, late |-> {}, crossed |-> {}]
    /\ spent = [h \in Hazards |-> 0]

SpentSoFar == FoldFunction(+, 0, spent)

Spend(h) ==
    /\ spent[h] < Bound[h] /\ SpentSoFar < MostHazards
    /\ spent' = [spent EXCEPT ![h] = @ + 1]

Known(p) == page[p].match # "absent"
At(w) == worker[w].page
Busy(p) == {w \in Workers : At(w) = p}

(* Mutant: a run that a worker has started is not active any more.          *)
ActiveQueued(p) == Contains(queue, p)

Active(p) == Contains(queue, p) \/ Busy(p) # {} \/ p \in lost

-----------------------------------------------------------------------------
(***************************************************************************)
(* The competitor's site, and time.                                        *)
(***************************************************************************)
SourceChanges(p, content) ==
    /\ Spend("source")
    /\ content # source[p]
    /\ source' = [source EXCEPT ![p] = content]
    /\ UNCHANGED <<page, queue, counted, scanned, worker, lost, history>>

ComesDue(p) ==
    /\ Known(p) /\ ~page[p].due
    /\ page' = [page EXCEPT ![p].due = TRUE]
    /\ UNCHANGED <<source, queue, counted, scanned, worker, lost, history, spent>>

GetsOld(p) ==
    /\ page[p].observed = "fresh"
    /\ page' = [page EXCEPT ![p].observed = "old"]
    /\ UNCHANGED <<source, queue, counted, scanned, worker, lost, history, spent>>

-----------------------------------------------------------------------------
(***************************************************************************)
(* People.  AddProduct also asks for a check, in another transaction.       *)
(***************************************************************************)
AddProduct(p) ==
    /\ ~Known(p)
    /\ page' = [page EXCEPT ![p].match = "unmatched", ![p].due = TRUE]
    /\ counted' = counted \cup {<<"user", p>>}
    /\ UNCHANGED <<source, queue, scanned, worker, lost, history, spent>>

(* A review takes any match; only a confirmation with a product links one.  *)
ReviewMatch(p, review) ==
    /\ Spend("review")
    /\ Known(p)
    /\ page' = [page EXCEPT ![p].match = IF review = "product" THEN "confirmed" ELSE review,
                            ![p].product = review = "product"]
    /\ worker' = [w \in Workers |-> IF At(w) = p /\ worker[w].phase # "claimed"
                                    THEN [worker[w] EXCEPT !.old = TRUE] ELSE worker[w]]
    /\ history' = [history EXCEPT !.review[p] = review, !.overtaken = @ \ {p}]
    /\ UNCHANGED <<source, queue, counted, scanned, lost>>

(* QueueCheck counts the active runs and inserts in one transaction; a      *)
(* second caller may count before it commits.                              *)
CountRuns(c, p) ==
    /\ ~Active(p) /\ <<c, p>> \notin counted
    /\ counted' = counted \cup {<<c, p>>}
    /\ UNCHANGED <<page, source, queue, scanned, worker, lost, history>>

AskForCheck(p) == Known(p) /\ Spend("ask") /\ CountRuns("user", p)

QueueCheck(c, p) ==
    /\ <<c, p>> \in counted
    /\ counted' = counted \ {<<c, p>>}
    /\ queue' = Append(queue, p)
    /\ history' = [history EXCEPT
          !.late = (@ \cup {x \in counted : x[2] = p}) \ {<<c, p>>},
          !.crossed = IF <<c, p>> \in history.late THEN @ \cup {p} ELSE @]
    /\ UNCHANGED <<page, source, scanned, worker, lost, spent>>

-----------------------------------------------------------------------------
(***************************************************************************)
(* RunWorker's two scans.                                                  *)
(***************************************************************************)
(* Mutant: a broken page is left to the user.                               *)
DueUnlessBroken(p) == page[p].due /\ page[p].match \notin {"rejected", "broken"}

Due(p) == page[p].due /\ page[p].match # "rejected"

EnqueueDue(p) == Due(p) /\ CountRuns("scheduler", p) /\ UNCHANGED spent

(* Mutant: a page is taken for old when its next check is due.              *)
OldWhenDue(p) == page[p].due

Old(p) == page[p].observed # "fresh"

SelectStale(p) ==
    /\ Known(p) /\ page[p].match \notin {"rejected", "broken"}
    /\ Old(p)
    /\ p \notin scanned
    /\ scanned' = scanned \cup {p}
    /\ UNCHANGED <<page, source, queue, counted, worker, lost, history, spent>>

(* Mutant: what a person confirmed is marked as well.                       *)
UnlessRejected(p) == page[p].match # "rejected"

StaysAsReviewed(p) == page[p].match \notin {"confirmed", "rejected"}

(* The update looks at the match again and not at the observation.          *)
MarkStale(p) ==
    /\ p \in scanned
    /\ scanned' = scanned \ {p}
    /\ page' = IF StaysAsReviewed(p) THEN [page EXCEPT ![p].match = "stale"] ELSE page
    /\ UNCHANGED <<source, queue, counted, worker, lost, history, spent>>

-----------------------------------------------------------------------------
(***************************************************************************)
(* A worker.                                                               *)
(***************************************************************************)
InPhase(w, phase) == worker[w].phase = phase

(* The run ends with the worker's part in it, written or not.           *)
Leaves(w, written) ==
    worker' = [v \in Workers |-> IF v = w THEN Idle ELSE
        [worker[v] EXCEPT !.before = @ \ {w}, !.behind = @ \/ (written /\ v \in worker[w].before)]]

Claim(w) ==
    /\ InPhase(w, "idle") /\ queue # <<>>
    /\ queue' = Tail(queue)
    /\ worker' = [worker EXCEPT ![w] = [Idle EXCEPT !.phase = "claimed", !.page = Head(queue)]]
    /\ UNCHANGED <<page, source, counted, scanned, lost, history, spent>>

LoadTask(w) ==
    /\ InPhase(w, "claimed")
    /\ worker' = [worker EXCEPT ![w].phase = "loaded", ![w].match = page[At(w)].match,
                                ![w].product = page[At(w)].product]
    /\ UNCHANGED <<page, source, queue, counted, scanned, lost, history, spent>>

(* The page answers, and persistObservation takes the time: what others     *)
(* fetched of it before and have not written yet is older.                 *)
Fetch(w) ==
    /\ InPhase(w, "loaded") /\ Extractable(source[At(w)])
    /\ worker' = [worker EXCEPT ![w].phase = "observed",
          ![w].price = ExtractProduct(source[At(w)]).price,
          ![w].before = {v \in Busy(At(w)) : InPhase(v, "observed")}]
    /\ UNCHANGED <<page, source, queue, counted, scanned, lost, history, spent>>

(* What a check makes of the match it has loaded.                           *)
MatchAfter(w, suggestion) ==
    IF worker[w].product THEN "confirmed"
    ELSE IF worker[w].match \in {"unmatched", "suggested", "stale", "broken"} THEN suggestion
    ELSE worker[w].match

(* persistObservation.  The newest observation is the one with the latest   *)
(* time; the page has the price of the last one written.                   *)
PersistObservation(w) ==
    LET p == At(w) IN
    /\ InPhase(w, "observed")
    /\ \E suggestion \in {"unmatched", "suggested"} :
          page' = [page EXCEPT ![p] =
              [match |-> MatchAfter(w, suggestion), product |-> @.product, failures |-> 0,
               due |-> FALSE, observed |-> "fresh", shown |-> worker[w].price,
               newest |-> IF worker[w].behind THEN @.newest ELSE worker[w].price]]
    /\ Leaves(w, TRUE)
    /\ history' = [history EXCEPT
          !.overtaken = IF worker[w].old THEN @ \cup {p} ELSE @,
          !.raced = IF p \in scanned THEN @ \cup {p} ELSE @ \ {p},
          !.crossed = IF Busy(p) = {w} /\ ~Contains(queue, p) /\ ~worker[w].behind
                      THEN @ \ {p} ELSE @]
    /\ UNCHANGED <<source, queue, counted, scanned, lost, spent>>

Breaking(failures) == failures >= Breaks

(* failRun reads the page anew; a rejected page is not broken.              *)
FailRun(w) ==
    LET p == At(w)
        failures == Min({Breaks, page[p].failures + 1})
    IN
    /\ page' = [page EXCEPT ![p].failures = failures, ![p].due = FALSE,
          ![p].match = IF Breaking(failures) /\ @ # "rejected" THEN "broken" ELSE @]
    /\ Leaves(w, FALSE)

FetchFails(w) ==
    /\ InPhase(w, "loaded") /\ ~Extractable(source[At(w)])
    /\ FailRun(w)
    /\ UNCHANGED <<source, queue, counted, scanned, lost, history, spent>>

(* loadTask or persistObservation fails.                                    *)
CheckFails(w) ==
    /\ Spend("fault")
    /\ ~InPhase(w, "idle")
    /\ FailRun(w)
    /\ UNCHANGED <<source, queue, counted, scanned, lost, history>>

(* The process ends, or failRun's own transaction fails, which is ignored:  *)
(* the run is left running, and nothing looks for it.                      *)
Dies(w) ==
    /\ Spend("crash")
    /\ ~InPhase(w, "idle")
    /\ lost' = lost \cup {At(w)}
    /\ Leaves(w, FALSE)
    /\ UNCHANGED <<page, source, queue, counted, scanned, history>>

ProcessNext(w) ==
    \/ Claim(w) \/ LoadTask(w) \/ Fetch(w) \/ FetchFails(w) \/ PersistObservation(w)

Next ==
    \/ \E p \in Pages :
          \/ AddProduct(p) \/ ComesDue(p) \/ GetsOld(p) \/ AskForCheck(p)
          \/ EnqueueDue(p) \/ SelectStale(p) \/ MarkStale(p)
          \/ \E content \in Contents : SourceChanges(p, content)
          \/ \E review \in {"needs_review", "rejected", "confirmed", "product"} :
                ReviewMatch(p, review)
          \/ \E c \in Callers : QueueCheck(c, p)
    \/ \E w \in Workers : ProcessNext(w) \/ CheckFails(w) \/ Dies(w)

Spec == Init /\ [][Next]_vars

(* RunWorker's tickers, the scheduler's own calls, and time.                *)
Fairness ==
    /\ \A w \in Workers : WF_vars(ProcessNext(w))
    /\ \A p \in Pages : /\ WF_vars(ComesDue(p)) /\ WF_vars(EnqueueDue(p))
                        /\ WF_vars(QueueCheck("scheduler", p))

FairSpec == Spec /\ Fairness

-----------------------------------------------------------------------------
(***************************************************************************)
(* Properties.                                                             *)
(***************************************************************************)

(* What a person decided about a match stands: nothing is confirmed or      *)
(* rejected otherwise, what was rejected stays so, and a page linked to a   *)
(* product is confirmed, or broken while it cannot be fetched.  Except      *)
(* where a check that had loaded the page before the review has written     *)
(* after it, and where the stale scan selected the page before it broke.    *)
ReviewStands ==
    \A p \in Pages \ history.overtaken :
        /\ page[p].match = "rejected" <=> history.review[p] = "rejected"
        /\ page[p].match = "confirmed" => history.review[p] \in {"confirmed", "product"}
        /\ page[p].product => \/ page[p].match \in {"confirmed", "broken"}
                              \/ page[p].match = "stale" /\ page[p].failures = Breaks

(* The price listed with a page is the one the engine reads, that of the    *)
(* newest observation, unless two checks of the page overlapped because two *)
(* callers had both counted no active run.                                 *)
NewestIsShown ==
    \A p \in Pages \ history.crossed : page[p].shown = page[p].newest

(* A page marked stale has not been observed for its freshness window,      *)
(* unless a check wrote between the scan's selection and its update.        *)
StaleIsOld ==
    \A p \in Pages \ history.raced :
        page[p].match = "stale" => page[p].observed # "fresh"

(* A page that answers, is not rejected and has no run left running is      *)
(* observed again and again, and stops being broken.                       *)
KeepsChecking ==
    \A p \in Pages :
        <>[](Extractable(source[p]) /\ Known(p) /\ page[p].match # "rejected" /\ p \notin lost) =>
            []<>(page[p].observed = "fresh") /\ <>[](page[p].match # "broken")
=============================================================================
