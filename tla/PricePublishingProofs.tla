------------------------ MODULE PricePublishingProofs ------------------------
(***************************************************************************)
(* Proofs about PricePublishing for every value of its constants.          *)
(*                                                                         *)
(*   IInv          the types, and the agreement of the rows: it depends on *)
(*                 every busy worker still having a row to settle, which   *)
(*                 is why StatusAgreement speaks of the workers' tasks     *)
(*   ApprovalInv   what the terms of an approved request are               *)
(*   ClaimsInv     how many workers may hold a job, counted over workers   *)
(*   ReconcileInv  of one worker and no edits: the catalogue's price       *)
(*                                                                         *)
(* The refinement of GovernedPrices rests on the first two.                *)
(***************************************************************************)
EXTENDS PricePublishing, FiniteSetTheorems, TLAPS

IInv == TypeOK /\ StatusAgreement

USE DEF Active, None

-----------------------------------------------------------------------------
(* The engine recommends nothing but the current price, the floor, or the   *)
(* lowest price a trusted competitor asks.                                 *)
LEMMA EngineChoice ==
    ASSUME NEW in
    PROVE  \/ Engine(in).recommended \in {in.current, in.floor}
           \/ /\ LowestConfirmedInStock(in.signals) # None
              /\ Engine(in).recommended = LowestConfirmedInStock(in.signals)
<1> DEFINE low == LowestConfirmedInStock(in.signals)
<1>1. RaiseToFloor(in).recommended = in.floor
  BY DEF RaiseToFloor, Decision
<1>2. FollowMarket(in, low).recommended \in {in.current, low}
  BY DEF FollowMarket, Decision
<1>3. /\ Decision("pause", in.current).recommended = in.current
      /\ Decision("investigate", in.current).recommended = in.current
      /\ Decision("hold", in.current).recommended = in.current
  BY DEF Decision
<1>4. \/ Engine(in) \in {Decision("pause", in.current), Decision("investigate", in.current),
                         Decision("hold", in.current), RaiseToFloor(in)}
      \/ low # None /\ Engine(in) = FollowMarket(in, low)
  BY Zenon DEF Engine
<1> HIDE DEF low
<1> QED BY <1>1, <1>2, <1>3, <1>4 DEF low

(* The lowest competitor's price is a price that some signal carries.       *)
LEMMA LowestIsASignal ==
    ASSUME NEW lowest \in Prices \cup {None}
    PROVE  LowestConfirmedInStock(IF lowest = None THEN {}
               ELSE {[price |-> lowest, confident |-> TRUE]}) \in {None, lowest}
<1> DEFINE signals == IF lowest = None THEN {}
                      ELSE {[price |-> lowest, confident |-> TRUE]}
           trusted == {s.price : s \in {t \in signals : t.price > 0 /\ t.confident}}
<1>1. LowestConfirmedInStock(signals) =
          IF trusted = {} THEN None
          ELSE CHOOSE p \in trusted : \A q \in trusted : p <= q
  BY DEF LowestConfirmedInStock
<1>2. trusted \subseteq {lowest}
  OBVIOUS
<1>3. trusted # {} => lowest \in Nat
  BY PublishingAssumption
<1>4. trusted # {} => (CHOOSE p \in trusted : \A q \in trusted : p <= q) = lowest
  <2> HAVE trusted # {}
  <2>1. trusted = {lowest}
    BY <1>2
  <2> HIDE DEF trusted
  <2>2. \E p \in trusted : \A q \in trusted : p <= q
    BY <2>1, <1>3
  <2> QED BY <2>1, <2>2
<1> HIDE DEF trusted
<1> QED BY <1>1, <1>4

(* What the engine answers about an item is one of the prices.              *)
LEMMA DecideIsAPrice ==
    ASSUME TypeOK, NEW i \in Items, NEW lowest \in Prices \cup {None},
           NEW fresh \in BOOLEAN
    PROVE  Decide(i, lowest, fresh).recommended \in Prices
<1> DEFINE signals == IF lowest = None THEN {}
                      ELSE {[price |-> lowest, confident |-> TRUE]}
           in == [current |-> catalog[i], floor |-> floors[i], ceiling |-> Ceiling,
                  guardrail |-> Guardrail, locked |-> FALSE, fresh |-> fresh,
                  signals |-> signals]
<1>1. Decide(i, lowest, fresh) = Engine(in)
  BY DEF Decide
<1>2. /\ in.current \in Prices /\ in.floor \in Prices
      /\ in.signals = signals
  BY DEF TypeOK
<1>3. LowestConfirmedInStock(signals) \in {None, lowest}
  BY LowestIsASignal
<1> HIDE DEF signals, in
<1> QED BY <1>1, <1>2, <1>3, EngineChoice

-----------------------------------------------------------------------------
(* What the steps have in common *)

(* A step that leaves the rows alone and only moves tasks along, or drops   *)
(* them, keeps the rows in agreement.                                      *)
LEMMA RowsUntouched ==
    ASSUME StatusAgreement, UNCHANGED <<req, exec, roll>>,
           \A w \in Workers : worker'[w].pc # "idle" =>
               /\ worker[w].pc # "idle"
               /\ worker'[w].job = worker[w].job
               /\ worker'[w].kind = worker[w].kind
    PROVE  StatusAgreement'
<1>1. \A r \in Requests : RowsAgree(r)'
  BY DEF StatusAgreement, RowsAgree
<1>2. \A w \in Workers : TaskHasRow(w)'
  BY DEF StatusAgreement, TaskHasRow
<1> QED BY <1>1, <1>2 DEF StatusAgreement

(* A busy worker's job has an approved recommendation behind it.            *)
LEMMA TaskHasTerms ==
    ASSUME IInv, NEW w \in Workers, worker[w].pc # "idle"
    PROVE  /\ worker[w] \in Tasks \ {Idle}
           /\ worker[w].job \in Requests
           /\ exec[worker[w].job].status # "none"
           /\ req[worker[w].job] \in RequestRows \ {NoRequest}
           /\ req[worker[w].job].row \in Rows
           /\ req[worker[w].job].status \notin {"none", "pending", "rejected", "expired"}
           /\ Item(w) \in Items /\ From(w) \in Prices /\ To(w) \in Prices
<1>1. worker[w] \in Tasks \ {Idle}
  BY DEF IInv, TypeOK, Idle
<1>2. worker[w].job \in Requests
  BY <1>1 DEF Tasks
<1>3. exec[worker[w].job].status # "none"
  BY <1>2 DEF IInv, StatusAgreement, TaskHasRow, RowsAgree
<1>4. req[worker[w].job].status \notin {"none", "pending", "rejected", "expired"}
  BY <1>2, <1>3 DEF IInv, StatusAgreement, RowsAgree
<1>5. req[worker[w].job] \in RequestRows \ {NoRequest}
  BY <1>2, <1>4 DEF IInv, TypeOK, NoRequest
<1>6. req[worker[w].job].row \in Rows
  BY <1>5 DEF RequestRows
<1>7. Item(w) \in Items /\ From(w) \in Prices /\ To(w) \in Prices
  BY <1>6 DEF Item, From, To, Rows
<1> QED BY <1>1, <1>2, <1>3, <1>4, <1>5, <1>6, <1>7

(* Rows are never removed, so a task that goes on still has its row.        *)
LEMMA RowsRemain ==
    ASSUME IInv,
           \A r \in Requests :
               /\ exec[r].status # "none" => exec'[r].status # "none"
               /\ roll[r].status # "none" => roll'[r].status # "none",
           \A w \in Workers : worker'[w].pc # "idle" =>
               /\ worker[w].pc # "idle"
               /\ worker'[w].job = worker[w].job
               /\ worker'[w].kind = worker[w].kind
    PROVE  \A w \in Workers : TaskHasRow(w)'
<1> TAKE w \in Workers
<1> SUFFICES ASSUME worker'[w].pc # "idle" PROVE TaskHasRow(w)'
  BY DEF TaskHasRow
<1>1. worker[w].job \in Requests /\ TaskHasRow(w)
  BY TaskHasTerms DEF IInv, StatusAgreement
<1> QED BY <1>1 DEF TaskHasRow

(* Marking tasks as raced changes nothing else of them.                     *)
LEMMA MarkRacedKeeps ==
    ASSUME NEW ws \in [Workers -> Tasks], NEW i
    PROVE  /\ MarkRaced(ws, i) \in [Workers -> Tasks]
           /\ \A w \in Workers : /\ MarkRaced(ws, i)[w].pc = ws[w].pc
                                 /\ MarkRaced(ws, i)[w].kind = ws[w].kind
                                 /\ MarkRaced(ws, i)[w].job = ws[w].job
                                 /\ MarkRaced(ws, i)[w].outcome = ws[w].outcome
<1>1. \A w \in Workers : ws[w].pc \in {"write", "verify", "settle"}
                           => ws[w] \in Tasks \ {Idle}
  BY DEF Idle
<1>2. \A t \in Tasks \ {Idle} : /\ [t EXCEPT !.raced = TRUE] \in Tasks
                                /\ [t EXCEPT !.raced = TRUE].pc = t.pc
                                /\ [t EXCEPT !.raced = TRUE].kind = t.kind
                                /\ [t EXCEPT !.raced = TRUE].job = t.job
                                /\ [t EXCEPT !.raced = TRUE].outcome = t.outcome
  BY DEF Tasks
<1> QED BY <1>1, <1>2 DEF MarkRaced

(* The counters of the bounds stay numbers.                                 *)
LEMMA SpendKeeps ==
    ASSUME spent \in [Hazards -> Nat], NEW h \in Hazards, Spend(h)
    PROVE  spent' \in [Hazards -> Nat]
BY DEF Spend

-----------------------------------------------------------------------------
(* The initial states satisfy the invariant.                                *)
LEMMA InitOK == Init => IInv
<1> SUFFICES ASSUME Init PROVE TypeOK /\ StatusAgreement
  BY DEF IInv
<1> USE DEF Init, NoRequest, NoExecution, NoRollback, Idle
<1>1. /\ catalog \in [Items -> Prices]
      /\ floors \in [Items -> Prices]
      /\ store \in [Items -> [regular : Prices, sale : Prices \cup {None}]]
  BY PublishingAssumption
<1>2. req \in [Requests -> RequestRows]
  BY DEF RequestRows
<1>3. exec \in [Requests -> ExecutionRows] /\ roll \in [Requests -> RollbackRows]
  BY DEF ExecutionRows, RollbackRows, ExecutionStatus, RollbackStatus
<1>4. worker \in [Workers -> Tasks]
  BY DEF Tasks
<1>5. TypeOK
  BY <1>1, <1>2, <1>3, <1>4 DEF TypeOK
<1>6. StatusAgreement
  BY DEF StatusAgreement, RowsAgree, TaskHasRow
<1> QED BY <1>5, <1>6

-----------------------------------------------------------------------------
(* Recommendations, requests, queueing *)

(* A recommendation row holds the platform's prices only.                   *)
LEMMA GenerateOK ==
    ASSUME IInv, NEW i \in Items, Generate(i) PROVE IInv'
<1>1. PICK lowest \in Prices \cup {None}, fresh \in BOOLEAN :
        inbox' \subseteq inbox \cup {Row(i, lowest, Decide(i, lowest, fresh).recommended)}
  BY DEF Generate
<1>2. Row(i, lowest, Decide(i, lowest, fresh).recommended) \in Rows
  BY DecideIsAPrice DEF IInv, TypeOK, Row, Rows
<1>3. spent' \in [Hazards -> Nat]
  BY SpendKeeps DEF IInv, TypeOK, Generate, Hazards
<1>4. UNCHANGED <<catalog, floors, store, req, exec, roll, worker, calls, switch>>
  BY DEF Generate
<1>5. TypeOK'
  BY <1>1, <1>2, <1>3, <1>4 DEF IInv, TypeOK
<1>6. StatusAgreement'
  BY <1>4, RowsUntouched DEF IInv
<1> QED BY <1>5, <1>6 DEF IInv

(* An expired request keeps its status and its recommendation.              *)
LEMMA ExpiredKeeps ==
    ASSUME IInv, NEW r \in Requests, Awaited(r)
    PROVE  Expired(r) \in RequestRows /\ Expired(r).status = req[r].status
<1>1. req[r] \in RequestRows \ {NoRequest}
  BY DEF IInv, TypeOK, Awaited, NoRequest
<1> QED BY <1>1 DEF RequestRows, Expired

(* An expiring row changes the freshness of requests, not their status.     *)
LEMMA RecommendationExpiresOK ==
    ASSUME IInv, NEW row \in inbox, RecommendationExpires(row) PROVE IInv'
<1>1. req' \in [Requests -> RequestRows]
  BY ExpiredKeeps DEF IInv, TypeOK, RecommendationExpires
<1>2. TypeOK'
  BY <1>1 DEF IInv, TypeOK, RecommendationExpires
<1>3. \A r \in Requests : req'[r].status = req[r].status
  BY ExpiredKeeps DEF RecommendationExpires
<1>4. StatusAgreement'
  BY <1>3 DEF IInv, StatusAgreement, RowsAgree, TaskHasRow, RecommendationExpires
<1> QED BY <1>2, <1>4 DEF IInv

(* Likewise when only a request expires.                                    *)
LEMMA RequestExpiresOK ==
    ASSUME IInv, NEW r \in Requests, RequestExpires(r) PROVE IInv'
<1>1. TypeOK'
  BY ExpiredKeeps DEF IInv, TypeOK, RequestExpires
<1>2. \A q \in Requests : req'[q].status = req[q].status
  BY ExpiredKeeps DEF IInv, TypeOK, RequestExpires
<1>3. StatusAgreement'
  BY <1>2 DEF IInv, StatusAgreement, RowsAgree, TaskHasRow, RequestExpires
<1> QED BY <1>1, <1>3 DEF IInv

(* expireStale moves pending requests, which have no execution, and         *)
(* approved ones, which may, without contradicting the execution's row.     *)
LEMMA ExpireStaleOK == ASSUME IInv, ExpireStale PROVE IInv'
<1>1. \A r \in Requests :
         Awaited(r) => [req[r] EXCEPT !.status = IF @ = "pending" THEN "expired"
                                                 ELSE "failed"] \in RequestRows
  <2> TAKE r \in Requests
  <2> HAVE Awaited(r)
  <2>1. req[r] \in RequestRows \ {NoRequest}
    BY DEF IInv, TypeOK, Awaited, NoRequest
  <2> QED BY <2>1 DEF RequestRows, RequestStatus
<1>2. req' \in [Requests -> RequestRows]
  BY <1>1 DEF IInv, TypeOK, ExpireStale
<1>3. exec' \in [Requests -> ExecutionRows]
  BY DEF IInv, TypeOK, ExpireStale, ExecutionRows, ExecutionStatus
<1>4. TypeOK'
  BY <1>2, <1>3 DEF IInv, TypeOK, ExpireStale
<1>5. \A r \in Requests :
         /\ \/ req'[r].status = req[r].status
            \/ req[r].status = "pending" /\ req'[r].status = "expired"
            \/ req[r].status = "approved" /\ req'[r].status = "failed"
         /\ \/ exec'[r].status = exec[r].status
            \/ exec[r].status \in Active /\ exec'[r].status = "cancelled"
  <2> TAKE r \in Requests
  <2>1. Awaited(r) => req[r] \in RequestRows \ {NoRequest}
    BY DEF IInv, TypeOK, Awaited, NoRequest
  <2>2. exec[r] \in ExecutionRows
    BY DEF IInv, TypeOK
  <2> QED BY <2>1, <2>2 DEF ExpireStale, Awaited, RequestRows, ExecutionRows
<1>6. \A r \in Requests : RowsAgree(r)'
  BY <1>5 DEF IInv, StatusAgreement, RowsAgree, ExpireStale
<1>7. \A w \in Workers : TaskHasRow(w)'
  BY <1>5, RowsRemain DEF ExpireStale
<1> QED BY <1>4, <1>6, <1>7 DEF IInv, StatusAgreement

(* A new request has no execution.                                          *)
LEMMA SubmitOK ==
    ASSUME IInv, NEW r \in Requests, SubmitForApproval(r) PROVE IInv'
<1>1. PICK row \in inbox :
        /\ req[r].status = "none"
        /\ req' = [req EXCEPT ![r] = [status |-> "pending", row |-> row,
                                      by |-> NoRole, fresh |-> TRUE]]
        /\ UNCHANGED <<catalog, floors, store, inbox, exec, roll, worker, calls,
                       switch, spent>>
  BY DEF SubmitForApproval
<1>2. [status |-> "pending", row |-> row, by |-> NoRole, fresh |-> TRUE] \in RequestRows
  BY DEF RequestRows, RequestStatus, IInv, TypeOK
<1>3. TypeOK'
  BY <1>1, <1>2 DEF IInv, TypeOK
<1>4. \A q \in Requests : RowsAgree(q)'
  BY <1>1 DEF IInv, TypeOK, StatusAgreement, RowsAgree
<1>5. \A w \in Workers : TaskHasRow(w)'
  BY <1>1 DEF IInv, StatusAgreement, TaskHasRow
<1> QED BY <1>3, <1>4, <1>5 DEF IInv, StatusAgreement

(* Approving and rejecting move a pending request, for which nothing was    *)
(* executed.                                                               *)
LEMMA PendingRow ==
    ASSUME IInv, NEW r \in Requests, req[r].status = "pending"
    PROVE  req[r] \in RequestRows \ {NoRequest}
BY DEF IInv, TypeOK, NoRequest

(* An approved request may have no execution yet.                           *)
LEMMA ApproveOK ==
    ASSUME IInv, NEW r \in Requests, Approve(r) PROVE IInv'
<1>1. PICK role \in Roles :
        /\ req[r].status = "pending"
        /\ req' = [req EXCEPT ![r].status = "approved", ![r].by = role]
        /\ UNCHANGED <<catalog, floors, store, inbox, exec, roll, worker, calls,
                       switch, spent>>
  BY DEF Approve, Decidable
<1>2. [req[r] EXCEPT !.status = "approved", !.by = role] \in RequestRows
  BY <1>1, PendingRow DEF RequestRows, RequestStatus
<1>3. req' = [req EXCEPT ![r] = [req[r] EXCEPT !.status = "approved", !.by = role]]
  BY <1>1 DEF IInv, TypeOK
<1>4. TypeOK'
  BY <1>1, <1>2, <1>3 DEF IInv, TypeOK
<1>5. req'[r].status = "approved" /\ \A q \in Requests \ {r} : req'[q] = req[q]
  BY <1>3, <1>1, PendingRow DEF IInv, TypeOK, RequestRows
<1>6. \A q \in Requests : RowsAgree(q)'
  <2>1. exec' = exec /\ roll' = roll /\ req[r].status = "pending"
    BY <1>1
  <2> QED BY <1>5, <2>1 DEF IInv, StatusAgreement, RowsAgree
<1>7. \A w \in Workers : TaskHasRow(w)'
  BY <1>1 DEF IInv, StatusAgreement, TaskHasRow
<1> QED BY <1>4, <1>6, <1>7 DEF IInv, StatusAgreement

(* A rejected request had no execution.                                     *)
LEMMA RejectOK ==
    ASSUME IInv, NEW r \in Requests, Reject(r) PROVE IInv'
<1>1. /\ req[r].status = "pending"
      /\ req' = [req EXCEPT ![r] = [req[r] EXCEPT !.status = "rejected"]]
      /\ UNCHANGED <<catalog, floors, store, inbox, exec, roll, worker, calls,
                     switch, spent>>
  BY DEF Reject, Decidable
<1>2. [req[r] EXCEPT !.status = "rejected"] \in RequestRows
  BY <1>1, PendingRow DEF RequestRows, RequestStatus
<1>3. TypeOK'
  BY <1>1, <1>2 DEF IInv, TypeOK
<1>4. req'[r].status = "rejected" /\ \A q \in Requests \ {r} : req'[q] = req[q]
  BY <1>1, PendingRow DEF IInv, TypeOK, RequestRows
<1>5. \A q \in Requests : RowsAgree(q)'
  BY <1>1, <1>4 DEF IInv, StatusAgreement, RowsAgree
<1>6. \A w \in Workers : TaskHasRow(w)'
  BY <1>1 DEF IInv, StatusAgreement, TaskHasRow
<1> QED BY <1>3, <1>5, <1>6 DEF IInv, StatusAgreement

(* A handler that only read the switch changed no row.                      *)
LEMMA PassKillSwitchOK ==
    ASSUME IInv, NEW kind \in Kinds, NEW r \in Requests, PassKillSwitch(kind, r)
    PROVE  IInv'
<1>1. TypeOK'
  BY DEF IInv, TypeOK, PassKillSwitch
<1>2. StatusAgreement'
  BY RowsUntouched DEF IInv, PassKillSwitch
<1> QED BY <1>1, <1>2 DEF IInv

(* An execution row that exists still exists, and becomes queued only for   *)
(* an approved request.                                                    *)
LEMMA QueuePublishOK ==
    ASSUME IInv, NEW r \in Requests, QueuePublish(r) PROVE IInv'
<1>1. UNCHANGED <<catalog, floors, store, inbox, req, roll, worker, switch>>
  BY DEF QueuePublish
<1>2. /\ exec' \in [Requests -> ExecutionRows]
      /\ \/ exec' = exec
         \/ /\ req[r].status = "approved" /\ exec'[r].status = "queued"
            /\ \A q \in Requests \ {r} : exec'[q] = exec[q]
  <2>1. exec \in [Requests -> ExecutionRows]
    BY DEF IInv, TypeOK
  <2>2. /\ [exec[r] EXCEPT !.status = "queued"] \in ExecutionRows
        /\ [exec[r] EXCEPT !.status = "queued", !.sched = "later"] \in ExecutionRows
        /\ [exec[r] EXCEPT !.status = "queued"].status = "queued"
        /\ [exec[r] EXCEPT !.status = "queued", !.sched = "later"].status = "queued"
    BY <2>1 DEF ExecutionRows, ExecutionStatus
  <2>3. \/ exec' = exec
        \/ /\ req[r].status = "approved"
           /\ \/ exec' = [exec EXCEPT ![r] = [exec[r] EXCEPT !.status = "queued"]]
              \/ exec' = [exec EXCEPT ![r] = [exec[r] EXCEPT !.status = "queued",
                                                            !.sched = "later"]]
    BY DEF QueuePublish, Publishable
  <2> QED BY <2>1, <2>2, <2>3
<1>3. calls' \subseteq Kinds \X Requests
  BY DEF IInv, TypeOK, QueuePublish
<1>4. spent' \in [Hazards -> Nat]
  BY SpendKeeps DEF IInv, TypeOK, QueuePublish, Hazards
<1>5. TypeOK'
  BY <1>1, <1>2, <1>3, <1>4 DEF IInv, TypeOK
<1>6. \A q \in Requests : RowsAgree(q)'
  BY <1>1, <1>2 DEF IInv, StatusAgreement, RowsAgree
<1>7. \A w \in Workers : TaskHasRow(w)'
  BY <1>1, <1>2, RowsRemain
<1> QED BY <1>5, <1>6, <1>7 DEF IInv, StatusAgreement

(* A rollback is queued for an execution that exists.                       *)
LEMMA QueueRollbackOK ==
    ASSUME IInv, NEW r \in Requests, QueueRollback(r) PROVE IInv'
<1>1. UNCHANGED <<catalog, floors, store, inbox, req, exec, worker, switch>>
  BY DEF QueueRollback
<1>2. \/ roll' = roll
      \/ /\ exec[r].status = "succeeded"
         /\ roll' = [roll EXCEPT ![r] = [status |-> "queued", attempts |-> 0]]
  BY DEF QueueRollback
<1>3. roll' \in [Requests -> RollbackRows]
  BY <1>2 DEF IInv, TypeOK, RollbackRows, RollbackStatus
<1>4. calls' \subseteq Kinds \X Requests
  BY DEF IInv, TypeOK, QueueRollback
<1>5. spent' \in [Hazards -> Nat]
  BY SpendKeeps DEF IInv, TypeOK, QueueRollback, Hazards
<1>6. TypeOK'
  BY <1>1, <1>3, <1>4, <1>5 DEF IInv, TypeOK
<1>7. \A q \in Requests : \/ roll'[q].status = roll[q].status
                          \/ exec[q].status # "none" /\ roll'[q].status # "none"
  BY <1>2 DEF IInv, TypeOK
<1>8. \A q \in Requests : RowsAgree(q)'
  BY <1>1, <1>7 DEF IInv, StatusAgreement, RowsAgree
<1>9. \A w \in Workers : TaskHasRow(w)'
  BY <1>1, <1>7, RowsRemain
<1> QED BY <1>6, <1>8, <1>9 DEF IInv, StatusAgreement

(* Cancelling an active execution leaves its request approved, failed or    *)
(* open to the worker that still holds it.                                 *)
LEMMA EnableKillSwitchOK == ASSUME IInv, EnableKillSwitch PROVE IInv'
<1>1. \A r \in Requests : exec[r] \in ExecutionRows
  BY DEF IInv, TypeOK
<1>2. \A r \in Requests :
        /\ exec'[r] \in ExecutionRows
        /\ \/ exec'[r].status = exec[r].status
           \/ exec[r].status \in Active /\ exec'[r].status = "cancelled"
  <2> TAKE r \in Requests
  <2>1. \A n \in Nat : LET row == [exec[r] EXCEPT !.status = "cancelled", !.cancels = n]
                      IN  row \in ExecutionRows /\ row.status = "cancelled"
    BY <1>1 DEF ExecutionRows, ExecutionStatus
  <2>2. exec[r].cancels \in Nat /\ exec[r].cancels + 1 \in Nat
    BY <1>1 DEF ExecutionRows
  <2>3. CASE exec[r].status \in Active
    <3>1. \E n \in Nat : exec'[r] = [exec[r] EXCEPT !.status = "cancelled", !.cancels = n]
      BY <2>2, <2>3 DEF EnableKillSwitch
    <3> QED BY <2>1, <2>3, <3>1
  <2>4. CASE exec[r].status \notin Active
    BY <1>1, <2>4 DEF EnableKillSwitch
  <2> QED BY <2>3, <2>4
<1>3. exec' \in [Requests -> ExecutionRows]
  BY <1>2 DEF EnableKillSwitch
<1>4. spent' \in [Hazards -> Nat]
  BY SpendKeeps DEF IInv, TypeOK, EnableKillSwitch, Hazards
<1>5. TypeOK'
  BY <1>3, <1>4 DEF IInv, TypeOK, EnableKillSwitch
<1>6. \A r \in Requests : RowsAgree(r)'
  <2>1. req' = req /\ roll' = roll
    BY DEF EnableKillSwitch
  <2> QED BY <1>2, <2>1 DEF IInv, StatusAgreement, RowsAgree
<1>7. \A w \in Workers : TaskHasRow(w)'
  BY <1>2, RowsRemain DEF EnableKillSwitch
<1> QED BY <1>5, <1>6, <1>7 DEF IInv, StatusAgreement

(* Disabling the kill switch changes no row.                                *)
LEMMA DisableKillSwitchOK == ASSUME IInv, DisableKillSwitch PROVE IInv'
<1>1. TypeOK'
  BY DEF IInv, TypeOK, DisableKillSwitch
<1>2. StatusAgreement'
  BY RowsUntouched DEF IInv, DisableKillSwitch
<1> QED BY <1>1, <1>2 DEF IInv

-----------------------------------------------------------------------------
(* People, the clock, and faults *)

(* The tasks after MarkRaced are the tasks before it, but for the flag.     *)
LEMMA RacedTasks ==
    ASSUME IInv, NEW i, worker' = MarkRaced(worker, i)
    PROVE  /\ worker' \in [Workers -> Tasks]
           /\ \A w \in Workers : /\ worker'[w].pc = worker[w].pc
                                 /\ worker'[w].kind = worker[w].kind
                                 /\ worker'[w].job = worker[w].job
                                 /\ worker'[w].outcome = worker[w].outcome
BY MarkRacedKeeps DEF IInv, TypeOK

(* An edit of the store changes no row, and of the workers only the flag.   *)
LEMMA EditStoreOK ==
    ASSUME IInv, NEW i \in Items, EditStore(i) PROVE IInv'
<1>1. store' \in [Items -> [regular : Prices, sale : Prices \cup {None}]]
  BY DEF IInv, TypeOK, EditStore
<1>2. /\ worker' \in [Workers -> Tasks]
      /\ \A w \in Workers : /\ worker'[w].pc = worker[w].pc
                            /\ worker'[w].kind = worker[w].kind
                            /\ worker'[w].job = worker[w].job
                            /\ worker'[w].outcome = worker[w].outcome
  BY RacedTasks DEF EditStore
<1>3. spent' \in [Hazards -> Nat]
  BY SpendKeeps DEF IInv, TypeOK, EditStore, Hazards
<1>4. UNCHANGED <<catalog, floors, inbox, req, exec, roll, calls, switch>>
  BY DEF EditStore
<1>5. TypeOK'
  BY <1>1, <1>2, <1>3, <1>4 DEF IInv, TypeOK
<1>6. StatusAgreement'
  BY <1>2, <1>4, RowsUntouched DEF IInv
<1> QED BY <1>5, <1>6 DEF IInv

(* An edit of the pricing terms changes no row.                             *)
LEMMA EditTermsOK ==
    ASSUME IInv, NEW i \in Items, EditTerms(i) PROVE IInv'
<1>1. spent' \in [Hazards -> Nat]
  BY SpendKeeps DEF IInv, TypeOK, EditTerms, Hazards
<1>2. TypeOK'
  BY <1>1 DEF IInv, TypeOK, EditTerms
<1>3. StatusAgreement'
  BY RowsUntouched DEF IInv, EditTerms
<1> QED BY <1>2, <1>3 DEF IInv

(* The clock changes no status.                                             *)
LEMMA ScheduleArrivesOK ==
    ASSUME IInv, NEW r \in Requests, ScheduleArrives(r) PROVE IInv'
<1>1. exec \in [Requests -> ExecutionRows]
  BY DEF IInv, TypeOK
<1>2. /\ [exec[r] EXCEPT !.sched = "due"] \in ExecutionRows
      /\ [exec[r] EXCEPT !.sched = "due"].status = exec[r].status
  BY <1>1 DEF ExecutionRows
<1>3. /\ exec' = [exec EXCEPT ![r] = [exec[r] EXCEPT !.sched = "due"]]
      /\ UNCHANGED <<catalog, floors, store, inbox, req, roll, worker, calls, switch, spent>>
  BY DEF ScheduleArrives
<1>4. /\ exec' \in [Requests -> ExecutionRows]
      /\ \A q \in Requests : exec'[q].status = exec[q].status
  BY <1>1, <1>2, <1>3
<1>5. TypeOK'
  BY <1>3, <1>4 DEF IInv, TypeOK
<1>6. \A q \in Requests : RowsAgree(q)'
  BY <1>3, <1>4 DEF IInv, StatusAgreement, RowsAgree
<1>7. \A w \in Workers : TaskHasRow(w)'
  BY <1>3, <1>4, RowsRemain
<1> QED BY <1>5, <1>6, <1>7 DEF IInv, StatusAgreement

(* Age changes no status.                                                   *)
LEMMA ExecutionAgesOK ==
    ASSUME IInv, NEW r \in Requests, ExecutionAges(r) PROVE IInv'
<1>1. /\ exec \in [Requests -> ExecutionRows]
      /\ req \in [Requests -> RequestRows]
  BY DEF IInv, TypeOK
<1>2. /\ [exec[r] EXCEPT !.old = TRUE] \in ExecutionRows
      /\ [exec[r] EXCEPT !.old = TRUE].status = exec[r].status
  BY <1>1 DEF ExecutionRows
<1>3. /\ [req[r] EXCEPT !.fresh = FALSE] \in RequestRows
      /\ [req[r] EXCEPT !.fresh = FALSE].status = req[r].status
  <2>1. req[r].status # "none"
    BY DEF ExecutionAges, IInv, StatusAgreement, RowsAgree
  <2>2. req[r] \in RequestRows \ {NoRequest}
    BY <1>1, <2>1 DEF NoRequest
  <2> QED BY <2>2 DEF RequestRows
<1>4. /\ exec' = [exec EXCEPT ![r] = [exec[r] EXCEPT !.old = TRUE]]
      /\ req' = [req EXCEPT ![r] = [req[r] EXCEPT !.fresh = FALSE]]
      /\ UNCHANGED <<catalog, floors, store, inbox, roll, worker, calls, switch>>
  BY DEF ExecutionAges
<1>5. /\ exec' \in [Requests -> ExecutionRows]
      /\ req' \in [Requests -> RequestRows]
      /\ \A q \in Requests : /\ exec'[q].status = exec[q].status
                             /\ req'[q].status = req[q].status
  BY <1>1, <1>2, <1>3, <1>4
<1>6. spent' \in [Hazards -> Nat]
  BY SpendKeeps DEF IInv, TypeOK, ExecutionAges, Hazards
<1>7. TypeOK'
  BY <1>4, <1>5, <1>6 DEF IInv, TypeOK
<1>8. \A q \in Requests : RowsAgree(q)'
  BY <1>4, <1>5 DEF IInv, StatusAgreement, RowsAgree
<1>9. \A w \in Workers : TaskHasRow(w)'
  BY <1>4, <1>5, RowsRemain
<1> QED BY <1>7, <1>8, <1>9 DEF IInv, StatusAgreement

(* A dropped job leaves its rows as they are.                               *)
LEMMA DropJobOK ==
    ASSUME IInv, NEW w \in Workers, DropJob(w) PROVE IInv'
<1>1. /\ worker' \in [Workers -> Tasks]
      /\ \A v \in Workers : worker'[v] \in {worker[v], Idle}
  BY DEF DropJob, IInv, TypeOK, Tasks
<1>2. spent' \in [Hazards -> Nat]
  BY SpendKeeps DEF IInv, TypeOK, DropJob, Hazards
<1>3. TypeOK'
  BY <1>1, <1>2 DEF IInv, TypeOK, DropJob
<1>4. StatusAgreement'
  BY <1>1, RowsUntouched DEF IInv, DropJob, Idle
<1> QED BY <1>3, <1>4 DEF IInv

-----------------------------------------------------------------------------
(* Workers *)

(* The tasks after steps in which no worker takes up a new task.            *)
Moves == {ws \in [Workers -> Tasks] :
            \A v \in Workers : ws[v].pc # "idle" => /\ worker[v].pc # "idle"
                                                    /\ ws[v].job = worker[v].job
                                                    /\ ws[v].kind = worker[v].kind}

(* A worker that only moves on with its task keeps the rows in agreement.   *)
LEMMA MovesAgree ==
    ASSUME IInv, worker' \in Moves, UNCHANGED <<req, exec, roll>>
    PROVE  StatusAgreement'
BY RowsUntouched DEF IInv, Moves

(* A step of one worker that keeps its job is a move.                       *)
LEMMA MovesOfOne ==
    ASSUME IInv, NEW w \in Workers, worker[w].pc # "idle",
           NEW t \in Tasks, t.job = worker[w].job, t.kind = worker[w].kind
    PROVE  [worker EXCEPT ![w] = t] \in Moves
BY DEF IInv, TypeOK, Moves

(* Going on to the next phase is a move.                                    *)
LEMMA GotoMoves ==
    ASSUME IInv, NEW w \in Workers, worker[w].pc # "idle",
           NEW pc \in {"load", "write", "verify", "requeue"}
    PROVE  Goto(w, pc) \in Moves /\ Goto(w, pc)[w].pc = pc
<1> DEFINE t == [worker[w] EXCEPT !.pc = pc]
<1>1. worker[w] \in Tasks \ {Idle}
  BY TaskHasTerms
<1>2. t \in Tasks /\ t.job = worker[w].job /\ t.kind = worker[w].kind /\ t.pc = pc
  BY <1>1 DEF Tasks
<1>3. Goto(w, pc) = [worker EXCEPT ![w] = t]
  BY DEF Goto
<1> HIDE DEF t
<1> QED BY <1>2, <1>3, MovesOfOne DEF IInv, TypeOK

(* So is deciding the outcome.                                              *)
LEMMA SettleMoves ==
    ASSUME IInv, NEW w \in Workers, worker[w].pc # "idle",
           NEW outcome \in {"succeeded", "failed", "conflict"}
    PROVE  Settle(w, outcome) \in Moves /\ Settle(w, outcome)[w].pc = "settle"
<1> DEFINE t == [worker[w] EXCEPT !.pc = "settle", !.outcome = outcome]
<1>1. worker[w] \in Tasks \ {Idle}
  BY TaskHasTerms
<1>2. t \in Tasks /\ t.job = worker[w].job /\ t.kind = worker[w].kind /\ t.pc = "settle"
  BY <1>1 DEF Tasks, Outcomes
<1>3. Settle(w, outcome) = [worker EXCEPT ![w] = t]
  BY DEF Settle, IInv, TypeOK
<1> HIDE DEF t
<1> QED BY <1>2, <1>3, MovesOfOne DEF IInv, TypeOK

(* So is what follows an error, transient or permanent.                     *)
LEMMA ErroredMoves ==
    ASSUME IInv, NEW w \in Workers, worker[w].pc # "idle", NEW permanent
    PROVE  Errored(w, permanent) \in Moves /\ Errored(w, permanent)[w].pc # "idle"
BY GotoMoves, SettleMoves DEF Errored

(* Setting the flag of a worker that goes on.                               *)
LEMMA FlagMoves ==
    ASSUME NEW ws \in Moves, NEW w \in Workers, ws[w].pc # "idle", NEW b \in BOOLEAN
    PROVE  [ws EXCEPT ![w].raced = b] \in Moves
<1> DEFINE t == [ws[w] EXCEPT !.raced = b]
<1>1. ws[w] \in Tasks \ {Idle}
  BY DEF Moves, Idle
<1>2. t \in Tasks /\ t.pc = ws[w].pc /\ t.job = ws[w].job /\ t.kind = ws[w].kind
  BY <1>1 DEF Tasks
<1>3. [ws EXCEPT ![w].raced = b] = [ws EXCEPT ![w] = t]
  OBVIOUS
<1> HIDE DEF t
<1> QED BY <1>2, <1>3 DEF Moves

(* So is marking the workers that were raced.                               *)
LEMMA MarkedMoves ==
    ASSUME NEW ws \in Moves, NEW i
    PROVE  MarkRaced(ws, i) \in Moves
BY MarkRacedKeeps DEF Moves

(* A claimed execution stays one its request may have.                      *)
LEMMA ClaimExecutionOK ==
    ASSUME IInv, NEW w \in Workers, ClaimExecution(w) PROVE IInv'
<1>1. PICK r \in Requests :
        /\ exec[r].status = "queued"
        /\ exec' = [exec EXCEPT ![r].status = "running", ![r].attempts = @ + 1]
        /\ worker' = [worker EXCEPT ![w] = [Idle EXCEPT !.pc = "claimed", !.job = r]]
        /\ UNCHANGED <<catalog, floors, store, inbox, req, roll, calls, switch, spent>>
  BY DEF ClaimExecution
<1>2. /\ exec' \in [Requests -> ExecutionRows]
      /\ exec'[r].status = "running"
      /\ \A q \in Requests \ {r} : exec'[q] = exec[q]
  <2>1. exec \in [Requests -> ExecutionRows] /\ exec[r].attempts + 1 \in Nat
    BY DEF IInv, TypeOK, ExecutionRows
  <2>2. \A n \in Nat : LET row == [exec[r] EXCEPT !.status = "running", !.attempts = n]
                      IN  row \in ExecutionRows /\ row.status = "running"
    BY <2>1 DEF ExecutionRows, ExecutionStatus
  <2>3. \E n \in Nat :
           exec' = [exec EXCEPT ![r] = [exec[r] EXCEPT !.status = "running", !.attempts = n]]
    BY <1>1, <2>1
  <2> QED BY <2>1, <2>2, <2>3
<1>3. worker' \in [Workers -> Tasks]
  <2>1. [Idle EXCEPT !.pc = "claimed", !.job = r] \in Tasks
    BY DEF Idle, Tasks, Kinds, Outcomes
  <2> QED BY <1>1, <2>1 DEF IInv, TypeOK
<1>4. TypeOK'
  BY <1>1, <1>2, <1>3 DEF IInv, TypeOK
<1>5. \A q \in Requests : RowsAgree(q)'
  <2>1. req' = req /\ roll' = roll /\ exec[r].status = "queued"
    BY <1>1
  <2> QED BY <1>2, <2>1 DEF IInv, StatusAgreement, RowsAgree
<1>6. \A v \in Workers : TaskHasRow(v)'
  <2>1. TaskHasRow(w)'
    BY <1>1, <1>2 DEF TaskHasRow, Idle, IInv, TypeOK
  <2>2. \A v \in Workers \ {w} : TaskHasRow(v)'
    <3> TAKE v \in Workers \ {w}
    <3> SUFFICES ASSUME worker[v].pc # "idle" PROVE TaskHasRow(v)'
      BY <1>1 DEF TaskHasRow, IInv, TypeOK
    <3>1. worker[v].job \in Requests /\ TaskHasRow(v) /\ worker'[v] = worker[v]
      BY <1>1, TaskHasTerms DEF IInv, TypeOK, StatusAgreement
    <3>2. roll' = roll
      BY <1>1
    <3> QED BY <1>2, <3>1, <3>2 DEF TaskHasRow
  <2> QED BY <2>1, <2>2
<1> QED BY <1>4, <1>5, <1>6 DEF IInv, StatusAgreement

(* A claimed rollback stays one of an existing execution.                   *)
LEMMA ClaimRollbackOK ==
    ASSUME IInv, NEW w \in Workers, ClaimRollback(w) PROVE IInv'
<1>1. PICK r \in Requests :
        /\ roll[r].status = "queued"
        /\ roll' = [roll EXCEPT ![r].status = "running", ![r].attempts = @ + 1]
        /\ worker' = [worker EXCEPT ![w] = [Idle EXCEPT !.pc = "claimed", !.job = r,
                                                       !.kind = "rollback"]]
        /\ UNCHANGED <<catalog, floors, store, inbox, req, exec, calls, switch, spent>>
  BY DEF ClaimRollback
<1>2. /\ roll' \in [Requests -> RollbackRows]
      /\ roll'[r].status = "running"
      /\ \A q \in Requests \ {r} : roll'[q] = roll[q]
  <2>1. roll \in [Requests -> RollbackRows] /\ roll[r].attempts + 1 \in Nat
    BY DEF IInv, TypeOK, RollbackRows
  <2>2. \A n \in Nat : LET row == [roll[r] EXCEPT !.status = "running", !.attempts = n]
                      IN  row \in RollbackRows /\ row.status = "running"
    BY <2>1 DEF RollbackRows, RollbackStatus
  <2>3. \E n \in Nat :
           roll' = [roll EXCEPT ![r] = [roll[r] EXCEPT !.status = "running", !.attempts = n]]
    BY <1>1, <2>1
  <2> QED BY <2>1, <2>2, <2>3
<1>3. worker' \in [Workers -> Tasks]
  <2>1. [Idle EXCEPT !.pc = "claimed", !.job = r, !.kind = "rollback"] \in Tasks
    BY DEF Idle, Tasks, Kinds, Outcomes
  <2> QED BY <1>1, <2>1 DEF IInv, TypeOK
<1>4. TypeOK'
  BY <1>1, <1>2, <1>3 DEF IInv, TypeOK
<1>5. \A q \in Requests : RowsAgree(q)'
  <2>1. req' = req /\ exec' = exec /\ roll[r].status = "queued"
    BY <1>1
  <2> QED BY <1>2, <2>1 DEF IInv, StatusAgreement, RowsAgree
<1>6. \A v \in Workers : TaskHasRow(v)'
  <2>1. TaskHasRow(w)'
    BY <1>1, <1>2 DEF TaskHasRow, Idle, IInv, TypeOK
  <2>2. \A v \in Workers \ {w} : TaskHasRow(v)'
    <3> TAKE v \in Workers \ {w}
    <3> SUFFICES ASSUME worker[v].pc # "idle" PROVE TaskHasRow(v)'
      BY <1>1 DEF TaskHasRow, IInv, TypeOK
    <3>1. worker[v].job \in Requests /\ TaskHasRow(v) /\ worker'[v] = worker[v]
      BY <1>1, TaskHasTerms DEF IInv, TypeOK, StatusAgreement
    <3>2. exec' = exec
      BY <1>1
    <3> QED BY <1>2, <3>1, <3>2 DEF TaskHasRow
  <2> QED BY <2>1, <2>2
<1> QED BY <1>4, <1>5, <1>6 DEF IInv, StatusAgreement

(* A task starts, or is settled because the kill switch is on; only an      *)
(* execution can be cancelled.                                              *)
LEMMA StartMoves ==
    ASSUME IInv, NEW w \in Workers, Start(w) PROVE worker' \in Moves
<1>1. worker[w].pc # "idle" /\ worker[w] \in Tasks \ {Idle} /\ worker[w].job \in Requests
  BY TaskHasTerms DEF Start
<1>2. /\ exec[worker[w].job].attempts \in Nat
      /\ roll[worker[w].job].attempts \in Nat
  BY <1>1 DEF IInv, TypeOK, ExecutionRows, RollbackRows
<1> DEFINE publish == worker[w].kind = "publish"
           n == IF publish THEN exec[worker[w].job].attempts
                           ELSE roll[worker[w].job].attempts
           t(blocked) == [worker[w] EXCEPT !.attempts = n,
                            !.pc = IF blocked THEN "settle" ELSE "load",
                            !.outcome = IF ~blocked THEN "none"
                                        ELSE IF publish THEN "cancelled" ELSE "failed"]
<1>3. PICK blocked \in BOOLEAN : worker' = [worker EXCEPT ![w] = t(blocked)]
  <2>1. PICK unread \in BOOLEAN :
           worker' = [worker EXCEPT ![w] = t(switch = "on" /\ ~unread)]
    BY DEF Start, IInv, TypeOK
  <2> HIDE DEF t
  <2> QED BY <2>1
<1>4. LET new == t(blocked)
      IN  new \in Tasks /\ new.job = worker[w].job /\ new.kind = worker[w].kind
  <2>1. n \in Nat
    BY <1>2
  <2> HIDE DEF n
  <2>2. CASE blocked
    BY <1>1, <2>1, <2>2 DEF Tasks, Outcomes
  <2>3. CASE ~blocked
    BY <1>1, <2>1, <2>3 DEF Tasks, Outcomes
  <2> QED BY <2>2, <2>3
<1> HIDE DEF t
<1> QED BY <1>1, <1>3, <1>4, MovesOfOne

LEMMA StartOK ==
    ASSUME IInv, NEW w \in Workers, Start(w) PROVE IInv'
<1>1. worker' \in Moves
  BY StartMoves
<1>2. UNCHANGED <<catalog, floors, store, inbox, req, exec, roll, calls, switch>>
  BY DEF Start
<1>3. spent' \in [Hazards -> Nat]
  BY SpendKeeps DEF IInv, TypeOK, Start, Hazards
<1>4. TypeOK'
  BY <1>1, <1>2, <1>3 DEF IInv, TypeOK, Moves
<1>5. StatusAgreement'
  BY <1>1, <1>2, MovesAgree
<1> QED BY <1>4, <1>5 DEF IInv

(* A failed HTTP call, the live read and the read-back move the task on.    *)
LEMMA CallFailsMoves ==
    ASSUME IInv, NEW w \in Workers, CallFails(w) PROVE worker' \in Moves
BY ErroredMoves DEF CallFails

LEMMA LoadMoves ==
    ASSUME IInv, NEW w \in Workers, Load(w) PROVE worker' \in Moves
<1>1. AfterRead(w) \in Moves /\ AfterRead(w)[w].pc # "idle"
  BY GotoMoves, SettleMoves DEF Load, AfterRead
<1> QED BY <1>1, FlagMoves DEF Load

LEMMA VerifyMoves ==
    ASSUME IInv, NEW w \in Workers, Verify(w) PROVE worker' \in Moves
<1>1. AfterReadBack(w) \in Moves /\ AfterReadBack(w)[w].pc # "idle"
  BY SettleMoves DEF Verify, AfterReadBack
<1> QED BY <1>1, FlagMoves DEF Verify

(* So does the write, which may set the flag of other workers.              *)
LEMMA WriteMoves ==
    ASSUME IInv, NEW w \in Workers, Write(w) PROVE worker' \in Moves
<1>1. worker[w].pc # "idle" /\ worker[w].raced \in BOOLEAN
  BY TaskHasTerms DEF Write, Tasks
<1>2. PICK ws \in {Goto(w, "verify"), Settle(w, "conflict"), Errored(w, FALSE)} :
         worker' = [MarkRaced(ws, Item(w)) EXCEPT ![w].raced = worker[w].raced]
  BY Zenon DEF Write
<1>3. ws \in Moves /\ ws[w].pc # "idle"
  BY <1>1, <1>2, GotoMoves, SettleMoves, ErroredMoves
<1>4. MarkRaced(ws, Item(w)) \in Moves
  BY <1>3, MarkedMoves
<1>5. MarkRaced(ws, Item(w))[w].pc # "idle"
  BY <1>3, MarkRacedKeeps DEF Moves
<1> QED BY <1>1, <1>2, <1>4, <1>5, FlagMoves

LEMMA CallFailsOK ==
    ASSUME IInv, NEW w \in Workers, CallFails(w) PROVE IInv'
<1>1. worker' \in Moves
  BY CallFailsMoves
<1>2. UNCHANGED <<catalog, floors, store, inbox, req, exec, roll, calls, switch>>
  BY DEF CallFails
<1>3. spent' \in [Hazards -> Nat]
  BY SpendKeeps DEF IInv, TypeOK, CallFails, Hazards
<1>4. TypeOK'
  BY <1>1, <1>2, <1>3 DEF IInv, TypeOK, Moves
<1>5. StatusAgreement'
  BY <1>1, <1>2, MovesAgree
<1> QED BY <1>4, <1>5 DEF IInv

(* The live read moves the task on.                                         *)
LEMMA LoadOK ==
    ASSUME IInv, NEW w \in Workers, Load(w) PROVE IInv'
<1>2. worker' \in Moves
  BY LoadMoves
<1>3. UNCHANGED <<catalog, floors, store, inbox, req, exec, roll, calls, switch, spent>>
  BY DEF Load
<1>4. TypeOK'
  BY <1>2, <1>3 DEF IInv, TypeOK, Moves
<1>5. StatusAgreement'
  BY <1>2, <1>3, MovesAgree
<1> QED BY <1>4, <1>5 DEF IInv

(* The read-back moves the task on.                                         *)
LEMMA VerifyOK ==
    ASSUME IInv, NEW w \in Workers, Verify(w) PROVE IInv'
<1>2. worker' \in Moves
  BY VerifyMoves
<1>3. UNCHANGED <<catalog, floors, store, inbox, req, exec, roll, calls, switch, spent>>
  BY DEF Verify
<1>4. TypeOK'
  BY <1>2, <1>3 DEF IInv, TypeOK, Moves
<1>5. StatusAgreement'
  BY <1>2, <1>3, MovesAgree
<1> QED BY <1>4, <1>5 DEF IInv

(* The write changes the store to one of the prices and moves the task      *)
(* on.                                                                      *)
LEMMA WriteOK ==
    ASSUME IInv, NEW w \in Workers, Write(w) PROVE IInv'
<1>1. To(w) \in Prices
  BY TaskHasTerms DEF Write
<1>2. store' \in [Items -> [regular : Prices, sale : Prices \cup {None}]]
  BY <1>1 DEF IInv, TypeOK, Write
<1>4. worker' \in Moves
  BY WriteMoves
<1>5. spent' \in [Hazards -> Nat]
  BY SpendKeeps DEF IInv, TypeOK, Write, Hazards
<1>6. UNCHANGED <<catalog, floors, inbox, req, exec, roll, calls, switch>>
  BY DEF Write
<1>7. TypeOK'
  BY <1>2, <1>4, <1>5, <1>6 DEF IInv, TypeOK, Moves
<1>8. StatusAgreement'
  BY <1>4, <1>6, MovesAgree
<1> QED BY <1>7, <1>8 DEF IInv

(* A worker that gives its task up, or back, keeps the others' tasks.       *)
LEMMA BecomesIdle ==
    ASSUME IInv, NEW w \in Workers, worker' = [worker EXCEPT ![w] = Idle]
    PROVE  worker' \in Moves
BY DEF IInv, TypeOK, Tasks, Idle, Moves

(* A requeued execution was running, so its request may have it queued.     *)
LEMMA RequeueExecutionOK ==
    ASSUME IInv, NEW w \in Workers, RequeueExecution(w) PROVE IInv'
<1> DEFINE r == worker[w].job
<1>1. worker' \in Moves
  BY BecomesIdle DEF RequeueExecution
<1>2. UNCHANGED <<catalog, floors, store, inbox, req, roll, calls, switch, spent>>
  BY DEF RequeueExecution
<1>3. /\ exec' \in [Requests -> ExecutionRows]
      /\ \A q \in Requests : \/ exec'[q] = exec[q]
                             \/ exec[q].status = "running" /\ exec'[q].status = "queued"
  <2>1. exec \in [Requests -> ExecutionRows] /\ r \in Requests
    BY TaskHasTerms DEF RequeueExecution, IInv, TypeOK
  <2>2. LET row == [exec[r] EXCEPT !.status = "queued", !.sched = "later"]
        IN  row \in ExecutionRows /\ row.status = "queued"
    BY <2>1 DEF ExecutionRows, ExecutionStatus
  <2>3. \/ exec' = exec
        \/ /\ exec[r].status = "running"
           /\ exec' = [exec EXCEPT ![r] = [exec[r] EXCEPT !.status = "queued",
                                                         !.sched = "later"]]
    BY <2>1 DEF RequeueExecution
  <2> HIDE DEF r
  <2> QED BY <2>1, <2>2, <2>3
<1>4. TypeOK'
  BY <1>1, <1>2, <1>3 DEF IInv, TypeOK, Moves
<1>5. \A q \in Requests : RowsAgree(q)'
  BY <1>2, <1>3 DEF IInv, StatusAgreement, RowsAgree
<1>6. \A v \in Workers : TaskHasRow(v)'
  BY <1>1, <1>2, <1>3, RowsRemain DEF Moves
<1> QED BY <1>4, <1>5, <1>6 DEF IInv, StatusAgreement

(* Likewise a requeued rollback.                                            *)
LEMMA RequeueRollbackOK ==
    ASSUME IInv, NEW w \in Workers, RequeueRollback(w) PROVE IInv'
<1> DEFINE r == worker[w].job
<1>1. worker' \in Moves
  BY BecomesIdle DEF RequeueRollback
<1>2. UNCHANGED <<catalog, floors, store, inbox, req, exec, calls, switch, spent>>
  BY DEF RequeueRollback
<1>3. /\ roll' \in [Requests -> RollbackRows]
      /\ \A q \in Requests : \/ roll'[q] = roll[q]
                             \/ roll[q].status = "running" /\ roll'[q].status = "queued"
  <2>1. roll \in [Requests -> RollbackRows] /\ r \in Requests
    BY TaskHasTerms DEF RequeueRollback, IInv, TypeOK
  <2>2. LET row == [roll[r] EXCEPT !.status = "queued"]
        IN  row \in RollbackRows /\ row.status = "queued"
    BY <2>1 DEF RollbackRows, RollbackStatus
  <2>3. \/ roll' = roll
        \/ /\ roll[r].status = "running"
           /\ roll' = [roll EXCEPT ![r] = [roll[r] EXCEPT !.status = "queued"]]
    BY <2>1 DEF RequeueRollback
  <2> HIDE DEF r
  <2> QED BY <2>1, <2>2, <2>3
<1>4. TypeOK'
  BY <1>1, <1>2, <1>3 DEF IInv, TypeOK, Moves
<1>5. \A q \in Requests : RowsAgree(q)'
  BY <1>2, <1>3 DEF IInv, StatusAgreement, RowsAgree
<1>6. \A v \in Workers : TaskHasRow(v)'
  BY <1>1, <1>2, <1>3, RowsRemain DEF Moves
<1> QED BY <1>4, <1>5, <1>6 DEF IInv, StatusAgreement

(* Recording a price keeps the catalogue one of prices.                     *)
LEMMA RecordIsACatalog ==
    ASSUME TypeOK, NEW i, NEW price \in Prices
    PROVE  Record(i, price) \in [Items -> Prices]
BY DEF TypeOK, Record

(* The request and its execution get their final states together, whatever *)
(* an expiry or the kill switch made of them meanwhile.                    *)
LEMMA FinishExecutionOK ==
    ASSUME IInv, NEW w \in Workers, FinishExecution(w) PROVE IInv'
<1>0. PICK r \in Requests, o \in Outcomes : r = worker[w].job /\ o = worker[w].outcome
  BY TaskHasTerms DEF FinishExecution, Tasks
<1> DEFINE q == IF o = "succeeded" THEN "published" ELSE "failed"
<1>1. worker' \in Moves
  BY BecomesIdle DEF FinishExecution
<1>2. /\ UNCHANGED <<floors, store, inbox, roll, calls, switch, spent>>
      /\ exec' = [exec EXCEPT ![r] = [exec[r] EXCEPT !.status = o]]
      /\ req' = [req EXCEPT ![r] = [req[r] EXCEPT !.status = q]]
      /\ catalog' \in {catalog, Record(Item(w), To(w))}
  BY <1>0 DEF FinishExecution
<1>3. /\ worker[w] \in Tasks \ {Idle} /\ worker[w].pc = "settle" /\ r \in Requests
      /\ exec[r].status # "none" /\ req[r] \in RequestRows \ {NoRequest}
      /\ To(w) \in Prices
  BY <1>0, TaskHasTerms DEF FinishExecution
<1>4. o \in {"succeeded", "failed", "conflict", "cancelled"}
  BY <1>0, <1>3 DEF Tasks, Outcomes
<1>5. /\ exec \in [Requests -> ExecutionRows] /\ req \in [Requests -> RequestRows]
  BY DEF IInv, TypeOK
<1>6. /\ [exec[r] EXCEPT !.status = o] \in ExecutionRows
      /\ [exec[r] EXCEPT !.status = o].status = o
  BY <1>3, <1>4, <1>5 DEF ExecutionRows, ExecutionStatus
<1>7. /\ [req[r] EXCEPT !.status = q] \in RequestRows
      /\ [req[r] EXCEPT !.status = q].status = q
  <2>1. q \in {"published", "failed"}
    OBVIOUS
  <2> HIDE DEF q
  <2> QED BY <1>3, <2>1 DEF RequestRows, RequestStatus
<1>8. /\ exec' \in [Requests -> ExecutionRows] /\ exec'[r].status = o
      /\ req' \in [Requests -> RequestRows] /\ req'[r].status = q
      /\ \A p \in Requests \ {r} : exec'[p] = exec[p] /\ req'[p] = req[p]
  <2> HIDE DEF q
  <2> QED BY <1>2, <1>3, <1>5, <1>6, <1>7
<1>9. catalog' \in [Items -> Prices]
  BY <1>2, <1>3, RecordIsACatalog DEF IInv, TypeOK
<1>10. TypeOK'
  BY <1>1, <1>2, <1>8, <1>9 DEF IInv, TypeOK, Moves
<1>11. \A p \in Requests : RowsAgree(p)'
  <2>1. RowsAgree(r)'
    BY <1>2, <1>3, <1>4, <1>8 DEF RowsAgree
  <2>2. \A p \in Requests \ {r} : RowsAgree(p)'
    BY <1>2, <1>8 DEF IInv, StatusAgreement, RowsAgree
  <2> QED BY <2>1, <2>2
<1>12. \A v \in Workers : TaskHasRow(v)'
  <2>1. exec'[r].status # "none"
    BY <1>4, <1>8
  <2>2. \A p \in Requests : exec[p].status # "none" => exec'[p].status # "none"
    BY <1>8, <2>1
  <2>3. roll' = roll
    BY <1>2
  <2> QED BY <1>1, <2>2, <2>3, RowsRemain DEF Moves
<1> QED BY <1>10, <1>11, <1>12 DEF IInv, StatusAgreement

(* The rollback, its execution and its request get their final states       *)
(* together.                                                                *)
LEMMA FinishRollbackOK ==
    ASSUME IInv, NEW w \in Workers, FinishRollback(w) PROVE IInv'
<1>0. PICK r \in Requests, o \in Outcomes : r = worker[w].job /\ o = worker[w].outcome
  BY TaskHasTerms DEF FinishRollback, Tasks
<1>1. worker' \in Moves
  BY BecomesIdle DEF FinishRollback
<1>2. /\ UNCHANGED <<floors, store, inbox, calls, switch, spent>>
      /\ roll' = [roll EXCEPT ![r] = [roll[r] EXCEPT !.status = o]]
      /\ catalog' \in {catalog, Record(Item(w), To(w))}
      /\ \/ exec' = exec /\ req' = req
         \/ /\ exec' = [exec EXCEPT ![r] = [exec[r] EXCEPT !.status = "rolled_back"]]
            /\ req' = [req EXCEPT ![r] = [req[r] EXCEPT !.status = "rolled_back"]]
  BY <1>0 DEF FinishRollback
<1>3. /\ worker[w] \in Tasks \ {Idle} /\ worker[w].pc = "settle"
      /\ worker[w].kind = "rollback" /\ r \in Requests
      /\ exec[r].status # "none" /\ req[r] \in RequestRows \ {NoRequest}
      /\ To(w) \in Prices
  BY <1>0, TaskHasTerms DEF FinishRollback
<1>4. o \in {"succeeded", "failed", "conflict"}
  BY <1>0, <1>3 DEF Tasks, Outcomes
<1>5. /\ exec \in [Requests -> ExecutionRows] /\ req \in [Requests -> RequestRows]
      /\ roll \in [Requests -> RollbackRows]
  BY DEF IInv, TypeOK
<1>6. LET row == [roll[r] EXCEPT !.status = o]
      IN  row \in RollbackRows /\ row.status = o
  BY <1>3, <1>4, <1>5 DEF RollbackRows, RollbackStatus
<1>7. LET row == [exec[r] EXCEPT !.status = "rolled_back"]
      IN  row \in ExecutionRows /\ row.status = "rolled_back"
  BY <1>3, <1>5 DEF ExecutionRows, ExecutionStatus
<1>8. LET row == [req[r] EXCEPT !.status = "rolled_back"]
      IN  row \in RequestRows /\ row.status = "rolled_back"
  BY <1>3 DEF RequestRows, RequestStatus
<1>9. /\ exec' \in [Requests -> ExecutionRows] /\ req' \in [Requests -> RequestRows]
      /\ roll' \in [Requests -> RollbackRows] /\ roll'[r].status = o
      /\ \A p \in Requests \ {r} : /\ exec'[p] = exec[p] /\ req'[p] = req[p]
                                   /\ roll'[p] = roll[p]
      /\ \/ exec'[r] = exec[r] /\ req'[r] = req[r]
         \/ exec'[r].status = "rolled_back" /\ req'[r].status = "rolled_back"
  BY <1>2, <1>3, <1>5, <1>6, <1>7, <1>8
<1>10. catalog' \in [Items -> Prices]
  BY <1>2, <1>3, RecordIsACatalog DEF IInv, TypeOK
<1>11. TypeOK'
  BY <1>1, <1>2, <1>9, <1>10 DEF IInv, TypeOK, Moves
<1>12. \A p \in Requests : RowsAgree(p)'
  <2>1. RowsAgree(r)'
    BY <1>3, <1>4, <1>9 DEF IInv, StatusAgreement, RowsAgree
  <2>2. \A p \in Requests \ {r} : RowsAgree(p)'
    BY <1>9 DEF IInv, StatusAgreement, RowsAgree
  <2> QED BY <2>1, <2>2
<1>13. \A v \in Workers : TaskHasRow(v)'
  <2>1. \A p \in Requests : /\ exec[p].status # "none" => exec'[p].status # "none"
                            /\ roll[p].status # "none" => roll'[p].status # "none"
    BY <1>4, <1>9
  <2>2. \A v \in Workers : worker'[v].pc # "idle" => /\ worker[v].pc # "idle"
                                                     /\ worker'[v].job = worker[v].job
                                                     /\ worker'[v].kind = worker[v].kind
    BY <1>1 DEF Moves
  <2> QED BY <2>1, <2>2, RowsRemain, IInv, Zenon
<1> QED BY <1>11, <1>12, <1>13 DEF IInv, StatusAgreement

-----------------------------------------------------------------------------
(* Stuttering keeps the invariant.                                          *)
LEMMA UnchangedOK == ASSUME IInv, UNCHANGED vars PROVE IInv'
<1>1. TypeOK'
  BY DEF IInv, TypeOK, vars
<1>2. StatusAgreement'
  BY RowsUntouched DEF IInv, vars
<1> QED BY <1>1, <1>2 DEF IInv

(* Every step keeps the invariant: the lemmas of the actions together.      *)
LEMMA NextOK == ASSUME IInv, [Next]_vars PROVE IInv'
<1>1. ASSUME NEW i \in Items, Generate(i) \/ EditStore(i) \/ EditTerms(i) PROVE IInv'
  BY <1>1, GenerateOK, EditStoreOK, EditTermsOK
<1>2. ASSUME NEW row \in inbox, RecommendationExpires(row) PROVE IInv'
  BY <1>2, RecommendationExpiresOK
<1>3. ASSUME NEW r \in Requests,
             \/ RequestExpires(r) \/ SubmitForApproval(r) \/ Approve(r) \/ Reject(r)
             \/ QueuePublish(r) \/ QueueRollback(r)
             \/ ScheduleArrives(r) \/ ExecutionAges(r)
             \/ \E kind \in Kinds : PassKillSwitch(kind, r)
      PROVE  IInv'
  BY <1>3, RequestExpiresOK, SubmitOK, ApproveOK, RejectOK, QueuePublishOK,
     QueueRollbackOK, ScheduleArrivesOK, ExecutionAgesOK, PassKillSwitchOK
<1>4. CASE ExpireStale \/ EnableKillSwitch \/ DisableKillSwitch
  BY <1>4, ExpireStaleOK, EnableKillSwitchOK, DisableKillSwitchOK
<1>5. ASSUME NEW w \in Workers, Work(w) \/ DropJob(w) PROVE IInv'
  BY <1>5, ClaimExecutionOK, ClaimRollbackOK, StartOK, LoadOK, WriteOK, VerifyOK,
     CallFailsOK, RequeueExecutionOK, RequeueRollbackOK, FinishExecutionOK,
     FinishRollbackOK, DropJobOK DEF Work
<1>6. CASE UNCHANGED vars
  BY <1>6, UnchangedOK
<1> QED BY <1>1, <1>2, <1>3, <1>4, <1>5, <1>6 DEF Next

(* IInv is an invariant of the pipeline.                                    *)
THEOREM Invariance == Spec => []IInv
<1>1. Init => IInv
  BY InitOK
<1>2. IInv /\ [Next]_vars => IInv'
  BY NextOK
<1> QED BY <1>1, <1>2, PTL DEF Spec

(* For any number of requests, items, prices, workers and roles, and however*)
(* many edits, faults, crashes and retries there are, every row and every  *)
(* worker's task stays in its domain.                                      *)
THEOREM TypeCorrect == Spec => []TypeOK
<1>1. IInv => TypeOK
  BY DEF IInv
<1> QED BY <1>1, Invariance, PTL

(* The rows that different handlers and workers write for one request never *)
(* contradict each other, and no busy worker is without a row to settle.   *)
THEOREM RowsAlwaysAgree == Spec => []StatusAgreement
<1>1. IInv => StatusAgreement
  BY DEF IInv
<1> QED BY <1>1, Invariance, PTL

-----------------------------------------------------------------------------
(* Only approved prices are published *)

(* What approval leaves behind in a request: the price respects the bounds  *)
(* it was submitted under, and once decided in favour, the limit of the    *)
(* role that approved it.  No later step touches either, and without a     *)
(* decision in favour there is no approver.                                *)
Decided == {"approved", "published", "failed", "rolled_back"}

GrantedTerms(r) ==
    /\ req[r].status # "none" => /\ req[r].row.target >= req[r].row.floor
                                 /\ ~Exceeds(req[r].row.target, Ceiling)
    /\ req[r].status \in Decided => /\ req[r].by \in Roles
                                    /\ WithinLimit(req[r].by, req[r].row)
    /\ req[r].status \notin Decided => req[r].by = NoRole

ApprovalInv == \A r \in Requests : GrantedTerms(r)

(* A step that keeps a request's recommendation and approver, and with it   *)
(* whether it was decided in favour.                                       *)
KeepsTerms(r) ==
    /\ req'[r].row = req[r].row
    /\ req'[r].by = req[r].by
    /\ req[r].status = "none" => req'[r].status = "none"
    /\ req'[r].status \in Decided <=> req[r].status \in Decided

(* A request whose terms are kept stays granted within them.                *)
LEMMA KeepingIsEnough ==
    ASSUME NEW r \in Requests, GrantedTerms(r), KeepsTerms(r)
    PROVE  GrantedTerms(r)'
<1>1. req'[r].status # "none" => req[r].status # "none"
  BY DEF KeepsTerms
<1> QED BY <1>1 DEF GrantedTerms, KeepsTerms, WithinLimit, Exceeds

(* Untouched requests keep their terms.                                     *)
LEMMA UntouchedKeeps == ASSUME req' = req PROVE \A r \in Requests : KeepsTerms(r)
BY DEF KeepsTerms

(* Changing only the status, or only the expiry, of a request.              *)
LEMMA StatusChange ==
    ASSUME IInv, NEW r \in Requests, NEW s, req'[r] = [req[r] EXCEPT !.status = s]
    PROVE  req'[r].row = req[r].row /\ req'[r].by = req[r].by /\ req'[r].status = s
<1>1. req[r] = NoRequest \/ req[r] \in [status : RequestStatus \ {"none"}, row : Rows,
                                       by : Roles \cup {NoRole}, fresh : BOOLEAN]
  BY DEF IInv, TypeOK, RequestRows
<1> QED BY <1>1 DEF NoRequest

(* Expiring keeps a request's terms.                                        *)
LEMMA ExpiryChange ==
    ASSUME IInv, NEW r \in Requests, req'[r] = [req[r] EXCEPT !.fresh = FALSE]
    PROVE  KeepsTerms(r)
<1>1. req[r] = NoRequest \/ req[r] \in [status : RequestStatus \ {"none"}, row : Rows,
                                       by : Roles \cup {NoRole}, fresh : BOOLEAN]
  BY DEF IInv, TypeOK, RequestRows
<1>2. /\ req'[r].row = req[r].row /\ req'[r].by = req[r].by
      /\ req'[r].status = req[r].status
  BY <1>1 DEF NoRequest
<1> QED BY <1>2 DEF KeepsTerms

(* The clock and expireStale keep every request's terms.                    *)
LEMMA ExpiriesKeep ==
    ASSUME IInv, NEW r \in Requests,
           \/ \E row \in inbox : RecommendationExpires(row)
           \/ \E q \in Requests : RequestExpires(q) \/ ExecutionAges(q)
           \/ ExpireStale
    PROVE  KeepsTerms(r)
<1>1. req \in [Requests -> RequestRows]
  BY DEF IInv, TypeOK
<1>2. \/ req'[r] = req[r]
      \/ req'[r] = [req[r] EXCEPT !.fresh = FALSE]
      \/ req[r].status = "pending" /\ req'[r] = [req[r] EXCEPT !.status = "expired"]
      \/ req[r].status = "approved" /\ req'[r] = [req[r] EXCEPT !.status = "failed"]
  BY <1>1 DEF RecommendationExpires, RequestExpires, ExecutionAges, ExpireStale, Expired,
     Awaited
<1>3. CASE req'[r] = req[r]
  BY <1>3 DEF KeepsTerms
<1>4. CASE req'[r] = [req[r] EXCEPT !.fresh = FALSE]
  BY <1>4, ExpiryChange
<1>5. CASE req[r].status = "pending" /\ req'[r] = [req[r] EXCEPT !.status = "expired"]
  BY <1>5, StatusChange DEF KeepsTerms, Decided
<1>6. CASE req[r].status = "approved" /\ req'[r] = [req[r] EXCEPT !.status = "failed"]
  BY <1>6, StatusChange DEF KeepsTerms, Decided
<1> QED BY <1>2, <1>3, <1>4, <1>5, <1>6

(* A rejection keeps every request's terms.                                 *)
LEMMA RejectKeeps ==
    ASSUME IInv, NEW q \in Requests, Reject(q), NEW r \in Requests
    PROVE  KeepsTerms(r)
<1>1. \/ req'[r] = req[r]
      \/ req[r].status = "pending" /\ req'[r] = [req[r] EXCEPT !.status = "rejected"]
  BY DEF Reject, Decidable, IInv, TypeOK
<1>2. CASE req'[r] = req[r]
  BY <1>2 DEF KeepsTerms
<1>3. CASE req[r].status = "pending" /\ req'[r] = [req[r] EXCEPT !.status = "rejected"]
  BY <1>3, StatusChange DEF KeepsTerms, Decided
<1> QED BY <1>1, <1>2, <1>3

(* A worker that settles its task keeps every request's terms.              *)
LEMMA FinishKeeps ==
    ASSUME IInv, NEW w \in Workers, FinishExecution(w) \/ FinishRollback(w),
           NEW r \in Requests
    PROVE  KeepsTerms(r)
<1>1. worker[w].pc # "idle"
  BY DEF FinishExecution, FinishRollback
<1>2. \/ req'[r] = req[r]
      \/ /\ r = worker[w].job
         /\ \E s \in {"published", "failed", "rolled_back"} :
                req'[r] = [req[r] EXCEPT !.status = s]
  <2>1. req \in [Requests -> RequestRows]
    BY DEF IInv, TypeOK
  <2>2. \/ req' = req
        \/ \E s \in {"published", "failed", "rolled_back"} :
               req' = [req EXCEPT ![worker[w].job].status = s]
    BY DEF FinishExecution, FinishRollback
  <2> QED BY <2>1, <2>2
<1>3. CASE req'[r] = req[r]
  BY <1>3 DEF KeepsTerms
<1>4. CASE req'[r] # req[r]
  <2>1. PICK s \in {"published", "failed", "rolled_back"} :
           req'[r] = [req[r] EXCEPT !.status = s]
    BY <1>2, <1>4
  <2>2. req[r].status \in Decided
    BY <1>1, <1>2, <1>4, TaskHasTerms DEF RequestRows, RequestStatus, Decided
  <2>3. req'[r].row = req[r].row /\ req'[r].by = req[r].by /\ req'[r].status = s
    BY <2>1, StatusChange
  <2> QED BY <2>2, <2>3 DEF KeepsTerms, Decided
<1> QED BY <1>3, <1>4

(* A submitted request lies between its floor and the ceiling.              *)
LEMMA SubmitGrants ==
    ASSUME IInv, ApprovalInv, NEW q \in Requests, SubmitForApproval(q)
    PROVE  ApprovalInv'
<1>1. PICK row \in inbox :
        /\ row.target >= row.floor /\ ~Exceeds(row.target, Ceiling)
        /\ req' = [req EXCEPT ![q] = [status |-> "pending", row |-> row,
                                      by |-> NoRole, fresh |-> TRUE]]
  BY DEF SubmitForApproval
<1>2. GrantedTerms(q)'
  BY <1>1 DEF GrantedTerms, Decided, IInv, TypeOK, Exceeds
<1>3. \A r \in Requests \ {q} : KeepsTerms(r)
  BY <1>1 DEF KeepsTerms, IInv, TypeOK
<1> QED BY <1>2, <1>3, KeepingIsEnough DEF ApprovalInv

(* An approved request lies within the limit of the role that approved      *)
(* it.                                                                      *)
LEMMA ApproveGrants ==
    ASSUME IInv, ApprovalInv, NEW q \in Requests, Approve(q)
    PROVE  ApprovalInv'
<1>1. PICK role \in Roles :
        /\ req[q].status = "pending" /\ WithinLimit(role, req[q].row)
        /\ req' = [req EXCEPT ![q].status = "approved", ![q].by = role]
  BY DEF Approve, Decidable
<1>2. req[q] \in RequestRows \ {NoRequest}
  BY <1>1, PendingRow
<1>3. req' = [req EXCEPT ![q] = [req[q] EXCEPT !.status = "approved", !.by = role]]
  BY <1>1 DEF IInv, TypeOK
<1>4. req'[q].row = req[q].row /\ req'[q].by = role /\ req'[q].status = "approved"
  BY <1>2, <1>3 DEF RequestRows, IInv, TypeOK
<1>5. GrantedTerms(q)'
  BY <1>1, <1>4 DEF ApprovalInv, GrantedTerms, WithinLimit, Exceeds, Decided
<1>6. \A r \in Requests \ {q} : KeepsTerms(r)
  BY <1>3 DEF KeepsTerms, IInv, TypeOK
<1> QED BY <1>5, <1>6, KeepingIsEnough DEF ApprovalInv

(* A step submits a request, approves one, or keeps the terms of all.       *)
LEMMA TermsChange ==
    ASSUME IInv, [Next]_vars
    PROVE  \/ \E q \in Requests : SubmitForApproval(q) \/ Approve(q)
           \/ \A r \in Requests : KeepsTerms(r)
<1>1. CASE \E q \in Requests : SubmitForApproval(q) \/ Approve(q)
  BY <1>1
<1>2. CASE req' = req
  BY <1>2, UntouchedKeeps
<1>3. CASE \/ \E row \in inbox : RecommendationExpires(row)
           \/ \E q \in Requests : RequestExpires(q) \/ ExecutionAges(q)
           \/ ExpireStale
  BY <1>3, ExpiriesKeep
<1>4. CASE \E q \in Requests : Reject(q)
  BY <1>4, RejectKeeps
<1>5. CASE \E w \in Workers : FinishExecution(w) \/ FinishRollback(w)
  BY <1>5, FinishKeeps
<1>6. ASSUME \/ \E i \in Items : Generate(i) \/ EditStore(i) \/ EditTerms(i)
             \/ \E r \in Requests : \/ QueuePublish(r) \/ QueueRollback(r)
                                    \/ ScheduleArrives(r)
                                    \/ \E kind \in Kinds : PassKillSwitch(kind, r)
             \/ EnableKillSwitch \/ DisableKillSwitch
             \/ UNCHANGED vars
      PROVE  req' = req
  BY <1>6 DEF Generate, EditStore, EditTerms, QueuePublish, QueueRollback, ScheduleArrives,
     PassKillSwitch, EnableKillSwitch, DisableKillSwitch, vars
<1>7. ASSUME NEW w \in Workers,
             \/ ClaimExecution(w) \/ ClaimRollback(w) \/ Start(w) \/ Load(w) \/ Write(w)
             \/ Verify(w) \/ CallFails(w) \/ RequeueExecution(w) \/ RequeueRollback(w)
             \/ DropJob(w)
      PROVE  req' = req
  BY <1>7 DEF ClaimExecution, ClaimRollback, Start, Load, Write, Verify, CallFails,
     RequeueExecution, RequeueRollback, DropJob
<1> QED BY <1>1, <1>2, <1>3, <1>4, <1>5, <1>6, <1>7 DEF Next, Work

(* Every step keeps ApprovalInv.                                            *)
LEMMA ApprovalStep == ASSUME IInv, ApprovalInv, [Next]_vars PROVE ApprovalInv'
<1>1. CASE \E q \in Requests : SubmitForApproval(q) \/ Approve(q)
  BY <1>1, SubmitGrants, ApproveGrants
<1>2. CASE \A r \in Requests : KeepsTerms(r)
  BY <1>2, KeepingIsEnough DEF ApprovalInv
<1> QED BY <1>1, <1>2, TermsChange

(* ApprovalInv is an invariant of the pipeline.                             *)
THEOREM ApprovalInvariance == Spec => []ApprovalInv
<1>1. Init => ApprovalInv
  BY DEF Init, ApprovalInv, GrantedTerms, NoRequest, Decided
<1>2. IInv /\ ApprovalInv /\ [Next]_vars => ApprovalInv'
  BY ApprovalStep
<1> QED BY <1>1, <1>2, Invariance, PTL DEF Spec

(* Whatever is or was executed, and whatever a worker still holds, was      *)
(* approved within the limit of the approving role, at a price within the  *)
(* bounds of its submission.                                               *)
THEOREM NothingUnapproved == Spec => []OnlyApprovedPrices
<1>1. IInv /\ ApprovalInv => OnlyApprovedPrices
  <2> SUFFICES ASSUME IInv, ApprovalInv, NEW r \in Requests,
                      exec[r].status # "none" \/ Holders("publish", r) # {}
               PROVE  /\ req[r].by \in Roles
                      /\ WithinLimit(req[r].by, req[r].row)
                      /\ req[r].row.target >= req[r].row.floor
                      /\ ~Exceeds(req[r].row.target, Ceiling)
    BY DEF OnlyApprovedPrices
  <2>1. exec[r].status # "none"
    BY DEF Holders, IInv, StatusAgreement, TaskHasRow
  <2>2. req[r].status \notin {"none", "pending", "rejected", "expired"}
    BY <2>1 DEF IInv, StatusAgreement, RowsAgree
  <2>3. req[r] \in RequestRows \ {NoRequest}
    BY <2>2 DEF IInv, TypeOK, NoRequest
  <2>4. req[r].status \in Decided
    BY <2>2, <2>3 DEF RequestRows, RequestStatus, Decided
  <2> QED BY <2>2, <2>4 DEF ApprovalInv, GrantedTerms
<1> QED BY <1>1, Invariance, ApprovalInvariance, PTL

-----------------------------------------------------------------------------
(* No job is claimed twice *)

(* A rollback is of an execution that succeeded, whose request can then     *)
(* never be published again.                                               *)
RollbackFollows(r) ==
    roll[r].status # "none" => /\ req[r].status \in {"published", "failed", "rolled_back"}
                               /\ exec[r].status \notin Active

(* How many workers may hold a row: as many as were cancelled while they    *)
(* ran, and one more while it is running.  expireStale cancels a running   *)
(* row without counting it, but one a day old is never claimed again.      *)
ExecutionAllowance(r) ==
    exec[r].cancels + IF exec[r].status = "running" \/ exec[r].old THEN 1 ELSE 0
RollbackAllowance(r) == IF roll[r].status = "running" THEN 1 ELSE 0

WithinAllowance(kind, r, n) ==
    /\ IsFiniteSet(Holders(kind, r))
    /\ Cardinality(Holders(kind, r)) <= n

ClaimsInv == \A r \in Requests :
    /\ RollbackFollows(r)
    /\ WithinAllowance("publish", r, ExecutionAllowance(r))
    /\ WithinAllowance("rollback", r, RollbackAllowance(r))


(* Counting the holders: fewer, one less, one more.                         *)
LEMMA FewerHolders ==
    ASSUME NEW S, IsFiniteSet(S), NEW T, T \subseteq S,
           NEW n \in Nat, NEW m \in Nat, Cardinality(S) <= n, n <= m
    PROVE  IsFiniteSet(T) /\ Cardinality(T) <= m
BY FS_Subset, FS_CardinalityType

LEMMA OneHolderLess ==
    ASSUME NEW S, IsFiniteSet(S), NEW w \in S, NEW T, T \subseteq S \ {w},
           NEW n \in Nat, NEW m \in Nat, Cardinality(S) <= n, n <= m + 1
    PROVE  IsFiniteSet(T) /\ Cardinality(T) <= m
<1>1. IsFiniteSet(S \ {w}) /\ Cardinality(S \ {w}) = Cardinality(S) - 1
  BY FS_RemoveElement
<1>2. Cardinality(S) \in Nat
  BY FS_CardinalityType
<1>3. IsFiniteSet(T) /\ Cardinality(T) <= Cardinality(S \ {w}) /\ Cardinality(T) \in Nat
  BY <1>1, FS_Subset, FS_CardinalityType
<1> QED BY <1>1, <1>2, <1>3

LEMMA OneHolderMore ==
    ASSUME NEW S, IsFiniteSet(S), NEW w, NEW T, T \subseteq S \cup {w},
           NEW n \in Nat, NEW m \in Nat, Cardinality(S) <= n, n + 1 <= m
    PROVE  IsFiniteSet(T) /\ Cardinality(T) <= m
<1>0. /\ IsFiniteSet(S \cup {w})
      /\ Cardinality(S \cup {w}) \in {Cardinality(S), Cardinality(S) + 1}
  BY FS_AddElement
<1>1. IsFiniteSet(S \cup {w}) /\ Cardinality(S) \in Nat
  BY <1>0, FS_CardinalityType
<1>2. Cardinality(S \cup {w}) <= Cardinality(S) + 1 /\ Cardinality(S \cup {w}) \in Nat
  BY <1>0, <1>1
<1>3. IsFiniteSet(T) /\ Cardinality(T) <= Cardinality(S \cup {w}) /\ Cardinality(T) \in Nat
  BY <1>1, FS_Subset, FS_CardinalityType
<1> QED BY <1>1, <1>2, <1>3

(* The allowances are numbers.                                              *)
LEMMA AllowanceTypes ==
    ASSUME IInv, IInv', NEW r \in Requests
    PROVE  /\ exec[r] \in ExecutionRows /\ exec'[r] \in ExecutionRows
           /\ ExecutionAllowance(r) \in Nat /\ ExecutionAllowance(r)' \in Nat
           /\ RollbackAllowance(r) \in Nat /\ RollbackAllowance(r)' \in Nat
<1>1. exec[r] \in ExecutionRows /\ exec'[r] \in ExecutionRows
  BY DEF IInv, TypeOK
<1> QED BY <1>1 DEF ExecutionRows, ExecutionAllowance, RollbackAllowance

(* Steps in which no worker takes up a task: the workers that may leave one *)
(* are no concern as long as no row allows fewer holders than before.      *)
LEMMA QuietClaims ==
    ASSUME IInv, IInv', ClaimsInv, \A r \in Requests : RollbackFollows(r)',
           \A w \in Workers : worker'[w].pc # "idle" =>
               /\ worker[w].pc # "idle"
               /\ worker'[w].job = worker[w].job
               /\ worker'[w].kind = worker[w].kind,
           \A r \in Requests :
               /\ ExecutionAllowance(r) <= ExecutionAllowance(r)'
               /\ RollbackAllowance(r) <= RollbackAllowance(r)'
    PROVE  ClaimsInv'
<1> SUFFICES ASSUME NEW r \in Requests
             PROVE  /\ WithinAllowance("publish", r, ExecutionAllowance(r))'
                    /\ WithinAllowance("rollback", r, RollbackAllowance(r))'
  BY DEF ClaimsInv
<1>1. \A kind \in Kinds : Holders(kind, r)' \subseteq Holders(kind, r)
  BY DEF Holders
<1>2. /\ ExecutionAllowance(r) \in Nat /\ ExecutionAllowance(r)' \in Nat
      /\ RollbackAllowance(r) \in Nat /\ RollbackAllowance(r)' \in Nat
  BY AllowanceTypes
<1>3. /\ WithinAllowance("publish", r, ExecutionAllowance(r))
      /\ WithinAllowance("rollback", r, RollbackAllowance(r))
  BY DEF ClaimsInv
<1>4. WithinAllowance("publish", r, ExecutionAllowance(r))'
  <2>1. Holders("publish", r)' \subseteq Holders("publish", r)
    BY <1>1 DEF Kinds
  <2> QED BY <1>2, <1>3, <2>1, FewerHolders DEF WithinAllowance
<1>5. WithinAllowance("rollback", r, RollbackAllowance(r))'
  <2>1. Holders("rollback", r)' \subseteq Holders("rollback", r)
    BY <1>1 DEF Kinds
  <2> QED BY <1>2, <1>3, <2>1, FewerHolders DEF WithinAllowance
<1> QED BY <1>4, <1>5

(* A worker that leaves its task makes room for one on its row.             *)
LEMMA LeavingClaims ==
    ASSUME IInv, IInv', ClaimsInv, \A r \in Requests : RollbackFollows(r)',
           NEW w \in Workers, worker[w].pc # "idle", worker' = [worker EXCEPT ![w] = Idle],
           \A r \in Requests :
               /\ ExecutionAllowance(r) <= ExecutionAllowance(r)'
                     + IF worker[w].kind = "publish" /\ worker[w].job = r THEN 1 ELSE 0
               /\ RollbackAllowance(r) <= RollbackAllowance(r)'
                     + IF worker[w].kind = "rollback" /\ worker[w].job = r THEN 1 ELSE 0
    PROVE  ClaimsInv'
<1> SUFFICES ASSUME NEW r \in Requests
             PROVE  /\ WithinAllowance("publish", r, ExecutionAllowance(r))'
                    /\ WithinAllowance("rollback", r, RollbackAllowance(r))'
  BY DEF ClaimsInv
<1>1. \A kind \in Kinds : Holders(kind, r)' = Holders(kind, r) \ {w}
  BY DEF Holders, Idle, IInv, TypeOK
<1>2. /\ ExecutionAllowance(r) \in Nat /\ ExecutionAllowance(r)' \in Nat
      /\ RollbackAllowance(r) \in Nat /\ RollbackAllowance(r)' \in Nat
  BY AllowanceTypes
<1>3. /\ WithinAllowance("publish", r, ExecutionAllowance(r))
      /\ WithinAllowance("rollback", r, RollbackAllowance(r))
  BY DEF ClaimsInv
<1>4. WithinAllowance("publish", r, ExecutionAllowance(r))'
  <2>0. Holders("publish", r)' = Holders("publish", r) \ {w}
    BY <1>1 DEF Kinds
  <2>1. CASE worker[w].kind = "publish" /\ worker[w].job = r
    <3>1. w \in Holders("publish", r)
      BY <2>1 DEF Holders
    <3>2. ExecutionAllowance(r) <= ExecutionAllowance(r)' + 1
      BY <2>1
    <3> QED BY <1>2, <1>3, <2>0, <3>1, <3>2, OneHolderLess DEF WithinAllowance
  <2>2. CASE ~(worker[w].kind = "publish" /\ worker[w].job = r)
    <3>1. ExecutionAllowance(r) <= ExecutionAllowance(r)'
      BY <1>2, <2>2
    <3> QED BY <1>2, <1>3, <2>0, <3>1, FewerHolders DEF WithinAllowance
  <2> QED BY <2>1, <2>2
<1>5. WithinAllowance("rollback", r, RollbackAllowance(r))'
  <2>0. Holders("rollback", r)' = Holders("rollback", r) \ {w}
    BY <1>1 DEF Kinds
  <2>1. CASE worker[w].kind = "rollback" /\ worker[w].job = r
    <3>1. w \in Holders("rollback", r)
      BY <2>1 DEF Holders
    <3>2. RollbackAllowance(r) <= RollbackAllowance(r)' + 1
      BY <2>1
    <3> QED BY <1>2, <1>3, <2>0, <3>1, <3>2, OneHolderLess DEF WithinAllowance
  <2>2. CASE ~(worker[w].kind = "rollback" /\ worker[w].job = r)
    <3>1. RollbackAllowance(r) <= RollbackAllowance(r)'
      BY <1>2, <2>2
    <3> QED BY <1>2, <1>3, <2>0, <3>1, FewerHolders DEF WithinAllowance
  <2> QED BY <2>1, <2>2
<1> QED BY <1>4, <1>5

(* A final request stays final.                                             *)
Final == {"published", "failed", "rolled_back"}

LEMMA FinalRemains ==
    ASSUME IInv, [Next]_vars, NEW r \in Requests, req[r].status \in Final
    PROVE  req'[r].status \in Final
<1>0. req \in [Requests -> RequestRows]
  BY DEF IInv, TypeOK
<1>1. CASE req'[r] = req[r]
  BY <1>1
<1>2. CASE \E q \in Requests : SubmitForApproval(q) \/ Approve(q) \/ Reject(q)
  <2>1. PICK q \in Requests : /\ req[q].status \in {"none", "pending"}
                              /\ \A p \in Requests \ {q} : req'[p] = req[p]
    BY <1>0, <1>2 DEF SubmitForApproval, Approve, Reject, Decidable
  <2> QED BY <1>1, <2>1 DEF Final
<1>3. CASE \/ \E row \in inbox : RecommendationExpires(row)
           \/ \E q \in Requests : RequestExpires(q)
           \/ ExpireStale
  <2>1. ~Awaited(r)
    BY DEF Awaited, Final
  <2>2. req'[r] = req[r]
    BY <1>0, <1>3, <2>1 DEF RecommendationExpires, RequestExpires, ExpireStale
  <2> QED BY <1>1, <2>2
<1>4. CASE \E q \in Requests : ExecutionAges(q)
  <2>1. req'[r] = req[r] \/ req'[r] = [req[r] EXCEPT !.fresh = FALSE]
    BY <1>0, <1>4 DEF ExecutionAges
  <2>2. req[r] \in RequestRows \ {NoRequest}
    BY <1>0 DEF NoRequest, Final
  <2>3. [req[r] EXCEPT !.fresh = FALSE].status = req[r].status
    BY <2>2 DEF RequestRows
  <2> QED BY <2>1, <2>3
<1>5. CASE \E w \in Workers : FinishExecution(w) \/ FinishRollback(w)
  <2>0. PICK w \in Workers : FinishExecution(w) \/ FinishRollback(w)
    BY <1>5
  <2>1. \/ req' = req
        \/ \E s \in Final : req' = [req EXCEPT ![worker[w].job].status = s]
    BY <2>0 DEF FinishExecution, FinishRollback, Final
  <2>2. \/ req'[r] = req[r]
        \/ \E s \in Final : req'[r] = [req[r] EXCEPT !.status = s]
    BY <1>0, <2>1
  <2>3. req[r] \in RequestRows \ {NoRequest}
    BY <1>0 DEF NoRequest, Final
  <2>4. \A s : [req[r] EXCEPT !.status = s].status = s
    BY <2>3 DEF RequestRows
  <2> QED BY <2>2, <2>4
<1>6. CASE req' = req
  BY <1>1, <1>6
<1>7. ASSUME \/ \E i \in Items : Generate(i) \/ EditStore(i) \/ EditTerms(i)
             \/ \E q \in Requests : \/ QueuePublish(q) \/ QueueRollback(q)
                                    \/ ScheduleArrives(q)
                                    \/ \E kind \in Kinds : PassKillSwitch(kind, q)
             \/ EnableKillSwitch \/ DisableKillSwitch
             \/ UNCHANGED vars
      PROVE  req' = req
  BY <1>7 DEF Generate, EditStore, EditTerms, QueuePublish, QueueRollback, ScheduleArrives,
     PassKillSwitch, EnableKillSwitch, DisableKillSwitch, vars
<1>8. ASSUME NEW w \in Workers,
             \/ ClaimExecution(w) \/ ClaimRollback(w) \/ Start(w) \/ Load(w) \/ Write(w)
             \/ Verify(w) \/ CallFails(w) \/ RequeueExecution(w) \/ RequeueRollback(w)
             \/ DropJob(w)
      PROVE  req' = req
  BY <1>8 DEF ClaimExecution, ClaimRollback, Start, Load, Write, Verify, CallFails,
     RequeueExecution, RequeueRollback, DropJob
<1> QED BY <1>2, <1>3, <1>4, <1>5, <1>6, <1>7, <1>8 DEF Next, Work

(* A rollback follows its execution through a step that queues neither.     *)
LEMMA StillFollows ==
    ASSUME IInv, [Next]_vars, NEW r \in Requests, RollbackFollows(r),
           roll'[r].status # "none" => roll[r].status # "none",
           exec[r].status \notin Active => exec'[r].status \notin Active
    PROVE  RollbackFollows(r)'
<1> SUFFICES ASSUME roll'[r].status # "none"
             PROVE  req'[r].status \in Final /\ exec'[r].status \notin Active
  BY DEF RollbackFollows, Final
<1> QED BY FinalRemains DEF RollbackFollows, Final

LEMMA FollowsUntouched ==
    ASSUME IInv, ClaimsInv, [Next]_vars, exec' = exec, roll' = roll
    PROVE  \A r \in Requests : RollbackFollows(r)'
BY StillFollows, Zenon DEF ClaimsInv

(* Steps that leave both kinds of jobs alone.                               *)
LEMMA UntouchedClaims ==
    ASSUME IInv, ClaimsInv, [Next]_vars, exec' = exec, roll' = roll,
           \A w \in Workers : worker'[w].pc # "idle" =>
               /\ worker[w].pc # "idle"
               /\ worker'[w].job = worker[w].job
               /\ worker'[w].kind = worker[w].kind
    PROVE  ClaimsInv'
<1>1. \A r \in Requests : /\ ExecutionAllowance(r) <= ExecutionAllowance(r)'
                          /\ RollbackAllowance(r) <= RollbackAllowance(r)'
  <2> TAKE r \in Requests
  <2>1. IInv'
    BY NextOK
  <2>2. /\ ExecutionAllowance(r)' = ExecutionAllowance(r)
        /\ RollbackAllowance(r)' = RollbackAllowance(r)
    BY DEF ExecutionAllowance, RollbackAllowance
  <2> QED BY <2>1, <2>2, AllowanceTypes
<1> QED BY <1>1, FollowsUntouched, NextOK, QuietClaims

(* What the actions outside the workers do to executions and rollbacks.     *)
LEMMA HandlersKeepClaims ==
    ASSUME IInv, ClaimsInv, [Next]_vars,
           \/ \E i \in Items : Generate(i) \/ EditStore(i) \/ EditTerms(i)
           \/ \E row \in inbox : RecommendationExpires(row)
           \/ \E r \in Requests :
                 \/ RequestExpires(r) \/ SubmitForApproval(r) \/ Approve(r) \/ Reject(r)
                 \/ \E kind \in Kinds : PassKillSwitch(kind, r)
           \/ DisableKillSwitch \/ UNCHANGED vars
    PROVE  ClaimsInv'
<1>1. exec' = exec /\ roll' = roll
  BY DEF Generate, EditStore, EditTerms, RecommendationExpires, RequestExpires,
     SubmitForApproval, Approve, Reject, PassKillSwitch, DisableKillSwitch, vars
<1>2. worker' = worker \/ \E i \in Items : worker' = MarkRaced(worker, i)
  BY DEF Generate, EditStore, EditTerms, RecommendationExpires, RequestExpires,
     SubmitForApproval, Approve, Reject, PassKillSwitch, DisableKillSwitch, vars
<1>3. \A w \in Workers : /\ worker'[w].pc = worker[w].pc
                         /\ worker'[w].job = worker[w].job
                         /\ worker'[w].kind = worker[w].kind
  BY <1>2, RacedTasks
<1> QED BY <1>1, <1>3, UntouchedClaims

(* Changes of an execution row after which it allows as many holders.       *)
AllowsNoLess(e, f) ==
    \/ f = e
    \/ f.cancels = e.cancels /\ (e.status # "running" \/ f.old \/ f.status = "running")
                             /\ (e.old => f.old)
    \/ f.cancels = e.cancels + 1

LEMMA NoLessAllowed ==
    ASSUME NEW e \in ExecutionRows, NEW f,
           \/ f = e
           \/ f = [e EXCEPT !.sched = "due"]
           \/ f = [e EXCEPT !.old = TRUE]
           \/ e.old /\ f = [e EXCEPT !.status = "cancelled"]
           \/ e.status # "running" /\ f = [e EXCEPT !.status = "cancelled"]
           \/ f = [e EXCEPT !.status = "cancelled", !.cancels = e.cancels + 1]
    PROVE  /\ AllowsNoLess(e, f)
           /\ e.status \notin Active => f.status \notin Active
BY DEF ExecutionRows, AllowsNoLess

LEMMA QueueingAllowsNoLess ==
    ASSUME NEW e \in ExecutionRows, NEW f,
           \/ f = e
           \/ /\ e.status # "running"
              /\ \/ f = [e EXCEPT !.status = "queued"]
                 \/ f = [e EXCEPT !.status = "queued", !.sched = "later"]
    PROVE  AllowsNoLess(e, f)
BY DEF ExecutionRows, AllowsNoLess

(* Steps in which a row is queued, cancelled or aged, and no worker moves.   *)
LEMMA RowChanges ==
    ASSUME IInv, ClaimsInv, [Next]_vars, worker' = worker,
           \A r \in Requests :
               /\ RollbackFollows(r)'
               /\ \/ roll'[r] = roll[r]
                  \/ roll[r].status # "running"
               /\ AllowsNoLess(exec[r], exec'[r])
    PROVE  ClaimsInv'
<1>1. \A r \in Requests : /\ ExecutionAllowance(r) <= ExecutionAllowance(r)'
                          /\ RollbackAllowance(r) <= RollbackAllowance(r)'
  <2> TAKE r \in Requests
  <2>1. exec[r] \in ExecutionRows /\ exec'[r] \in ExecutionRows
    BY NextOK, AllowanceTypes
  <2> QED BY <2>1 DEF ExecutionAllowance, RollbackAllowance, ExecutionRows, AllowsNoLess
<1> QED BY <1>1, NextOK, QuietClaims

(* The kill switch and the clock.                                           *)
LEMMA CancellingKeepsClaims ==
    ASSUME IInv, ClaimsInv, [Next]_vars,
           \/ ExpireStale \/ EnableKillSwitch
           \/ \E r \in Requests : ScheduleArrives(r) \/ ExecutionAges(r)
    PROVE  ClaimsInv'
<1>0. worker' = worker /\ roll' = roll
  BY DEF ExpireStale, EnableKillSwitch, ScheduleArrives, ExecutionAges
<1>1. exec \in [Requests -> ExecutionRows]
  BY DEF IInv, TypeOK
<1>2. ASSUME NEW r \in Requests
      PROVE  \/ exec'[r] = exec[r]
             \/ exec[r].old /\ exec'[r] = [exec[r] EXCEPT !.status = "cancelled"]
             \/ /\ exec[r].status # "running"
                /\ exec'[r] = [exec[r] EXCEPT !.status = "cancelled"]
             \/ exec'[r] = [exec[r] EXCEPT !.status = "cancelled",
                                          !.cancels = exec[r].cancels + 1]
             \/ exec'[r] = [exec[r] EXCEPT !.sched = "due"]
             \/ exec'[r] = [exec[r] EXCEPT !.old = TRUE]
  <2>1. CASE ExpireStale
    BY <1>1, <2>1 DEF ExpireStale
  <2>2. CASE EnableKillSwitch
    <3>1. exec'[r] = IF exec[r].status \in Active
                     THEN [exec[r] EXCEPT !.status = "cancelled",
                             !.cancels = IF exec[r].status = "running"
                                         THEN exec[r].cancels + 1 ELSE exec[r].cancels]
                     ELSE exec[r]
      BY <2>2 DEF EnableKillSwitch
    <3>2. [exec[r] EXCEPT !.status = "cancelled", !.cancels = exec[r].cancels]
            = [exec[r] EXCEPT !.status = "cancelled"]
      BY <1>1 DEF ExecutionRows
    <3> QED BY <3>1, <3>2
  <2>3. CASE \E q \in Requests : ScheduleArrives(q) \/ ExecutionAges(q)
    BY <1>1, <2>3 DEF ScheduleArrives, ExecutionAges
  <2> QED BY <2>1, <2>2, <2>3
<1>3. ASSUME NEW r \in Requests
      PROVE  /\ AllowsNoLess(exec[r], exec'[r])
             /\ exec[r].status \notin Active => exec'[r].status \notin Active
  <2>1. exec[r] \in ExecutionRows
    BY <1>1
  <2> QED BY <1>2, <2>1, NoLessAllowed
<1>4. ASSUME NEW r \in Requests PROVE RollbackFollows(r)'
  BY <1>0, <1>3, StillFollows DEF ClaimsInv
<1> QED BY <1>0, <1>3, <1>4, RowChanges

(* Queueing: an execution that can be published is not active, and one that *)
(* can be rolled back has succeeded.                                       *)
LEMMA QueueingKeepsClaims ==
    ASSUME IInv, ClaimsInv, [Next]_vars, NEW q \in Requests,
           QueuePublish(q) \/ QueueRollback(q)
    PROVE  ClaimsInv'
<1>0. worker' = worker /\ req' = req
  BY DEF QueuePublish, QueueRollback
<1>1. exec \in [Requests -> ExecutionRows] /\ roll \in [Requests -> RollbackRows]
  BY DEF IInv, TypeOK
<1>2. CASE QueuePublish(q)
  <2>1. /\ roll' = roll
        /\ \/ exec' = exec
           \/ /\ Publishable(q)
              /\ \/ exec' = [exec EXCEPT ![q] = [exec[q] EXCEPT !.status = "queued"]]
                 \/ exec' = [exec EXCEPT ![q] = [exec[q] EXCEPT !.status = "queued",
                                                                !.sched = "later"]]
    BY <1>1, <1>2 DEF QueuePublish
  <2>2. ASSUME NEW r \in Requests
        PROVE  \/ exec'[r] = exec[r]
               \/ /\ req[r].status = "approved" /\ exec[r].status \notin Active
                  /\ \/ exec'[r] = [exec[r] EXCEPT !.status = "queued"]
                     \/ exec'[r] = [exec[r] EXCEPT !.status = "queued", !.sched = "later"]
    BY <1>1, <2>1 DEF Publishable
  <2>3. ASSUME NEW r \in Requests PROVE RollbackFollows(r)'
    BY <1>0, <2>1, <2>2 DEF RollbackFollows, ClaimsInv
  <2>4. ASSUME NEW r \in Requests
        PROVE  AllowsNoLess(exec[r], exec'[r])
    <3>1. exec[r] \in ExecutionRows
      BY <1>1
    <3> QED BY <2>2, <3>1, QueueingAllowsNoLess
  <2> QED BY <1>0, <2>1, <2>3, <2>4, RowChanges
<1>3. CASE QueueRollback(q)
  <2>1. /\ exec' = exec
        /\ \/ roll' = roll
           \/ /\ exec[q].status = "succeeded" /\ roll[q].status \notin Active
              /\ roll' = [roll EXCEPT ![q] = [status |-> "queued", attempts |-> 0]]
    BY <1>3 DEF QueueRollback
  <2>2. ASSUME NEW r \in Requests
        PROVE  \/ roll'[r] = roll[r]
               \/ exec[r].status = "succeeded" /\ roll[r].status \notin Active
    BY <1>1, <2>1
  <2>3. ASSUME NEW r \in Requests PROVE RollbackFollows(r)'
    <3>0. exec' = exec /\ RollbackFollows(r)
      BY <2>1 DEF ClaimsInv
    <3>1. CASE roll'[r] = roll[r]
      BY <1>0, <3>0, <3>1 DEF RollbackFollows
    <3>2. CASE exec[r].status = "succeeded"
      <4>1. req[r].status = "published"
        BY <3>2 DEF IInv, StatusAgreement, RowsAgree
      <4> QED BY <1>0, <3>0, <3>2, <4>1 DEF RollbackFollows
    <3> QED BY <2>2, <3>1, <3>2
  <2>4. ASSUME NEW r \in Requests PROVE AllowsNoLess(exec[r], exec'[r])
    BY <2>1 DEF AllowsNoLess
  <2>5. ASSUME NEW r \in Requests PROVE roll'[r] = roll[r] \/ roll[r].status # "running"
    BY <2>2
  <2> QED BY <1>0, <2>3, <2>4, <2>5, RowChanges
<1> QED BY <1>2, <1>3

(* Taking up a task: the row is queued, so it is not old and it allows one  *)
(* more worker than it did.                                                *)
LEMMA ClaimExecutionKeepsClaims ==
    ASSUME IInv, ClaimsInv, [Next]_vars, NEW w \in Workers, ClaimExecution(w)
    PROVE  ClaimsInv'
<1>1. PICK q \in Requests :
        /\ worker[w].pc = "idle" /\ exec[q].status = "queued" /\ ~exec[q].old
        /\ exec' = [exec EXCEPT ![q].status = "running", ![q].attempts = @ + 1]
        /\ worker' = [worker EXCEPT ![w] = [Idle EXCEPT !.pc = "claimed", !.job = q]]
        /\ req' = req /\ roll' = roll
  BY DEF ClaimExecution
<1>2. /\ exec \in [Requests -> ExecutionRows] /\ worker \in [Workers -> Tasks]
      /\ exec' \in [Requests -> ExecutionRows]
  BY NextOK DEF IInv, TypeOK
<1>3. /\ exec'[q].status = "running" /\ exec'[q].cancels = exec[q].cancels
      /\ \A r \in Requests \ {q} : exec'[r] = exec[r]
  <2>1. exec'[q] = [exec[q] EXCEPT !.status = "running", !.attempts = exec[q].attempts + 1]
    BY <1>1, <1>2
  <2>2. exec[q] \in ExecutionRows
    BY <1>2
  <2>3. exec'[q].status = "running" /\ exec'[q].cancels = exec[q].cancels
    BY <2>1, <2>2 DEF ExecutionRows
  <2> QED BY <1>1, <1>2, <2>3
<1>4. ASSUME NEW r \in Requests PROVE RollbackFollows(r)'
  <2>1. RollbackFollows(r)
    BY DEF ClaimsInv
  <2> QED BY <1>1, <1>3, <2>1 DEF RollbackFollows
<1>5. /\ worker'[w].kind = "publish" /\ worker'[w].job = q
      /\ \A v \in Workers \ {w} : worker'[v] = worker[v]
  BY <1>1, <1>2 DEF Idle
<1>6. ASSUME NEW r \in Requests
      PROVE  /\ WithinAllowance("publish", r, ExecutionAllowance(r))'
             /\ WithinAllowance("rollback", r, RollbackAllowance(r))'
  <2>1. /\ ExecutionAllowance(r) \in Nat /\ ExecutionAllowance(r)' \in Nat
        /\ RollbackAllowance(r) \in Nat /\ RollbackAllowance(r)' \in Nat
    BY NextOK, AllowanceTypes
  <2>2. /\ WithinAllowance("publish", r, ExecutionAllowance(r))
        /\ WithinAllowance("rollback", r, RollbackAllowance(r))
    BY DEF ClaimsInv
  <2>3. WithinAllowance("rollback", r, RollbackAllowance(r))'
    <3>1. Holders("rollback", r)' \subseteq Holders("rollback", r)
      BY <1>5 DEF Holders
    <3>2. RollbackAllowance(r)' = RollbackAllowance(r)
      BY <1>1 DEF RollbackAllowance
    <3> QED BY <2>1, <2>2, <3>1, <3>2, FewerHolders DEF WithinAllowance
  <2>4. CASE r # q
    <3>1. Holders("publish", r)' \subseteq Holders("publish", r)
      BY <1>5, <2>4 DEF Holders
    <3>2. ExecutionAllowance(r)' = ExecutionAllowance(r)
      BY <1>3, <2>4 DEF ExecutionAllowance
    <3>3. WithinAllowance("publish", r, ExecutionAllowance(r))'
      BY <2>1, <2>2, <3>1, <3>2, FewerHolders DEF WithinAllowance
    <3> QED BY <2>3, <3>3
  <2>5. CASE r = q
    <3>1. Holders("publish", r)' \subseteq Holders("publish", r) \cup {w}
      BY <1>5 DEF Holders
    <3>2. ExecutionAllowance(r) + 1 <= ExecutionAllowance(r)'
      <4>1. exec[q].cancels \in Nat
        BY <1>2 DEF ExecutionRows
      <4> QED BY <1>1, <1>3, <2>5, <4>1 DEF ExecutionAllowance
    <3>3. WithinAllowance("publish", r, ExecutionAllowance(r))'
      BY <2>1, <2>2, <3>1, <3>2, OneHolderMore DEF WithinAllowance
    <3> QED BY <2>3, <3>3
  <2> QED BY <2>4, <2>5
<1> QED BY <1>4, <1>6 DEF ClaimsInv

LEMMA ClaimRollbackKeepsClaims ==
    ASSUME IInv, ClaimsInv, [Next]_vars, NEW w \in Workers, ClaimRollback(w)
    PROVE  ClaimsInv'
<1>1. PICK q \in Requests :
        /\ worker[w].pc = "idle" /\ roll[q].status = "queued"
        /\ roll' = [roll EXCEPT ![q].status = "running", ![q].attempts = @ + 1]
        /\ worker' = [worker EXCEPT ![w] = [Idle EXCEPT !.pc = "claimed", !.job = q,
                                                       !.kind = "rollback"]]
        /\ req' = req /\ exec' = exec
  BY DEF ClaimRollback
<1>2. /\ roll \in [Requests -> RollbackRows] /\ worker \in [Workers -> Tasks]
  BY DEF IInv, TypeOK
<1>3. /\ roll'[q].status = "running"
      /\ \A r \in Requests \ {q} : roll'[r] = roll[r]
  <2>1. roll'[q] = [roll[q] EXCEPT !.status = "running", !.attempts = roll[q].attempts + 1]
    BY <1>1, <1>2
  <2>2. roll[q] \in RollbackRows
    BY <1>2
  <2>3. roll'[q].status = "running"
    BY <2>1, <2>2 DEF RollbackRows
  <2> QED BY <1>1, <1>2, <2>3
<1>4. ASSUME NEW r \in Requests PROVE RollbackFollows(r)'
  <2>1. RollbackFollows(r)
    BY DEF ClaimsInv
  <2> QED BY <1>1, <1>3, <2>1 DEF RollbackFollows
<1>5. /\ worker'[w].kind = "rollback" /\ worker'[w].job = q
      /\ \A v \in Workers \ {w} : worker'[v] = worker[v]
  BY <1>1, <1>2 DEF Idle
<1>6. ASSUME NEW r \in Requests
      PROVE  /\ WithinAllowance("publish", r, ExecutionAllowance(r))'
             /\ WithinAllowance("rollback", r, RollbackAllowance(r))'
  <2>1. /\ ExecutionAllowance(r) \in Nat /\ ExecutionAllowance(r)' \in Nat
        /\ RollbackAllowance(r) \in Nat /\ RollbackAllowance(r)' \in Nat
    BY NextOK, AllowanceTypes
  <2>2. /\ WithinAllowance("publish", r, ExecutionAllowance(r))
        /\ WithinAllowance("rollback", r, RollbackAllowance(r))
    BY DEF ClaimsInv
  <2>3. WithinAllowance("publish", r, ExecutionAllowance(r))'
    <3>1. Holders("publish", r)' \subseteq Holders("publish", r)
      BY <1>5 DEF Holders
    <3>2. ExecutionAllowance(r)' = ExecutionAllowance(r)
      BY <1>1 DEF ExecutionAllowance
    <3> QED BY <2>1, <2>2, <3>1, <3>2, FewerHolders DEF WithinAllowance
  <2>4. CASE r # q
    <3>1. Holders("rollback", r)' \subseteq Holders("rollback", r)
      BY <1>5, <2>4 DEF Holders
    <3>2. RollbackAllowance(r)' = RollbackAllowance(r)
      BY <1>3, <2>4 DEF RollbackAllowance
    <3>3. WithinAllowance("rollback", r, RollbackAllowance(r))'
      BY <2>1, <2>2, <3>1, <3>2, FewerHolders DEF WithinAllowance
    <3> QED BY <2>3, <3>3
  <2>5. CASE r = q
    <3>1. Holders("rollback", r)' \subseteq Holders("rollback", r) \cup {w}
      BY <1>5 DEF Holders
    <3>2. RollbackAllowance(r) + 1 <= RollbackAllowance(r)'
      BY <1>1, <1>3, <2>5 DEF RollbackAllowance
    <3>3. WithinAllowance("rollback", r, RollbackAllowance(r))'
      BY <2>1, <2>2, <3>1, <3>2, OneHolderMore DEF WithinAllowance
    <3> QED BY <2>3, <3>3
  <2> QED BY <2>4, <2>5
<1> QED BY <1>4, <1>6 DEF ClaimsInv

(* Working on a task, without leaving it.                                   *)
LEMMA WorkingKeepsClaims ==
    ASSUME IInv, ClaimsInv, [Next]_vars, NEW w \in Workers,
           Start(w) \/ Load(w) \/ Write(w) \/ Verify(w) \/ CallFails(w)
    PROVE  ClaimsInv'
<1>1. exec' = exec /\ roll' = roll
  BY DEF Start, Load, Write, Verify, CallFails
<1>2. worker' \in Moves
  BY StartMoves, LoadMoves, WriteMoves, VerifyMoves, CallFailsMoves
<1> QED BY <1>1, <1>2, UntouchedClaims DEF Moves

(* What a worker that leaves its task makes of the execution row.           *)
LEMMA LeavesExecution ==
    ASSUME NEW e \in ExecutionRows, NEW f,
           \/ f = e
           \/ e.status = "running" /\ f = [e EXCEPT !.status = "queued", !.sched = "later"]
           \/ \E s : /\ s \in {"succeeded", "failed", "conflict", "cancelled", "rolled_back"}
                     /\ f = [e EXCEPT !.status = s]
    PROVE  /\ f.cancels = e.cancels /\ f.old = e.old
           /\ e.status \notin Active => f.status \notin Active
BY DEF ExecutionRows

(* Leaving it: dropped, requeued, or settled.                               *)
LEMMA LeavingKeepsClaims ==
    ASSUME IInv, ClaimsInv, [Next]_vars, NEW w \in Workers,
           \/ DropJob(w) \/ RequeueExecution(w) \/ RequeueRollback(w)
           \/ FinishExecution(w) \/ FinishRollback(w)
    PROVE  ClaimsInv'
<1>0. worker[w].pc # "idle" /\ worker' = [worker EXCEPT ![w] = Idle]
  BY DEF DropJob, RequeueExecution, RequeueRollback, FinishExecution, FinishRollback
<1>1. /\ exec \in [Requests -> ExecutionRows] /\ roll \in [Requests -> RollbackRows]
      /\ worker[w] \in Tasks \ {Idle} /\ worker[w].job \in Requests
  BY <1>0, TaskHasTerms DEF IInv, TypeOK
<1> DEFINE job == worker[w].job
           publish == worker[w].kind = "publish"
<1>2. ASSUME NEW r \in Requests
      PROVE  \/ exec'[r] = exec[r] /\ roll'[r] = roll[r]
             \/ /\ r = job
                /\ \/ /\ publish /\ roll'[r] = roll[r]
                      /\ \/ exec[r].status = "running"
                            /\ exec'[r] = [exec[r] EXCEPT !.status = "queued", !.sched = "later"]
                         \/ \E s : /\ s \in {"succeeded", "failed", "conflict", "cancelled"}
                                   /\ exec'[r] = [exec[r] EXCEPT !.status = s]
                   \/ /\ worker[w].kind = "rollback" /\ roll[r].status # "none"
                      /\ \/ exec'[r] = exec[r]
                         \/ exec'[r] = [exec[r] EXCEPT !.status = "rolled_back"]
  <2>1. CASE DropJob(w)
    BY <2>1 DEF DropJob
  <2>2. CASE RequeueExecution(w)
    BY <1>1, <2>2 DEF RequeueExecution
  <2>3. CASE RequeueRollback(w)
    BY <1>1, <2>3 DEF RequeueRollback
  <2>4. CASE FinishExecution(w)
    <3>1. worker[w].outcome \in {"succeeded", "failed", "conflict", "cancelled"}
      BY <1>1, <2>4 DEF FinishExecution, Tasks, Outcomes
    <3> QED BY <1>1, <2>4, <3>1 DEF FinishExecution
  <2>5. CASE FinishRollback(w)
    <3>1. roll[job].status # "none"
      BY <2>5 DEF FinishRollback, IInv, StatusAgreement, TaskHasRow
    <3> QED BY <1>1, <2>5, <3>1 DEF FinishRollback
  <2> QED BY <2>1, <2>2, <2>3, <2>4, <2>5
<1>3. ASSUME NEW r \in Requests
      PROVE  /\ exec'[r].cancels = exec[r].cancels /\ exec'[r].old = exec[r].old
             /\ exec[r].status \notin Active => exec'[r].status \notin Active
             /\ exec[r].status = "running" /\ exec'[r].status # "running" =>
                   r = job /\ (publish \/ roll[r].status # "none")
             /\ roll'[r].status # "none" => roll[r].status # "none"
             /\ roll[r].status = "running" /\ roll'[r].status # "running" =>
                   r = job /\ worker[w].kind = "rollback"
  <2>1. CASE exec'[r] = exec[r] /\ roll'[r] = roll[r]
    BY <2>1
  <2>2. CASE r = job /\ publish /\ roll'[r] = roll[r]
    <3>1. \/ exec'[r] = exec[r]
          \/ exec[r].status = "running"
             /\ exec'[r] = [exec[r] EXCEPT !.status = "queued", !.sched = "later"]
          \/ \E s : /\ s \in {"succeeded", "failed", "conflict", "cancelled"}
                    /\ exec'[r] = [exec[r] EXCEPT !.status = s]
      BY <1>2, <2>2
    <3>2. exec[r] \in ExecutionRows
      BY <1>1
    <3>3. /\ exec'[r].cancels = exec[r].cancels /\ exec'[r].old = exec[r].old
          /\ exec[r].status \notin Active => exec'[r].status \notin Active
      BY <3>1, <3>2, LeavesExecution
    <3> QED BY <2>2, <3>3
  <2>3. CASE r = job /\ worker[w].kind = "rollback" /\ roll[r].status # "none"
    <3>1. \/ exec'[r] = exec[r]
          \/ exec'[r] = [exec[r] EXCEPT !.status = "rolled_back"]
      BY <1>2, <2>3
    <3>2. exec[r] \in ExecutionRows
      BY <1>1
    <3>3. /\ exec'[r].cancels = exec[r].cancels /\ exec'[r].old = exec[r].old
          /\ exec[r].status \notin Active => exec'[r].status \notin Active
      BY <3>1, <3>2, LeavesExecution
    <3> QED BY <2>3, <3>3
  <2> QED BY <1>2, <2>1, <2>2, <2>3
<1>4. ASSUME NEW r \in Requests PROVE RollbackFollows(r)'
  BY <1>3, StillFollows DEF ClaimsInv
<1>5. ASSUME NEW r \in Requests
      PROVE  /\ ExecutionAllowance(r) <= ExecutionAllowance(r)'
                    + IF worker[w].kind = "publish" /\ worker[w].job = r THEN 1 ELSE 0
             /\ RollbackAllowance(r) <= RollbackAllowance(r)'
                    + IF worker[w].kind = "rollback" /\ worker[w].job = r THEN 1 ELSE 0
  <2>1. RollbackFollows(r) /\ exec[r].cancels \in Nat
    BY <1>1 DEF ClaimsInv, ExecutionRows
  <2>2. roll[r].status # "none" => exec[r].status # "running"
    BY <2>1 DEF RollbackFollows
  <2>3. ExecutionAllowance(r) <= ExecutionAllowance(r)'
                    + IF worker[w].kind = "publish" /\ worker[w].job = r THEN 1 ELSE 0
    BY <1>3, <2>1, <2>2 DEF ExecutionAllowance
  <2>4. RollbackAllowance(r) <= RollbackAllowance(r)'
                    + IF worker[w].kind = "rollback" /\ worker[w].job = r THEN 1 ELSE 0
    BY <1>3 DEF RollbackAllowance
  <2> QED BY <2>3, <2>4
<1> QED BY <1>0, <1>4, <1>5, LeavingClaims, NextOK

(* Every step keeps ClaimsInv.                                              *)
LEMMA ClaimsStep == ASSUME IInv, ClaimsInv, [Next]_vars PROVE ClaimsInv'
<1>1. CASE \/ \E i \in Items : Generate(i) \/ EditStore(i) \/ EditTerms(i)
           \/ \E row \in inbox : RecommendationExpires(row)
           \/ \E r \in Requests :
                 \/ RequestExpires(r) \/ SubmitForApproval(r) \/ Approve(r) \/ Reject(r)
                 \/ \E kind \in Kinds : PassKillSwitch(kind, r)
           \/ DisableKillSwitch \/ UNCHANGED vars
  BY <1>1, HandlersKeepClaims
<1>2. CASE \/ ExpireStale \/ EnableKillSwitch
           \/ \E r \in Requests : ScheduleArrives(r) \/ ExecutionAges(r)
  BY <1>2, CancellingKeepsClaims
<1>3. ASSUME NEW r \in Requests, QueuePublish(r) \/ QueueRollback(r) PROVE ClaimsInv'
  BY <1>3, QueueingKeepsClaims
<1>4. ASSUME NEW w \in Workers, Work(w) \/ DropJob(w) PROVE ClaimsInv'
  BY <1>4, ClaimExecutionKeepsClaims, ClaimRollbackKeepsClaims, WorkingKeepsClaims,
     LeavingKeepsClaims DEF Work
<1> QED BY <1>1, <1>2, <1>3, <1>4 DEF Next

(* However many workers claim, retry, die and come back: an execution is    *)
(* worked on by one more of them than the kill switch cancelled while it   *)
(* ran, and a rollback by one.                                             *)
THEOREM ClaimsAreExclusive == Spec => []ExclusiveClaims
<1>1. Init => ClaimsInv
  <2> SUFFICES ASSUME Init, NEW r \in Requests
               PROVE  /\ RollbackFollows(r)
                      /\ WithinAllowance("publish", r, ExecutionAllowance(r))
                      /\ WithinAllowance("rollback", r, RollbackAllowance(r))
    BY DEF ClaimsInv
  <2>1. Holders("publish", r) = {} /\ Holders("rollback", r) = {}
    BY DEF Init, Holders, Idle
  <2>2. ExecutionAllowance(r) = 0 /\ RollbackAllowance(r) = 0 /\ RollbackFollows(r)
    BY DEF Init, ExecutionAllowance, RollbackAllowance, RollbackFollows, NoExecution,
       NoRollback
  <2> QED BY <2>1, <2>2, FS_EmptySet DEF WithinAllowance
<1>2. IInv /\ ClaimsInv /\ [Next]_vars => ClaimsInv'
  BY ClaimsStep
<1>3. IInv /\ ClaimsInv => ExclusiveClaims
  <2> SUFFICES ASSUME IInv, ClaimsInv, NEW r \in Requests
               PROVE  /\ Cardinality(Holders("publish", r)) <= 1 + exec[r].cancels
                      /\ Cardinality(Holders("rollback", r)) <= 1
    BY DEF ExclusiveClaims
  <2>1. /\ WithinAllowance("publish", r, ExecutionAllowance(r))
        /\ WithinAllowance("rollback", r, RollbackAllowance(r))
    BY DEF ClaimsInv
  <2>2. exec[r].cancels \in Nat
    BY DEF IInv, TypeOK, ExecutionRows
  <2>3. /\ Cardinality(Holders("publish", r)) \in Nat
        /\ Cardinality(Holders("rollback", r)) \in Nat
    BY <2>1, FS_CardinalityType DEF WithinAllowance
  <2> QED BY <2>1, <2>2, <2>3 DEF WithinAllowance, ExecutionAllowance, RollbackAllowance
<1> QED BY <1>1, <1>2, <1>3, Invariance, PTL DEF Spec

-----------------------------------------------------------------------------
(* No conflict is overlooked *)

(* Once a request exists, its recommendation is never replaced.             *)
LEMMA DealsAreKept ==
    ASSUME IInv, [Next]_vars, NEW r \in Requests, req[r].status # "none"
    PROVE  req'[r].row = req[r].row
<1>1. req \in [Requests -> RequestRows]
  BY DEF IInv, TypeOK
<1>2. ASSUME NEW q \in Requests, SubmitForApproval(q) PROVE req'[r].row = req[r].row
  BY <1>1, <1>2 DEF SubmitForApproval
<1>3. ASSUME NEW q \in Requests, Approve(q) PROVE req'[r].row = req[r].row
  <2>1. PICK role : req' = [req EXCEPT ![q] = [req[q] EXCEPT !.status = "approved",
                                                            !.by = role]]
    BY <1>1, <1>3 DEF Approve
  <2>2. [req[r] EXCEPT !.status = "approved", !.by = role].row = req[r].row
    BY <1>1 DEF RequestRows, NoRequest
  <2> QED BY <1>1, <2>1, <2>2
<1>4. ASSUME \A q \in Requests : KeepsTerms(q) PROVE req'[r].row = req[r].row
  BY <1>4 DEF KeepsTerms
<1> QED BY <1>2, <1>3, <1>4, TermsChange

(* What UnracedViewIsCurrent says of one worker.                            *)
ViewIsCurrent(w) ==
    ~worker[w].raced =>
        /\ worker[w].pc = "write" =>
              /\ Effective(store, Item(w)) = From(w)
              /\ worker[w].kind = "publish" => store[Item(w)].sale = None
        /\ worker[w].pc = "settle" /\ worker[w].outcome = "succeeded" =>
              Effective(store, Item(w)) = To(w)

(* A worker's view stays current as long as it does nothing and its item    *)
(* keeps its prices.                                                       *)
LEMMA ViewKept ==
    ASSUME IInv, [Next]_vars, NEW w \in Workers, ViewIsCurrent(w),
           worker'[w] = worker[w],
           worker[w].pc \in {"write", "settle"} => store'[Item(w)] = store[Item(w)]
    PROVE  ViewIsCurrent(w)'
<1> SUFFICES ASSUME worker[w].pc \in {"write", "settle"} PROVE ViewIsCurrent(w)'
  BY DEF ViewIsCurrent
<1>1. req'[worker[w].job].row = req[worker[w].job].row
  BY TaskHasTerms, DealsAreKept
<1>2. Item(w)' = Item(w) /\ From(w)' = From(w) /\ To(w)' = To(w)
  BY <1>1 DEF Item, From, To
<1>3. Effective(store, Item(w))' = Effective(store, Item(w))
  BY <1>2 DEF Effective
<1> QED BY <1>2, <1>3 DEF ViewIsCurrent

(* The live read of a worker.                                               *)
LEMMA LoadIsCurrent ==
    ASSUME IInv, NEW w \in Workers, Load(w) PROVE ViewIsCurrent(w)'
<1>1. /\ worker' = [AfterRead(w) EXCEPT ![w].raced = FALSE]
      /\ store' = store /\ req' = req
      /\ worker \in [Workers -> Tasks] /\ worker[w] \in Tasks \ {Idle}
  BY TaskHasTerms DEF Load, IInv, TypeOK
<1>2. PICK t \in Tasks \ {Idle} : t = worker[w]
  BY <1>1
<1> DEFINE live == Effective(store, Item(w))
<1>3. \/ worker'[w] = [t EXCEPT !.pc = "settle", !.outcome = "conflict", !.raced = FALSE]
      \/ /\ worker'[w] = [t EXCEPT !.pc = "settle", !.outcome = "succeeded", !.raced = FALSE]
         /\ live = To(w)
      \/ /\ worker'[w] = [t EXCEPT !.pc = "write", !.raced = FALSE]
         /\ live = From(w)
         /\ t.kind = "publish" => store[Item(w)].sale = None
  BY <1>1, <1>2 DEF AfterRead, Settle, Goto
<1>4. ASSUME worker'[w].job = t.job /\ worker'[w].kind = t.kind
      PROVE  /\ Item(w)' = Item(w) /\ From(w)' = From(w) /\ To(w)' = To(w)
             /\ Effective(store, Item(w))' = live
             /\ store'[Item(w)'].sale = store[Item(w)].sale
  <2>1. Item(w)' = Item(w) /\ From(w)' = From(w) /\ To(w)' = To(w)
    BY <1>1, <1>2, <1>4 DEF Item, From, To
  <2> QED BY <1>1, <2>1 DEF Effective
<1>5. CASE worker'[w] = [t EXCEPT !.pc = "settle", !.outcome = "conflict", !.raced = FALSE]
  <2>1. worker'[w].pc = "settle" /\ worker'[w].outcome = "conflict"
    BY <1>5 DEF Tasks
  <2> QED BY <2>1 DEF ViewIsCurrent
<1>6. CASE /\ worker'[w] = [t EXCEPT !.pc = "settle", !.outcome = "succeeded", !.raced = FALSE]
           /\ live = To(w)
  <2>1. /\ worker'[w].pc = "settle"
        /\ worker'[w].job = t.job /\ worker'[w].kind = t.kind
    BY <1>6 DEF Tasks
  <2> QED BY <1>4, <1>6, <2>1 DEF ViewIsCurrent
<1>7. CASE /\ worker'[w] = [t EXCEPT !.pc = "write", !.raced = FALSE]
           /\ live = From(w)
           /\ t.kind = "publish" => store[Item(w)].sale = None
  <2>1. /\ worker'[w].pc = "write"
        /\ worker'[w].job = t.job /\ worker'[w].kind = t.kind
    BY <1>7 DEF Tasks
  <2> QED BY <1>4, <1>7, <2>1 DEF ViewIsCurrent
<1> QED BY <1>3, <1>5, <1>6, <1>7

(* The read-back.                                                           *)
LEMMA VerifyIsCurrent ==
    ASSUME IInv, NEW w \in Workers, Verify(w) PROVE ViewIsCurrent(w)'
<1>1. /\ worker' = [AfterReadBack(w) EXCEPT ![w].raced = FALSE]
      /\ store' = store /\ req' = req
      /\ worker \in [Workers -> Tasks] /\ worker[w] \in Tasks \ {Idle}
  BY TaskHasTerms DEF Verify, IInv, TypeOK
<1>0. PICK t \in Tasks \ {Idle} : t = worker[w]
  BY <1>1
<1>2. PICK o \in {"succeeded", "conflict"} :
        /\ worker'[w] = [t EXCEPT !.pc = "settle", !.outcome = o, !.raced = FALSE]
        /\ o = "succeeded" => Effective(store, Item(w)) = To(w)
  BY <1>0, <1>1 DEF AfterReadBack, Settle
<1>3. /\ worker'[w].job = worker[w].job /\ worker'[w].kind = worker[w].kind
      /\ worker'[w].pc = "settle" /\ worker'[w].outcome = o
  <2>1. /\ worker'[w].job = t.job /\ worker'[w].kind = t.kind
        /\ worker'[w].pc = "settle" /\ worker'[w].outcome = o
    BY <1>2 DEF Tasks
  <2> QED BY <1>0, <2>1
<1>4. Item(w)' = Item(w) /\ To(w)' = To(w)
  BY <1>1, <1>3 DEF Item, To
<1>5. Effective(store, Item(w))' = Effective(store, Item(w))
  BY <1>1, <1>4 DEF Effective
<1> QED BY <1>2, <1>3, <1>4, <1>5 DEF ViewIsCurrent

(* An edit of the store marks everyone who has read the old price.          *)
LEMMA EditKeepsViews ==
    ASSUME IInv, [Next]_vars, UnracedViewIsCurrent, NEW i \in Items, EditStore(i),
           NEW w \in Workers
    PROVE  ViewIsCurrent(w)'
<1>1. worker' = MarkRaced(worker, i) /\ req' = req
      /\ worker \in [Workers -> Tasks]
      /\ \A j \in Items \ {i} : store'[j] = store[j]
  BY DEF EditStore, IInv, TypeOK
<1>2. CASE worker[w].pc \in {"write", "verify", "settle"} /\ Item(w) = i
  <2>1. worker[w] \in Tasks \ {Idle}
    BY <1>2, TaskHasTerms
  <2>2. worker'[w] = [worker[w] EXCEPT !.raced = TRUE]
    BY <1>1, <1>2 DEF MarkRaced
  <2>3. worker'[w].raced
    BY <2>1, <2>2 DEF Tasks
  <2> QED BY <2>3 DEF ViewIsCurrent
<1>3. CASE ~(worker[w].pc \in {"write", "verify", "settle"} /\ Item(w) = i)
  <2>1. worker'[w] = worker[w]
    BY <1>1, <1>3 DEF MarkRaced
  <2>2. worker[w].pc \in {"write", "settle"} => store'[Item(w)] = store[Item(w)]
    BY <1>1, <1>3, TaskHasTerms
  <2>3. ViewIsCurrent(w)
    BY DEF UnracedViewIsCurrent, ViewIsCurrent
  <2> QED BY <2>1, <2>2, <2>3, ViewKept
<1> QED BY <1>2, <1>3

(* What a write leaves of the worker's own task.                            *)
LEMMA WriterMovesOn ==
    ASSUME IInv, NEW w \in Workers, Write(w)
    PROVE  \/ worker'[w].pc \in {"verify", "requeue"}
           \/ worker'[w].pc = "settle" /\ worker'[w].outcome = "failed"
           \/ /\ worker'[w].pc = "settle" /\ worker'[w].outcome = "conflict"
              /\ Effective(store', Item(w)) # To(w)
<1>1. PICK ws \in {Goto(w, "verify"), Settle(w, "conflict"), Errored(w, FALSE)} :
         /\ worker' = [MarkRaced(ws, Item(w)) EXCEPT ![w].raced = worker[w].raced]
         /\ \/ ws \in {Goto(w, "verify"), Errored(w, FALSE)}
            \/ Effective(store', Item(w)) # To(w)
  BY Zenon DEF Write
<1>2. /\ worker \in [Workers -> Tasks] /\ worker[w] \in Tasks \ {Idle}
  BY TaskHasTerms DEF Write, IInv, TypeOK
<1>3. ws \in Moves /\ ws[w].pc # "idle"
  <2>1. worker[w].pc # "idle"
    BY DEF Write
  <2> QED BY <1>1, <2>1, GotoMoves, SettleMoves, ErroredMoves
<1>4. PICK t \in Tasks \ {Idle} : t = worker[w]
  BY <1>2
<1>5. \/ ws[w] = [t EXCEPT !.pc = "verify"]
      \/ ws[w] = [t EXCEPT !.pc = "requeue"]
      \/ ws[w] = [t EXCEPT !.pc = "settle", !.outcome = "failed"]
      \/ /\ ws[w] = [t EXCEPT !.pc = "settle", !.outcome = "conflict"]
         /\ Effective(store', Item(w)) # To(w)
  BY <1>1, <1>2, <1>4 DEF Goto, Settle, Errored
<1>6. \/ ws[w].pc \in {"verify", "requeue"}
      \/ ws[w].pc = "settle" /\ ws[w].outcome = "failed"
      \/ /\ ws[w].pc = "settle" /\ ws[w].outcome = "conflict"
         /\ Effective(store', Item(w)) # To(w)
  BY <1>5 DEF Tasks
<1>7. /\ MarkRaced(ws, Item(w))[w].pc = ws[w].pc
      /\ MarkRaced(ws, Item(w))[w].outcome = ws[w].outcome
      /\ MarkRaced(ws, Item(w))[w] \in Tasks \ {Idle}
  BY <1>3, MarkRacedKeeps DEF Moves, Idle
<1>8. worker'[w].pc = ws[w].pc /\ worker'[w].outcome = ws[w].outcome
  <2>1. worker'[w] = [MarkRaced(ws, Item(w))[w] EXCEPT !.raced = worker[w].raced]
    BY <1>1 DEF MarkRaced
  <2> QED BY <1>7, <2>1 DEF Tasks
<1> QED BY <1>6, <1>8

(* So does a worker's write; the writer itself must read the price back.    *)
LEMMA WriteKeepsViews ==
    ASSUME IInv, [Next]_vars, UnracedViewIsCurrent, NEW v \in Workers, Write(v),
           NEW w \in Workers
    PROVE  ViewIsCurrent(w)'
<1>1. PICK ws \in {Goto(v, "verify"), Settle(v, "conflict"), Errored(v, FALSE)} :
         worker' = [MarkRaced(ws, Item(v)) EXCEPT ![v].raced = worker[v].raced]
  BY Zenon DEF Write
<1>2. /\ worker \in [Workers -> Tasks] /\ worker[v] \in Tasks \ {Idle}
      /\ Item(v) \in Items /\ \A j \in Items \ {Item(v)} : store'[j] = store[j]
  BY TaskHasTerms DEF Write, IInv, TypeOK
<1>4. CASE w = v
  BY <1>4, WriterMovesOn DEF ViewIsCurrent
<1>5. CASE w # v
  <2>1. ws[w] = worker[w]
    BY <1>1, <1>2, <1>5 DEF Goto, Settle, Errored
  <2>2. worker'[w] = MarkRaced(ws, Item(v))[w]
    BY <1>1, <1>5 DEF MarkRaced
  <2>3. CASE worker[w].pc \in {"write", "verify", "settle"} /\ Item(w) = Item(v)
    <3>1. worker[w] \in Tasks \ {Idle}
      BY <2>3, TaskHasTerms
    <3>2. worker'[w] = [worker[w] EXCEPT !.raced = TRUE]
      BY <2>1, <2>2, <2>3 DEF MarkRaced
    <3>3. worker'[w].raced
      BY <3>1, <3>2 DEF Tasks
    <3> QED BY <3>3 DEF ViewIsCurrent
  <2>4. CASE ~(worker[w].pc \in {"write", "verify", "settle"} /\ Item(w) = Item(v))
    <3>1. worker'[w] = worker[w]
      BY <2>1, <2>2, <2>4 DEF MarkRaced
    <3>2. worker[w].pc \in {"write", "settle"} => store'[Item(w)] = store[Item(w)]
      BY <1>2, <2>4, TaskHasTerms
    <3>3. ViewIsCurrent(w)
      BY DEF UnracedViewIsCurrent, ViewIsCurrent
    <3> QED BY <3>1, <3>2, <3>3, ViewKept
  <2> QED BY <2>3, <2>4
<1> QED BY <1>4, <1>5

(* A task that starts is loaded, or settled because the kill switch is on.  *)
LEMMA StartedTask ==
    ASSUME IInv, NEW w \in Workers, Start(w)
    PROVE  /\ \/ worker'[w].pc = "load"
              \/ /\ worker'[w].pc = "settle" /\ switch = "on"
                 /\ worker'[w].outcome \in {"cancelled", "failed"}
           /\ worker'[w].raced = worker[w].raced
<1> DEFINE n == IF worker[w].kind = "publish" THEN exec[worker[w].job].attempts
                                              ELSE roll[worker[w].job].attempts
           o(blocked) == IF ~blocked THEN "none"
                         ELSE IF worker[w].kind = "publish" THEN "cancelled" ELSE "failed"
<1>1. PICK blocked \in BOOLEAN :
         /\ blocked => switch = "on"
         /\ worker' = [worker EXCEPT ![w].attempts = n,
                      ![w].pc = IF blocked THEN "settle" ELSE "load",
                      ![w].outcome = o(blocked)]
  <2>1. PICK unread \in BOOLEAN :
           worker' = [worker EXCEPT ![w].attempts = n,
                        ![w].pc = IF switch = "on" /\ ~unread THEN "settle" ELSE "load",
                        ![w].outcome = o(switch = "on" /\ ~unread)]
    BY DEF Start
  <2> HIDE DEF n, o
  <2> QED BY <2>1
<1>2. o(TRUE) \in {"cancelled", "failed"}
  OBVIOUS
<1>3. PICK t \in Tasks \ {Idle} : t = worker[w]
  BY TaskHasTerms DEF Start
<1>4. worker \in [Workers -> Tasks]
  BY DEF IInv, TypeOK
<1> HIDE DEF n, o
<1>5. worker'[w] = [t EXCEPT !.attempts = n, !.pc = IF blocked THEN "settle" ELSE "load",
                             !.outcome = o(blocked)]
  BY <1>1, <1>3, <1>4
<1>6. CASE blocked
  <2>1. worker'[w] = [t EXCEPT !.attempts = n, !.pc = "settle", !.outcome = o(TRUE)]
    BY <1>5, <1>6
  <2>2. /\ worker'[w].pc = "settle" /\ worker'[w].outcome = o(TRUE)
        /\ worker'[w].raced = t.raced
    BY <2>1 DEF Tasks
  <2> QED BY <1>1, <1>2, <1>3, <1>6, <2>2
<1>7. CASE ~blocked
  BY <1>3, <1>5, <1>7 DEF Tasks
<1> QED BY <1>6, <1>7

(* The other steps of a worker leave it with no view to go stale.           *)
LEMMA OtherWorkHasNoView ==
    ASSUME IInv, NEW w \in Workers,
           \/ ClaimExecution(w) \/ ClaimRollback(w) \/ Start(w) \/ CallFails(w)
           \/ RequeueExecution(w) \/ RequeueRollback(w)
           \/ FinishExecution(w) \/ FinishRollback(w) \/ DropJob(w)
    PROVE  ViewIsCurrent(w)'
<1> SUFFICES \/ worker'[w].pc \in {"idle", "claimed", "load", "requeue"}
             \/ worker'[w].outcome \in {"failed", "cancelled"} /\ worker'[w].pc = "settle"
  BY DEF ViewIsCurrent
<1>1. worker \in [Workers -> Tasks]
  BY DEF IInv, TypeOK
<1>2. CASE \/ ClaimExecution(w) \/ ClaimRollback(w)
           \/ RequeueExecution(w) \/ RequeueRollback(w)
           \/ FinishExecution(w) \/ FinishRollback(w) \/ DropJob(w)
  <2>1. \/ worker'[w] = Idle
        \/ \E r : worker'[w] = [Idle EXCEPT !.pc = "claimed", !.job = r]
        \/ \E r : worker'[w] = [Idle EXCEPT !.pc = "claimed", !.job = r, !.kind = "rollback"]
    BY <1>1, <1>2 DEF ClaimExecution, ClaimRollback, RequeueExecution, RequeueRollback,
       FinishExecution, FinishRollback, DropJob
  <2>2. /\ Idle.pc = "idle"
        /\ \A r : /\ [Idle EXCEPT !.pc = "claimed", !.job = r].pc = "claimed"
                  /\ [Idle EXCEPT !.pc = "claimed", !.job = r, !.kind = "rollback"].pc = "claimed"
    BY DEF Idle
  <2> QED BY <2>1, <2>2
<1>3. CASE Start(w)
  BY <1>3, StartedTask
<1>4. CASE CallFails(w)
  <2>1. \/ worker'[w] = [worker[w] EXCEPT !.pc = "requeue"]
        \/ worker'[w] = [worker[w] EXCEPT !.pc = "settle", !.outcome = "failed"]
    BY <1>1, <1>4 DEF CallFails, Errored, Goto, Settle
  <2>2. worker[w] \in Tasks \ {Idle}
    BY <1>4, TaskHasTerms DEF CallFails
  <2> QED BY <2>1, <2>2 DEF Tasks
<1> QED BY <1>2, <1>3, <1>4

(* Every step keeps the unraced views current.                              *)
LEMMA ViewsStep ==
    ASSUME IInv, UnracedViewIsCurrent, [Next]_vars PROVE UnracedViewIsCurrent'
<1> SUFFICES ASSUME NEW w \in Workers PROVE ViewIsCurrent(w)'
  BY DEF UnracedViewIsCurrent, ViewIsCurrent
<1>0. ViewIsCurrent(w) /\ worker \in [Workers -> Tasks]
  BY DEF UnracedViewIsCurrent, ViewIsCurrent, IInv, TypeOK
<1>1. CASE worker'[w] = worker[w] /\ store' = store
  BY <1>0, <1>1, ViewKept
<1>2. CASE \E i \in Items : EditStore(i)
  BY <1>2, EditKeepsViews
<1>3. CASE \E v \in Workers : Write(v)
  BY <1>3, WriteKeepsViews
<1>4. ASSUME \/ \E i \in Items : Generate(i) \/ EditTerms(i)
             \/ \E row \in inbox : RecommendationExpires(row)
             \/ \E r \in Requests :
                   \/ RequestExpires(r) \/ SubmitForApproval(r) \/ Approve(r) \/ Reject(r)
                   \/ QueuePublish(r) \/ QueueRollback(r)
                   \/ ScheduleArrives(r) \/ ExecutionAges(r)
                   \/ \E kind \in Kinds : PassKillSwitch(kind, r)
             \/ ExpireStale \/ EnableKillSwitch \/ DisableKillSwitch
             \/ UNCHANGED vars
      PROVE  worker' = worker /\ store' = store
  BY <1>4 DEF Generate, EditTerms, RecommendationExpires, RequestExpires, SubmitForApproval,
     Approve, Reject, QueuePublish, QueueRollback, ScheduleArrives, ExecutionAges,
     PassKillSwitch, ExpireStale, EnableKillSwitch, DisableKillSwitch, vars
<1>5. ASSUME NEW v \in Workers, Work(v) \/ DropJob(v), ~Write(v) PROVE ViewIsCurrent(w)'
  <2>1. CASE w = v
    BY <1>5, <2>1, LoadIsCurrent, VerifyIsCurrent, OtherWorkHasNoView DEF Work
  <2>2. CASE w # v
    <3>1. store' = store
      BY <1>5 DEF Work, ClaimExecution, ClaimRollback, Start, Load, Verify, CallFails,
         RequeueExecution, RequeueRollback, FinishExecution, FinishRollback, DropJob
    <3>2. worker'[w] = worker[w]
      BY <1>0, <1>5, <2>2 DEF Work, ClaimExecution, ClaimRollback, Start, Load, Verify,
         CallFails, RequeueExecution, RequeueRollback, FinishExecution, FinishRollback,
         DropJob, Goto, Settle, Errored, AfterRead, AfterReadBack
    <3> QED BY <1>1, <3>1, <3>2
  <2> QED BY <2>1, <2>2
<1> QED BY <1>1, <1>2, <1>3, <1>4, <1>5 DEF Next

(* A worker about to write, or to record success, looks at the price it     *)
(* decided on unless someone changed the store behind its back.            *)
THEOREM UnracedViewsAreCurrent == Spec => []UnracedViewIsCurrent
<1>1. Init => UnracedViewIsCurrent
  BY DEF Init, UnracedViewIsCurrent, Idle
<1>2. IInv /\ UnracedViewIsCurrent /\ [Next]_vars => UnracedViewIsCurrent'
  BY ViewsStep
<1> QED BY <1>1, <1>2, Invariance, PTL DEF Spec

-----------------------------------------------------------------------------
(* The pipeline implements GovernedPrices *)

Refusal == {"rejected", "expired"}

Undoable(r) == exec[r].status = "succeeded" \/ roll[r].status # "none"

(* What GovernedPrices sees of a request, and a step it does not see.       *)
SameDeal(r) ==
    /\ req'[r].row = req[r].row
    /\ req'[r].by = req[r].by
    /\ req'[r].status \in Refusal <=> req[r].status \in Refusal

SameStore == store' = store /\ spent'["storeEdit"] = spent["storeEdit"]

LEMMA StutterStep ==
    ASSUME SameStore, \A r \in Requests : SameDeal(r) /\ (Undoable(r)' <=> Undoable(r))
    PROVE  UNCHANGED Governed!vars
<1>1. UNCHANGED [i \in Items |-> store[i].regular] /\ UNCHANGED spent["storeEdit"]
  BY DEF SameStore
<1>2. UNCHANGED [r \in Requests |-> req[r].row]
  BY DEF SameDeal
<1>3. UNCHANGED {r \in Requests : req[r].by # NoRole}
  BY DEF SameDeal
<1>4. UNCHANGED {r \in Requests : req[r].status \in {"rejected", "expired"}}
  BY DEF SameDeal, Refusal
<1>5. UNCHANGED {r \in Requests : exec[r].status = "succeeded" \/ roll[r].status # "none"}
  BY DEF Undoable
<1> QED BY <1>1, <1>2, <1>3, <1>4, <1>5 DEF Governed!vars

(* Spending another hazard is no edit of the store.                         *)
LEMMA OtherSpending ==
    ASSUME IInv, NEW h \in Hazards \ {"storeEdit"}, Spend(h)
    PROVE  spent'["storeEdit"] = spent["storeEdit"]
BY DEF Spend, IInv, TypeOK, Hazards

LEMMA SameRequests == ASSUME req' = req PROVE \A r \in Requests : SameDeal(r)
BY DEF SameDeal

(* The steps GovernedPrices does not see: of the engine, the clock, the     *)
(* queues and the kill switch.                                             *)
LEMMA UnseenHandlers ==
    ASSUME IInv,
           \/ \E i \in Items : Generate(i) \/ EditTerms(i)
           \/ \E r \in Requests : \E kind \in Kinds : PassKillSwitch(kind, r)
           \/ DisableKillSwitch \/ UNCHANGED vars
    PROVE  UNCHANGED Governed!vars
<1>1. UNCHANGED <<store, req, exec, roll>>
  BY DEF Generate, EditTerms, PassKillSwitch, DisableKillSwitch, vars
<1>2. spent' = spent \/ Spend("generation") \/ Spend("termEdit")
  BY DEF Generate, EditTerms, PassKillSwitch, DisableKillSwitch, vars
<1>3. SameStore
  BY <1>1, <1>2, OtherSpending DEF SameStore, Hazards
<1>4. \A r \in Requests : Undoable(r)' <=> Undoable(r)
  BY <1>1 DEF Undoable
<1> QED BY <1>1, <1>3, <1>4, SameRequests, StutterStep

LEMMA UnseenExpiries ==
    ASSUME IInv,
           \/ \E row \in inbox : RecommendationExpires(row)
           \/ \E r \in Requests : RequestExpires(r) \/ ScheduleArrives(r) \/ ExecutionAges(r)
    PROVE  UNCHANGED Governed!vars
<1>1. /\ req \in [Requests -> RequestRows] /\ exec \in [Requests -> ExecutionRows]
      /\ roll' = roll /\ store' = store
  BY DEF IInv, TypeOK, RecommendationExpires, RequestExpires, ScheduleArrives, ExecutionAges
<1>2. spent' = spent \/ Spend("day")
  BY DEF RecommendationExpires, RequestExpires, ScheduleArrives, ExecutionAges
<1>3. SameStore
  BY <1>1, <1>2, OtherSpending DEF SameStore, Hazards
<1>4. ASSUME NEW r \in Requests PROVE SameDeal(r)
  <2>1. req'[r] = req[r] \/ req'[r] = [req[r] EXCEPT !.fresh = FALSE]
    BY <1>1 DEF RecommendationExpires, RequestExpires, ScheduleArrives, ExecutionAges, Expired
  <2>2. CASE req'[r] = req[r]
    BY <2>2 DEF SameDeal
  <2>3. CASE req'[r] = [req[r] EXCEPT !.fresh = FALSE]
    <3>1. req[r] \in RequestRows
      BY <1>1
    <3>2. /\ req'[r].row = req[r].row /\ req'[r].by = req[r].by
          /\ req'[r].status = req[r].status
      BY <2>3, <3>1 DEF RequestRows, NoRequest
    <3> QED BY <3>2 DEF SameDeal
  <2> QED BY <2>1, <2>2, <2>3
<1>5. ASSUME NEW r \in Requests PROVE Undoable(r)' <=> Undoable(r)
  <2>1. \/ exec'[r] = exec[r]
        \/ exec'[r] = [exec[r] EXCEPT !.sched = "due"]
        \/ exec'[r] = [exec[r] EXCEPT !.old = TRUE]
    BY <1>1 DEF RecommendationExpires, RequestExpires, ScheduleArrives, ExecutionAges
  <2>2. exec[r] \in ExecutionRows
    BY <1>1
  <2>3. exec'[r].status = exec[r].status
    BY <2>1, <2>2 DEF ExecutionRows
  <2> QED BY <1>1, <2>3 DEF Undoable
<1> QED BY <1>3, <1>4, <1>5, StutterStep

(* Queueing and cancelling concern jobs that are not done.                  *)
LEMMA UnseenQueueing ==
    ASSUME IInv,
           \/ \E r \in Requests : QueuePublish(r) \/ QueueRollback(r)
           \/ EnableKillSwitch
    PROVE  UNCHANGED Governed!vars
<1>1. /\ exec \in [Requests -> ExecutionRows] /\ roll \in [Requests -> RollbackRows]
      /\ store' = store /\ req' = req
  BY DEF IInv, TypeOK, QueuePublish, QueueRollback, EnableKillSwitch
<1>2. spent' = spent \/ Spend("schedule") \/ Spend("rollback") \/ Spend("toggle")
  BY DEF QueuePublish, QueueRollback, EnableKillSwitch
<1>3. SameStore
  BY <1>1, <1>2, OtherSpending DEF SameStore, Hazards
<1>4. ASSUME NEW r \in Requests PROVE Undoable(r)' <=> Undoable(r)
  <2>1. exec[r] \in ExecutionRows /\ roll[r] \in RollbackRows
    BY <1>1
  <2>2. CASE \E q \in Requests : QueuePublish(q)
    <3>1. /\ roll' = roll
          /\ \/ exec'[r] = exec[r]
             \/ /\ req[r].status = "approved"
                /\ \/ exec'[r] = [exec[r] EXCEPT !.status = "queued"]
                   \/ exec'[r] = [exec[r] EXCEPT !.status = "queued", !.sched = "later"]
      BY <1>1, <2>2 DEF QueuePublish, Publishable
    <3>2. req[r].status = "approved" => exec[r].status # "succeeded"
      BY DEF IInv, StatusAgreement, RowsAgree
    <3>3. exec'[r] = exec[r] \/ (exec'[r].status = "queued" /\ exec[r].status # "succeeded")
      BY <2>1, <3>1, <3>2 DEF ExecutionRows
    <3> QED BY <3>1, <3>3 DEF Undoable
  <2>3. CASE \E q \in Requests : QueueRollback(q)
    <3>1. /\ exec' = exec
          /\ \/ roll'[r] = roll[r]
             \/ /\ exec[r].status = "succeeded"
                /\ roll'[r] = [status |-> "queued", attempts |-> 0]
      BY <1>1, <2>3 DEF QueueRollback
    <3> QED BY <3>1 DEF Undoable
  <2>4. CASE EnableKillSwitch
    <3>1. /\ roll' = roll
          /\ \/ exec'[r] = exec[r]
             \/ /\ exec[r].status \in Active
                /\ \E c : exec'[r] = [exec[r] EXCEPT !.status = "cancelled", !.cancels = c]
      BY <1>1, <2>4 DEF EnableKillSwitch
    <3>2. exec'[r] = exec[r] \/ (exec'[r].status = "cancelled" /\ exec[r].status \in Active)
      BY <2>1, <3>1 DEF ExecutionRows
    <3> QED BY <3>1, <3>2 DEF Undoable
  <2> QED BY <2>2, <2>3, <2>4
<1> QED BY <1>1, <1>3, <1>4, SameRequests, StutterStep

(* Workers, but for their writes and their settling of executions.          *)
LEMMA UnseenWork ==
    ASSUME IInv, NEW w \in Workers,
           \/ ClaimExecution(w) \/ ClaimRollback(w) \/ Start(w) \/ Load(w) \/ Verify(w)
           \/ CallFails(w) \/ RequeueExecution(w) \/ RequeueRollback(w) \/ DropJob(w)
    PROVE  UNCHANGED Governed!vars
<1>1. /\ exec \in [Requests -> ExecutionRows] /\ roll \in [Requests -> RollbackRows]
      /\ store' = store /\ req' = req
  BY DEF IInv, TypeOK, ClaimExecution, ClaimRollback, Start, Load, Verify, CallFails,
     RequeueExecution, RequeueRollback, DropJob
<1>2. spent' = spent \/ Spend("fault") \/ Spend("drop")
  BY DEF ClaimExecution, ClaimRollback, Start, Load, Verify, CallFails,
     RequeueExecution, RequeueRollback, DropJob
<1>3. SameStore
  BY <1>1, <1>2, OtherSpending DEF SameStore, Hazards
<1>4. ASSUME NEW r \in Requests PROVE Undoable(r)' <=> Undoable(r)
  <2>1. exec[r] \in ExecutionRows /\ roll[r] \in RollbackRows
    BY <1>1
  <2>2. CASE \/ Start(w) \/ Load(w) \/ Verify(w) \/ CallFails(w) \/ DropJob(w)
    <3>1. exec' = exec /\ roll' = roll
      BY <2>2 DEF Start, Load, Verify, CallFails, DropJob
    <3> QED BY <3>1 DEF Undoable
  <2>3. CASE ClaimExecution(w)
    <3>0. PICK q \in Requests :
            /\ exec[q].status = "queued"
            /\ exec' = [exec EXCEPT ![q].status = "running", ![q].attempts = @ + 1]
      BY <2>3 DEF ClaimExecution
    <3>1. /\ roll' = roll
          /\ \/ exec'[r] = exec[r]
             \/ /\ exec[r].status = "queued"
                /\ \E n : exec'[r] = [exec[r] EXCEPT !.status = "running", !.attempts = n]
      BY <1>1, <2>3, <3>0 DEF ClaimExecution
    <3>2. exec'[r] = exec[r] \/ (exec'[r].status = "running" /\ exec[r].status = "queued")
      BY <2>1, <3>1 DEF ExecutionRows
    <3> QED BY <3>1, <3>2 DEF Undoable
  <2>4. CASE ClaimRollback(w)
    <3>0. PICK q \in Requests :
            /\ roll[q].status = "queued"
            /\ roll' = [roll EXCEPT ![q].status = "running", ![q].attempts = @ + 1]
      BY <2>4 DEF ClaimRollback
    <3>1. /\ exec' = exec
          /\ \/ roll'[r] = roll[r]
             \/ /\ roll[r].status = "queued"
                /\ \E n : roll'[r] = [roll[r] EXCEPT !.status = "running", !.attempts = n]
      BY <1>1, <2>4, <3>0 DEF ClaimRollback
    <3>2. roll'[r] = roll[r] \/ (roll'[r].status = "running" /\ roll[r].status = "queued")
      BY <2>1, <3>1 DEF RollbackRows
    <3> QED BY <3>1, <3>2 DEF Undoable
  <2>5. CASE RequeueExecution(w)
    <3>1. /\ roll' = roll
          /\ \/ exec'[r] = exec[r]
             \/ /\ exec[r].status = "running"
                /\ exec'[r] = [exec[r] EXCEPT !.status = "queued", !.sched = "later"]
      BY <1>1, <2>5 DEF RequeueExecution
    <3>2. exec'[r] = exec[r] \/ (exec'[r].status = "queued" /\ exec[r].status = "running")
      BY <2>1, <3>1 DEF ExecutionRows
    <3> QED BY <3>1, <3>2 DEF Undoable
  <2>6. CASE RequeueRollback(w)
    <3>1. /\ exec' = exec
          /\ \/ roll'[r] = roll[r]
             \/ /\ roll[r].status = "running"
                /\ roll'[r] = [roll[r] EXCEPT !.status = "queued"]
      BY <1>1, <2>6 DEF RequeueRollback
    <3>2. roll'[r] = roll[r] \/ (roll'[r].status = "queued" /\ roll[r].status = "running")
      BY <2>1, <3>1 DEF RollbackRows
    <3> QED BY <3>1, <3>2 DEF Undoable
  <2> QED BY <2>2, <2>3, <2>4, <2>5, <2>6
<1> QED BY <1>1, <1>3, <1>4, SameRequests, StutterStep

(* A request that exists proposes something, one that does not nothing.     *)
LEMMA DealOfRequest ==
    ASSUME IInv, ApprovalInv, NEW r \in Requests
    PROVE  /\ req[r].status = "none" => req[r].row = NoRow /\ req[r].by = NoRole
           /\ req[r].status # "none" => req[r].row \in Rows /\ req[r].row # NoRow
           /\ req[r].status \in Decided => req[r].by # NoRole
           /\ req[r].status \notin Decided => req[r].by = NoRole
<1>1. req[r] = NoRequest \/ req[r] \in [status : RequestStatus \ {"none"}, row : Rows,
                                       by : Roles \cup {NoRole}, fresh : BOOLEAN]
  BY DEF IInv, TypeOK, RequestRows
<1>2. /\ req[r].status = "none" => req[r].row = NoRow
      /\ req[r].status # "none" => req[r].row \in Rows
  BY <1>1 DEF NoRequest, RequestStatus
<1>3. GrantedTerms(r)
  BY DEF ApprovalInv
<1>4. "none" \notin Decided
  BY DEF Decided
<1> QED BY <1>2, <1>3, <1>4, RowsAssumption, PublishingAssumption DEF GrantedTerms

(* Submitting a request proposes, approving it grants.                      *)
LEMMA SubmitProposes ==
    ASSUME IInv, ApprovalInv, NEW r \in Requests, SubmitForApproval(r)
    PROVE  Governed!Propose(r)
<1>1. PICK row \in inbox :
        /\ req[r].status = "none"
        /\ req' = [req EXCEPT ![r] = [status |-> "pending", row |-> row,
                                      by |-> NoRole, fresh |-> TRUE]]
        /\ UNCHANGED <<store, exec, roll, spent>>
  BY DEF SubmitForApproval
<1>2. row \in Rows /\ req \in [Requests -> RequestRows] /\ req[r].by = NoRole
      /\ req[r].row = NoRow
  BY <1>1, DealOfRequest DEF IInv, TypeOK
<1>3. /\ req'[r].row = row /\ req'[r].by = NoRole /\ req'[r].status = "pending"
      /\ \A q \in Requests \ {r} : req'[q] = req[q]
  BY <1>1, <1>2
<1>4. [q \in Requests |-> req[q].row]' = [[q \in Requests |-> req[q].row] EXCEPT ![r] = row]
  BY <1>3
<1>5. {q \in Requests : req[q].by # NoRole}' = {q \in Requests : req[q].by # NoRole}
  BY <1>2, <1>3
<1>6. {q \in Requests : req[q].status \in {"rejected", "expired"}}'
        = {q \in Requests : req[q].status \in {"rejected", "expired"}}
  BY <1>1, <1>3
<1>7. UNCHANGED <<[i \in Items |-> store[i].regular],
                  {q \in Requests : exec[q].status = "succeeded" \/ roll[q].status # "none"},
                  spent["storeEdit"]>>
  BY <1>1
<1> QED BY <1>2, <1>4, <1>5, <1>6, <1>7 DEF Governed!Propose

LEMMA ApproveIsAGrant ==
    ASSUME IInv, ApprovalInv, NEW r \in Requests, Approve(r)
    PROVE  Governed!Grant(r)
<1>1. PICK role \in Roles :
        /\ req[r].status = "pending"
        /\ req' = [req EXCEPT ![r].status = "approved", ![r].by = role]
        /\ UNCHANGED <<store, exec, roll, spent>>
  BY DEF Approve, Decidable
<1>2. /\ req \in [Requests -> RequestRows] /\ req[r] \in RequestRows \ {NoRequest}
      /\ req[r].row # NoRow /\ req[r].by = NoRole /\ role # NoRole
  BY <1>1, DealOfRequest, PendingRow, PublishingAssumption DEF IInv, TypeOK, Decided
<1>3. /\ req'[r].row = req[r].row /\ req'[r].by = role /\ req'[r].status = "approved"
      /\ \A q \in Requests \ {r} : req'[q] = req[q]
  BY <1>1, <1>2 DEF RequestRows
<1>4. [q \in Requests |-> req[q].row]' = [q \in Requests |-> req[q].row]
  BY <1>3
<1>5. {q \in Requests : req[q].by # NoRole}' = {q \in Requests : req[q].by # NoRole} \cup {r}
  BY <1>2, <1>3
<1>6. {q \in Requests : req[q].status \in {"rejected", "expired"}}'
        = {q \in Requests : req[q].status \in {"rejected", "expired"}}
  BY <1>1, <1>3
<1>7. UNCHANGED <<[i \in Items |-> store[i].regular],
                  {q \in Requests : exec[q].status = "succeeded" \/ roll[q].status # "none"},
                  spent["storeEdit"]>>
  BY <1>1
<1> QED BY <1>1, <1>2, <1>4, <1>5, <1>6, <1>7 DEF Governed!Grant, Governed!Open

(* Rejecting and expiring refuse requests that are still open.              *)
LEMMA RefusingStep ==
    ASSUME IInv, ApprovalInv, NEW R \in SUBSET Requests,
           SameStore, \A q \in Requests : Undoable(q)' <=> Undoable(q),
           \A q \in R : req[q].status = "pending" /\ req'[q].status \in Refusal
                        /\ req'[q].row = req[q].row /\ req'[q].by = req[q].by,
           \A q \in Requests \ R : SameDeal(q)
    PROVE  Governed!Refuse(R)
<1>1. \A q \in R : /\ req[q].row # NoRow /\ req[q].by = NoRole
                   /\ req[q].status \notin {"rejected", "expired"}
  BY DealOfRequest DEF Decided
<1>2. [q \in Requests |-> req[q].row]' = [q \in Requests |-> req[q].row]
  BY DEF SameDeal
<1>3. {q \in Requests : req[q].by # NoRole}' = {q \in Requests : req[q].by # NoRole}
  BY DEF SameDeal
<1>4. {q \in Requests : req[q].status \in {"rejected", "expired"}}'
        = {q \in Requests : req[q].status \in {"rejected", "expired"}} \cup R
  BY DEF SameDeal, Refusal
<1>5. UNCHANGED <<[i \in Items |-> store[i].regular],
                  {q \in Requests : exec[q].status = "succeeded" \/ roll[q].status # "none"},
                  spent["storeEdit"]>>
  BY DEF SameStore, Undoable
<1> QED BY <1>1, <1>2, <1>3, <1>4, <1>5 DEF Governed!Refuse, Governed!Open

LEMMA RejectRefuses ==
    ASSUME IInv, ApprovalInv, NEW r \in Requests, Reject(r)
    PROVE  Governed!Refuse({r})
<1>1. /\ req[r].status = "pending" /\ req \in [Requests -> RequestRows]
      /\ req' = [req EXCEPT ![r] = [req[r] EXCEPT !.status = "rejected"]]
      /\ UNCHANGED <<store, exec, roll, spent>>
  BY DEF Reject, Decidable, IInv, TypeOK
<1>2. req[r] \in RequestRows \ {NoRequest}
  BY <1>1, PendingRow
<1>3. /\ req'[r].row = req[r].row /\ req'[r].by = req[r].by /\ req'[r].status = "rejected"
      /\ \A q \in Requests \ {r} : req'[q] = req[q]
  BY <1>1, <1>2 DEF RequestRows
<1>4. SameStore /\ \A q \in Requests : Undoable(q)' <=> Undoable(q)
  BY <1>1 DEF SameStore, Undoable
<1>5. \A q \in Requests \ {r} : SameDeal(q)
  BY <1>3 DEF SameDeal
<1> QED BY <1>1, <1>3, <1>4, <1>5, RefusingStep DEF Refusal

LEMMA ExpireStaleRefuses ==
    ASSUME IInv, ApprovalInv, ExpireStale
    PROVE  \E R \in SUBSET Requests : Governed!Refuse(R)
<1>0. PICK R \in SUBSET Requests :
        R = {r \in Requests : req[r].status = "pending" /\ ~req[r].fresh}
  OBVIOUS
<1>1. /\ req \in [Requests -> RequestRows] /\ exec \in [Requests -> ExecutionRows]
      /\ store' = store /\ spent' = spent /\ roll' = roll
  BY DEF IInv, TypeOK, ExpireStale
<1>2. ASSUME NEW r \in Requests
      PROVE  \/ r \notin R /\ req'[r] = req[r]
             \/ r \in R /\ req'[r] = [req[r] EXCEPT !.status = "expired"]
             \/ /\ r \notin R /\ req[r].status = "approved"
                /\ req'[r] = [req[r] EXCEPT !.status = "failed"]
  BY <1>0, <1>1 DEF ExpireStale, Awaited
<1>3. ASSUME NEW r \in R
      PROVE  /\ req[r].status = "pending" /\ req'[r].status \in Refusal
             /\ req'[r].row = req[r].row /\ req'[r].by = req[r].by
  <2>1. /\ r \in Requests /\ req[r].status = "pending"
        /\ req'[r] = [req[r] EXCEPT !.status = "expired"]
    BY <1>0, <1>2
  <2> QED BY <2>1, StatusChange DEF Refusal
<1>4. ASSUME NEW r \in Requests \ R PROVE SameDeal(r)
  <2>1. CASE req'[r] = req[r]
    BY <2>1 DEF SameDeal
  <2>2. CASE req[r].status = "approved" /\ req'[r] = [req[r] EXCEPT !.status = "failed"]
    BY <2>2, StatusChange DEF SameDeal, Refusal
  <2> QED BY <1>2, <2>1, <2>2
<1>5. ASSUME NEW r \in Requests PROVE Undoable(r)' <=> Undoable(r)
  <2>1. \/ exec'[r] = exec[r]
        \/ exec[r].status \in Active /\ exec'[r] = [exec[r] EXCEPT !.status = "cancelled"]
    BY <1>1 DEF ExpireStale
  <2>2. exec[r] \in ExecutionRows
    BY <1>1
  <2>3. exec'[r] = exec[r] \/ (exec[r].status \in Active /\ exec'[r].status = "cancelled")
    BY <2>1, <2>2 DEF ExecutionRows
  <2> QED BY <1>1, <2>3 DEF Undoable
<1>6. SameStore
  BY <1>1 DEF SameStore
<1>7. /\ \A q \in R : req[q].status = "pending" /\ req'[q].status \in Refusal
                     /\ req'[q].row = req[q].row /\ req'[q].by = req[q].by
      /\ \A q \in Requests \ R : SameDeal(q)
      /\ \A q \in Requests : Undoable(q)' <=> Undoable(q)
  BY <1>3, <1>4, <1>5
<1>8. Governed!Refuse(R)
  BY <1>6, <1>7, RefusingStep, Zenon
<1> QED BY <1>8

(* A write publishes what was granted, or undoes what was confirmed.        *)
LEMMA WriteIsGoverned ==
    ASSUME IInv, ApprovalInv, NEW w \in Workers, Write(w)
    PROVE  \E r \in Requests : Governed!Publish(r) \/ Governed!Undo(r)
<1>1. PICK r \in Requests : r = worker[w].job
  BY TaskHasTerms DEF Write
<1>2. /\ req[r].status \in Decided /\ req[r].by # NoRole /\ Item(w) \in Items
      /\ worker[w].kind \in Kinds
  <2>1. /\ req[r].status \notin {"none", "pending", "rejected", "expired"}
        /\ req[r] \in RequestRows \ {NoRequest} /\ Item(w) \in Items
        /\ worker[w] \in Tasks \ {Idle}
    BY <1>1, TaskHasTerms DEF Write
  <2>2. req[r].status \in Decided /\ worker[w].kind \in Kinds
    BY <2>1 DEF RequestRows, RequestStatus, Decided, Tasks
  <2> QED BY <2>1, <2>2, DealOfRequest
<1>3. /\ store' = [store EXCEPT ![Item(w)].regular = To(w)]
      /\ store \in [Items -> [regular : Prices, sale : Prices \cup {None}]]
      /\ UNCHANGED <<req, exec, roll>>
  BY DEF Write, IInv, TypeOK
<1>4. spent'["storeEdit"] = spent["storeEdit"]
  <2>1. spent' = spent \/ Spend("fault")
    BY DEF Write
  <2> QED BY <2>1, OtherSpending DEF Hazards
<1>5. [i \in Items |-> store[i].regular]'
        = [[i \in Items |-> store[i].regular] EXCEPT ![Item(w)] = To(w)]
  BY <1>2, <1>3
<1>6. UNCHANGED <<[q \in Requests |-> req[q].row],
                  {q \in Requests : req[q].by # NoRole},
                  {q \in Requests : req[q].status \in {"rejected", "expired"}},
                  {q \in Requests : exec[q].status = "succeeded" \/ roll[q].status # "none"},
                  spent["storeEdit"]>>
  BY <1>3, <1>4
<1>7. [q \in Requests |-> req[q].row][r] = req[r].row
  OBVIOUS
<1>8. CASE worker[w].kind = "publish"
  <2>1. Item(w) = req[r].row.item /\ To(w) = req[r].row.target
    BY <1>1, <1>8 DEF Item, To
  <2>2. Governed!Publish(r)
    BY <1>2, <1>5, <1>6, <1>7, <2>1 DEF Governed!Publish
  <2> QED BY <2>2
<1>9. CASE worker[w].kind = "rollback"
  <2>1. Item(w) = req[r].row.item /\ To(w) = req[r].row.previous
    BY <1>1, <1>9 DEF Item, To
  <2>2. roll[r].status # "none"
    BY <1>1, <1>9 DEF Write, IInv, StatusAgreement, TaskHasRow
  <2>3. Governed!Undo(r)
    BY <1>2, <1>5, <1>6, <1>7, <2>1, <2>2 DEF Governed!Undo
  <2> QED BY <2>3
<1> QED BY <1>2, <1>8, <1>9 DEF Kinds

(* Settling an execution confirms it, or withdraws what another worker      *)
(* confirmed; settling a rollback is not seen.                             *)
LEMMA FinishIsGoverned ==
    ASSUME IInv, ApprovalInv, NEW w \in Workers, FinishExecution(w)
    PROVE  \/ \E r \in Requests : Governed!Confirm(r) \/ Governed!Withdraw(r)
           \/ UNCHANGED Governed!vars
<1>1. PICK r \in Requests, o \in {worker[w].outcome} : r = worker[w].job /\ o = worker[w].outcome
  BY TaskHasTerms DEF FinishExecution
<1> DEFINE q == IF o = "succeeded" THEN "published" ELSE "failed"
<1>2. /\ store' = store /\ spent' = spent /\ roll' = roll
      /\ exec' = [exec EXCEPT ![r] = [exec[r] EXCEPT !.status = o]]
      /\ req' = [req EXCEPT ![r] = [req[r] EXCEPT !.status = q]]
      /\ req \in [Requests -> RequestRows] /\ exec \in [Requests -> ExecutionRows]
  BY <1>1 DEF FinishExecution, IInv, TypeOK
<1>3. /\ req[r].status \in Decided /\ req[r].by # NoRole
  <2>1. /\ req[r].status \notin {"none", "pending", "rejected", "expired"}
        /\ req[r] \in RequestRows \ {NoRequest}
    BY <1>1, TaskHasTerms DEF FinishExecution
  <2>2. req[r].status \in Decided
    BY <2>1 DEF RequestRows, RequestStatus, Decided
  <2> QED BY <2>2, DealOfRequest
<1>4. q \in {"published", "failed"}
  OBVIOUS
<1> HIDE DEF q
<1>5. /\ req'[r].row = req[r].row /\ req'[r].by = req[r].by /\ req'[r].status = q
      /\ \A p \in Requests \ {r} : req'[p] = req[p]
  BY <1>2, StatusChange
<1>6. exec'[r].status = o /\ \A p \in Requests \ {r} : exec'[p] = exec[p]
  <2>1. [exec[r] EXCEPT !.status = o].status = o
    BY <1>2 DEF ExecutionRows
  <2> QED BY <1>2, <2>1
<1>7. \A p \in Requests : SameDeal(p)
  BY <1>3, <1>4, <1>5 DEF SameDeal, Refusal, Decided
<1>8. SameStore
  BY <1>2 DEF SameStore
<1>9. UNCHANGED <<[i \in Items |-> store[i].regular],
                  [p \in Requests |-> req[p].row],
                  {p \in Requests : req[p].by # NoRole},
                  {p \in Requests : req[p].status \in {"rejected", "expired"}},
                  spent["storeEdit"]>>
  BY <1>7, <1>8 DEF SameDeal, SameStore, Refusal
<1> DEFINE Done == {p \in Requests : exec[p].status = "succeeded" \/ roll[p].status # "none"}
<1>10. CASE o = "succeeded"
  <2>1. Done' = Done \cup {r}
    BY <1>2, <1>6, <1>10
  <2>2. Governed!Confirm(r)
    BY <1>3, <1>9, <2>1 DEF Governed!Confirm
  <2> QED BY <2>2
<1>11. CASE o # "succeeded" /\ roll[r].status = "none"
  <2>1. Done' = Done \ {r}
    BY <1>2, <1>6, <1>11
  <2>2. Governed!Withdraw(r)
    BY <1>9, <2>1 DEF Governed!Withdraw
  <2> QED BY <2>2
<1>12. CASE roll[r].status # "none"
  <2>1. \A p \in Requests : Undoable(p)' <=> Undoable(p)
    BY <1>2, <1>6, <1>12 DEF Undoable
  <2> QED BY <1>7, <1>8, <2>1, StutterStep
<1> QED BY <1>10, <1>11, <1>12

LEMMA FinishRollbackUnseen ==
    ASSUME IInv, NEW w \in Workers, FinishRollback(w)
    PROVE  UNCHANGED Governed!vars
<1>1. PICK r \in Requests, o \in {worker[w].outcome} : r = worker[w].job /\ o = worker[w].outcome
  BY TaskHasTerms DEF FinishRollback
<1>2. /\ store' = store /\ spent' = spent
      /\ roll' = [roll EXCEPT ![r] = [roll[r] EXCEPT !.status = o]]
      /\ \/ exec' = exec /\ req' = req
         \/ /\ exec' = [exec EXCEPT ![r] = [exec[r] EXCEPT !.status = "rolled_back"]]
            /\ req' = [req EXCEPT ![r] = [req[r] EXCEPT !.status = "rolled_back"]]
      /\ req \in [Requests -> RequestRows] /\ exec \in [Requests -> ExecutionRows]
      /\ roll \in [Requests -> RollbackRows]
  BY <1>1 DEF FinishRollback, IInv, TypeOK
<1>3. /\ roll[r].status # "none" /\ o # "none"
      /\ req[r].status \notin {"none", "pending", "rejected", "expired"}
  <2>1. worker[w] \in Tasks \ {Idle}
    BY TaskHasTerms DEF FinishRollback
  <2>2. o # "none"
    BY <1>1, <2>1 DEF FinishRollback, Tasks
  <2>3. roll[r].status # "none"
    BY <1>1 DEF FinishRollback, IInv, StatusAgreement, TaskHasRow
  <2> QED BY <1>1, <2>2, <2>3, TaskHasTerms DEF FinishRollback
<1>4. ASSUME NEW p \in Requests PROVE SameDeal(p)
  <2>1. \/ req'[p] = req[p]
        \/ p = r /\ req'[p] = [req[p] EXCEPT !.status = "rolled_back"]
    BY <1>2
  <2>2. CASE req'[p] = req[p]
    BY <2>2 DEF SameDeal
  <2>3. CASE p = r /\ req'[p] = [req[p] EXCEPT !.status = "rolled_back"]
    BY <1>3, <2>3, StatusChange DEF SameDeal, Refusal
  <2> QED BY <2>1, <2>2, <2>3
<1>5. ASSUME NEW p \in Requests PROVE Undoable(p)' <=> Undoable(p)
  <2>1. CASE p # r
    BY <1>2, <2>1 DEF Undoable
  <2>2. CASE p = r
    <3>1. roll'[r].status = o
      BY <1>2 DEF RollbackRows
    <3> QED BY <1>3, <2>2, <3>1 DEF Undoable
  <2> QED BY <2>1, <2>2
<1>6. SameStore
  BY <1>2 DEF SameStore
<1> QED BY <1>4, <1>5, <1>6, StutterStep

(* An edit of the store is an edit by hand.                                 *)
LEMMA EditStoreIsByHand ==
    ASSUME IInv, NEW i \in Items, EditStore(i)
    PROVE  Governed!EditByHand(i)
<1>1. PICK listing \in [regular : Prices, sale : Prices \cup {None}] :
        /\ store' = [store EXCEPT ![i] = listing]
        /\ Spend("storeEdit")
        /\ UNCHANGED <<req, exec, roll>>
  BY DEF EditStore
<1>2. store \in [Items -> [regular : Prices, sale : Prices \cup {None}]]
  BY DEF IInv, TypeOK
<1>3. [j \in Items |-> store[j].regular]'
        = [[j \in Items |-> store[j].regular] EXCEPT ![i] = listing.regular]
  BY <1>1, <1>2
<1>4. listing.regular \in Prices
  BY <1>1
<1>5. spent'["storeEdit"] = spent["storeEdit"] + 1
  BY <1>1 DEF Spend, IInv, TypeOK, Hazards
<1>6. UNCHANGED <<[q \in Requests |-> req[q].row],
                  {q \in Requests : req[q].by # NoRole},
                  {q \in Requests : req[q].status \in {"rejected", "expired"}},
                  {q \in Requests : exec[q].status = "succeeded" \/ roll[q].status # "none"}>>
  BY <1>1
<1> QED BY <1>3, <1>4, <1>5, <1>6 DEF Governed!EditByHand

(* The initial states of the pipeline are initial states of GovernedPrices. *)
LEMMA InitIsGoverned == Init => Governed!Init
<1> SUFFICES ASSUME Init PROVE Governed!Init
  OBVIOUS
<1>1. [i \in Items |-> store[i].regular] \in [Items -> Prices]
  <2>1. \A i \in Items : store[i].regular \in Prices
    BY PublishingAssumption DEF Init
  <2> QED BY <2>1
<1>2. [r \in Requests |-> req[r].row] = [r \in Requests |-> NoRow]
  BY DEF Init, NoRequest
<1>3. /\ {r \in Requests : req[r].by # NoRole} = {}
      /\ {r \in Requests : req[r].status \in {"rejected", "expired"}} = {}
      /\ {r \in Requests : exec[r].status = "succeeded" \/ roll[r].status # "none"} = {}
  BY DEF Init, NoRequest, NoExecution, NoRollback
<1>4. spent["storeEdit"] = 0
  BY DEF Init, Hazards
<1> QED BY <1>1, <1>2, <1>3, <1>4 DEF Governed!Init

(* Every step of the pipeline is one of GovernedPrices, or none.            *)
LEMMA StepIsGoverned ==
    ASSUME IInv, ApprovalInv, [Next]_vars PROVE [Governed!Next]_(Governed!vars)
<1>1. ASSUME NEW i \in Items, EditStore(i) PROVE Governed!Next
  BY <1>1, EditStoreIsByHand DEF Governed!Next
<1>2. ASSUME NEW r \in Requests, SubmitForApproval(r) \/ Approve(r) \/ Reject(r)
      PROVE  Governed!Next
  <2>1. {r} \in SUBSET Requests
    OBVIOUS
  <2> QED BY <1>2, <2>1, SubmitProposes, ApproveIsAGrant, RejectRefuses DEF Governed!Next
<1>3. ASSUME ExpireStale PROVE Governed!Next
  BY <1>3, ExpireStaleRefuses DEF Governed!Next
<1>4. ASSUME NEW w \in Workers, Write(w) PROVE Governed!Next
  BY <1>4, WriteIsGoverned DEF Governed!Next
<1>5. ASSUME NEW w \in Workers, FinishExecution(w)
      PROVE  [Governed!Next]_(Governed!vars)
  BY <1>5, FinishIsGoverned DEF Governed!Next
<1>6. ASSUME \/ \E i \in Items : Generate(i) \/ EditTerms(i)
             \/ \E row \in inbox : RecommendationExpires(row)
             \/ \E r \in Requests :
                   \/ RequestExpires(r) \/ QueuePublish(r) \/ QueueRollback(r)
                   \/ ScheduleArrives(r) \/ ExecutionAges(r)
                   \/ \E kind \in Kinds : PassKillSwitch(kind, r)
             \/ EnableKillSwitch \/ DisableKillSwitch \/ UNCHANGED vars
      PROVE  UNCHANGED Governed!vars
  BY <1>6, UnseenHandlers, UnseenExpiries, UnseenQueueing
<1>7. ASSUME NEW w \in Workers, Work(w) \/ DropJob(w), ~Write(w), ~FinishExecution(w)
      PROVE  UNCHANGED Governed!vars
  BY <1>7, UnseenWork, FinishRollbackUnseen DEF Work
<1> QED BY <1>1, <1>2, <1>3, <1>4, <1>5, <1>6, <1>7 DEF Next

(* Whatever the interleaving of handlers, workers, faults and the clock:    *)
(* the store's prices change by hand, to an approved request's price, or   *)
(* back to the one it replaced, and a refused request is never approved.   *)
THEOREM PipelineIsGoverned == Spec => ImplementsGovernedPrices
<1>1. Init => Governed!Init
  BY InitIsGoverned
<1>2. IInv /\ ApprovalInv /\ [Next]_vars => [Governed!Next]_(Governed!vars)
  BY StepIsGoverned
<1>3. Spec => Governed!Spec
  BY <1>1, <1>2, Invariance, ApprovalInvariance, PTL DEF Spec, Governed!Spec
<1> QED BY <1>3 DEF ImplementsGovernedPrices

-----------------------------------------------------------------------------
(* One worker, and nobody else in the store *)

(* With one worker, and as long as nobody edits the store by hand, no live  *)
(* read is ever overtaken.                                                 *)
NoRaces == \A w \in Workers : ~worker[w].raced

LEMMA NeverSpent ==
    ASSUME IInv, NEW h \in Hazards, \A b \in Bounds : b[h] = 0
    PROVE  ~Spend(h)
<1>1. spent \in [Hazards -> Nat]
  BY DEF IInv, TypeOK
<1>2. [spent EXCEPT ![h] = @ + 1][h] = spent[h] + 1 /\ spent[h] + 1 # 0
  BY <1>1
<1> QED BY <1>2 DEF Spend

(* Nothing a worker does raises its own flag.                               *)
LEMMA OwnFlag ==
    ASSUME IInv, NEW w \in Workers, Work(w) \/ DropJob(w), ~worker[w].raced
    PROVE  ~worker'[w].raced
<1>0. worker \in [Workers -> Tasks]
  BY DEF IInv, TypeOK
<1>1. CASE \/ ClaimExecution(w) \/ ClaimRollback(w)
           \/ RequeueExecution(w) \/ RequeueRollback(w)
           \/ FinishExecution(w) \/ FinishRollback(w) \/ DropJob(w)
  <2>1. \/ worker'[w] = Idle
        \/ \E r : worker'[w] = [Idle EXCEPT !.pc = "claimed", !.job = r]
        \/ \E r : worker'[w] = [Idle EXCEPT !.pc = "claimed", !.job = r, !.kind = "rollback"]
    BY <1>0, <1>1 DEF ClaimExecution, ClaimRollback, RequeueExecution, RequeueRollback,
       FinishExecution, FinishRollback, DropJob
  <2>2. /\ ~Idle.raced
        /\ \A r : /\ ~[Idle EXCEPT !.pc = "claimed", !.job = r].raced
                  /\ ~[Idle EXCEPT !.pc = "claimed", !.job = r, !.kind = "rollback"].raced
    BY DEF Idle
  <2> QED BY <2>1, <2>2
<1>2. CASE Start(w) \/ CallFails(w) \/ Load(w) \/ Verify(w)
  <2>1. PICK t \in Tasks \ {Idle} : t = worker[w]
    BY <1>2, TaskHasTerms DEF Start, CallFails, Load, Verify
  <2>2. CASE Start(w)
    BY <2>2, StartedTask
  <2>3. CASE CallFails(w)
    <3>1. \/ worker'[w] = [t EXCEPT !.pc = "settle", !.outcome = "failed"]
          \/ worker'[w] = [t EXCEPT !.pc = "requeue"]
      BY <1>0, <2>1, <2>3 DEF CallFails, Errored, Goto, Settle
    <3>2. ~t.raced
      BY <2>1
    <3> QED BY <3>1, <3>2 DEF Tasks
  <2>4. CASE Load(w) \/ Verify(w)
    <3>1. \/ worker'[w] = [t EXCEPT !.pc = "write", !.raced = FALSE]
          \/ \E o \in {"succeeded", "conflict"} :
               worker'[w] = [t EXCEPT !.pc = "settle", !.outcome = o, !.raced = FALSE]
      BY <1>0, <2>1, <2>4 DEF Load, Verify, AfterRead, AfterReadBack, Goto, Settle
    <3> QED BY <3>1 DEF Tasks
  <2> QED BY <1>2, <2>2, <2>3, <2>4
<1>3. CASE Write(w)
  <2>1. PICK ws \in {Goto(w, "verify"), Settle(w, "conflict"), Errored(w, FALSE)} :
           worker' = [MarkRaced(ws, Item(w)) EXCEPT ![w].raced = worker[w].raced]
    BY <1>3, Zenon DEF Write
  <2>2. ws \in Moves /\ ws[w].pc # "idle"
    <3>1. worker[w].pc # "idle"
      BY <1>3 DEF Write
    <3> QED BY <2>1, <3>1, GotoMoves, SettleMoves, ErroredMoves
  <2>3. PICK u \in Tasks \ {Idle} : u = MarkRaced(ws, Item(w))[w]
    BY <2>2, MarkRacedKeeps DEF Moves, Idle
  <2>4. worker'[w] = [u EXCEPT !.raced = worker[w].raced]
    BY <2>1, <2>3 DEF MarkRaced
  <2>5. worker'[w].raced = worker[w].raced
    BY <2>4 DEF Tasks
  <2> QED BY <2>5
<1> QED BY <1>1, <1>2, <1>3 DEF Work

LEMMA NoRacesStep ==
    ASSUME NEW w0, Workers = {w0}, \A b \in Bounds : b["storeEdit"] = 0,
           IInv, NoRaces, [Next]_vars
    PROVE  NoRaces'
<1>1. ASSUME NEW i \in Items, EditStore(i) PROVE FALSE
  BY <1>1, NeverSpent DEF EditStore, Hazards
<1>2. ASSUME \/ \E i \in Items : Generate(i) \/ EditTerms(i)
             \/ \E row \in inbox : RecommendationExpires(row)
             \/ \E r \in Requests :
                   \/ RequestExpires(r) \/ SubmitForApproval(r) \/ Approve(r) \/ Reject(r)
                   \/ QueuePublish(r) \/ QueueRollback(r)
                   \/ ScheduleArrives(r) \/ ExecutionAges(r)
                   \/ \E kind \in Kinds : PassKillSwitch(kind, r)
             \/ ExpireStale \/ EnableKillSwitch \/ DisableKillSwitch
             \/ UNCHANGED vars
      PROVE  worker' = worker
  BY <1>2 DEF Generate, EditTerms, RecommendationExpires, RequestExpires, SubmitForApproval,
     Approve, Reject, QueuePublish, QueueRollback, ScheduleArrives, ExecutionAges,
     PassKillSwitch, ExpireStale, EnableKillSwitch, DisableKillSwitch, vars
<1>3. CASE worker' = worker
  BY <1>3 DEF NoRaces
<1>4. ASSUME NEW w \in Workers, Work(w) \/ DropJob(w) PROVE NoRaces'
  BY <1>4, OwnFlag DEF NoRaces
<1> QED BY <1>1, <1>2, <1>3, <1>4 DEF Next

(* No other hand reaches the store between a read of the sole worker and    *)
(* its write.                                                              *)
LEMMA SoleWorkerHasNoRaces ==
    ASSUME NEW w0, Workers = {w0}, \A b \in Bounds : b["storeEdit"] = 0
    PROVE  Spec => []NoRaces
<1>1. Init => NoRaces
  BY DEF Init, NoRaces, Idle
<1>2. IInv /\ NoRaces /\ [Next]_vars => NoRaces'
  BY NoRacesStep
<1> QED BY <1>1, <1>2, Invariance, PTL DEF Spec

-----------------------------------------------------------------------------
(* The catalogue and the store *)

(* One worker, no variants, nobody edits the store, the kill switch is not  *)
(* turned on, and no execution waits for a day.                            *)
Undisturbed ==
    /\ \E w0 : Workers = {w0}
    /\ \A i \in Items : Parent[i] = i
    /\ \A h \in {"storeEdit", "day", "toggle"}, b \in Bounds : b[h] = 0

Task(kind, r) == IF kind = "publish" THEN exec[r].status ELSE roll[r].status
Target(kind, r) == IF kind = "publish" THEN req[r].row.target ELSE req[r].row.previous
Open(kind, r) == Task(kind, r) \in Active \cup {"failed"}

(* A job that is pending or was given up, and whose price the store shows,  *)
(* explains why the catalogue does not record that price.                  *)
Explains(kind, r, i) ==
    /\ Open(kind, r)
    /\ req[r].row.item = i
    /\ Effective(store, i) = Target(kind, r)
Unsettled(i) == \E r \in Requests, kind \in Kinds : Explains(kind, r, i)
Reconciled(i) ==
    /\ store[i].sale = None
    /\ catalog[i] # Effective(store, i) => Unsettled(i)

(* The worker's job is running; a conflict it is about to record is one     *)
(* with what the store shows.                                              *)
OnTask(w) ==
    /\ worker[w].pc # "idle" => Task(worker[w].kind, worker[w].job) = "running"
    /\ worker[w].pc = "settle" =>
          /\ worker[w].outcome # "cancelled"
          /\ worker[w].outcome = "conflict" => Effective(store, Item(w)) # To(w)

ReconcileInv ==
    /\ \A i \in Items : Reconciled(i)
    /\ \A r \in Requests : ~exec[r].old
    /\ switch # "on"
    /\ \A w \in Workers : OnTask(w)

(* A step in which every job stays open or takes no part, and every running *)
(* one keeps running.                                                      *)
JobsGoOn == \A r \in Requests : /\ ~exec[r].old => ~exec'[r].old
                                /\ \A kind \in Kinds : Open(kind, r) => Open(kind, r)'
JobsRun == \A r \in Requests, kind \in Kinds :
              Task(kind, r) = "running" => Task(kind, r)' = "running"

(* What the steps outside the worker do to the jobs.                        *)
LEMMA HandlersGoOn ==
    ASSUME IInv, ReconcileInv, Undisturbed,
           \/ \E i \in Items : Generate(i) \/ EditStore(i) \/ EditTerms(i)
           \/ \E row \in inbox : RecommendationExpires(row)
           \/ \E r \in Requests :
                 \/ RequestExpires(r) \/ SubmitForApproval(r) \/ Approve(r) \/ Reject(r)
                 \/ QueuePublish(r) \/ QueueRollback(r)
                 \/ ScheduleArrives(r) \/ ExecutionAges(r)
                 \/ \E kind \in Kinds : PassKillSwitch(kind, r)
           \/ ExpireStale \/ EnableKillSwitch \/ DisableKillSwitch
           \/ UNCHANGED vars
    PROVE  /\ UNCHANGED <<catalog, store, worker>> /\ switch' # "on"
           /\ JobsGoOn /\ JobsRun
<1>0. /\ exec \in [Requests -> ExecutionRows] /\ roll \in [Requests -> RollbackRows]
      /\ switch # "on" /\ \A r \in Requests : ~exec[r].old
  BY DEF IInv, TypeOK, ReconcileInv
<1>1. ~Spend("storeEdit") /\ ~Spend("day") /\ ~Spend("toggle")
  BY NeverSpent DEF Undisturbed, Hazards
<1>2. /\ \A i \in Items : ~EditStore(i)
      /\ \A r \in Requests : ~ExecutionAges(r)
      /\ ~EnableKillSwitch
  BY <1>1 DEF EditStore, ExecutionAges, EnableKillSwitch
<1>3. CASE \/ \E i \in Items : Generate(i) \/ EditTerms(i)
           \/ \E row \in inbox : RecommendationExpires(row)
           \/ \E r \in Requests :
                 \/ RequestExpires(r) \/ SubmitForApproval(r) \/ Approve(r) \/ Reject(r)
                 \/ \E kind \in Kinds : PassKillSwitch(kind, r)
           \/ DisableKillSwitch
           \/ UNCHANGED vars
  <2>1. UNCHANGED <<catalog, store, worker, exec, roll>> /\ switch' # "on"
    BY <1>0, <1>3 DEF Generate, EditTerms, RecommendationExpires, RequestExpires,
       SubmitForApproval, Approve, Reject, PassKillSwitch, DisableKillSwitch, vars
  <2> QED BY <2>1 DEF JobsGoOn, JobsRun, Open, Task
<1>4. CASE ExpireStale
  <2>1. UNCHANGED <<catalog, store, worker, roll, switch>>
    BY <1>4 DEF ExpireStale
  <2>2. \A r \in Requests : exec'[r] = exec[r]
    BY <1>0, <1>4 DEF ExpireStale
  <2> QED BY <1>0, <2>1, <2>2 DEF JobsGoOn, JobsRun, Open, Task
<1>5. ASSUME NEW q \in Requests, QueuePublish(q) \/ ScheduleArrives(q)
      PROVE  /\ UNCHANGED <<catalog, store, worker>> /\ switch' # "on"
             /\ JobsGoOn /\ JobsRun
  <2>1. UNCHANGED <<catalog, store, worker, roll, switch>>
    BY <1>5 DEF QueuePublish, ScheduleArrives
  <2>2. ASSUME NEW r \in Requests
        PROVE  \/ exec'[r] = exec[r]
               \/ exec'[r] = [exec[r] EXCEPT !.sched = "due"]
               \/ /\ exec[r].status # "running"
                  /\ \/ exec'[r] = [exec[r] EXCEPT !.status = "queued"]
                     \/ exec'[r] = [exec[r] EXCEPT !.status = "queued", !.sched = "later"]
    BY <1>0, <1>5 DEF QueuePublish, ScheduleArrives, Publishable
  <2>4. ASSUME NEW r \in Requests
        PROVE  /\ exec'[r].old = exec[r].old
               /\ \/ exec'[r].status = exec[r].status
                  \/ exec[r].status # "running" /\ exec'[r].status = "queued"
    <3>1. PICK e \in ExecutionRows : e = exec[r]
      BY <1>0
    <3>2. /\ exec'[r].old = e.old
          /\ \/ exec'[r].status = e.status
             \/ e.status # "running" /\ exec'[r].status = "queued"
      BY <2>2, <3>1 DEF ExecutionRows
    <3> QED BY <3>1, <3>2
  <2> QED BY <1>0, <2>1, <2>4 DEF JobsGoOn, JobsRun, Open, Task
<1>6. ASSUME NEW q \in Requests, QueueRollback(q)
      PROVE  /\ UNCHANGED <<catalog, store, worker>> /\ switch' # "on"
             /\ JobsGoOn /\ JobsRun
  <2>1. UNCHANGED <<catalog, store, worker, exec, switch>>
    BY <1>6 DEF QueueRollback
  <2>2. ASSUME NEW r \in Requests
        PROVE  \/ roll'[r] = roll[r]
               \/ roll[r].status # "running" /\ roll'[r].status = "queued"
    BY <1>0, <1>6 DEF QueueRollback
  <2> QED BY <1>0, <2>1, <2>2 DEF JobsGoOn, JobsRun, Open, Task
<1> QED BY <1>2, <1>3, <1>4, <1>5, <1>6

(* An explanation holds as long as its job is open and the store shows its  *)
(* price.                                                                  *)
LEMMA ExplanationKept ==
    ASSUME IInv, [Next]_vars, NEW i \in Items, NEW r \in Requests, NEW kind \in Kinds,
           Explains(kind, r, i), Open(kind, r)', store'[i] = store[i]
    PROVE  Explains(kind, r, i)'
<1>1. req[r].status # "none"
  BY DEF Explains, Open, Task, IInv, StatusAgreement, RowsAgree
<1>2. req'[r].row = req[r].row
  BY <1>1, DealsAreKept
<1> QED BY <1>2 DEF Explains, Effective, Target

LEMMA UntouchedReconciled ==
    ASSUME IInv, [Next]_vars, NEW i \in Items, Reconciled(i), JobsGoOn,
           store'[i] = store[i], catalog'[i] = catalog[i]
    PROVE  Reconciled(i)'
<1>1. ASSUME Unsettled(i) PROVE Unsettled(i)'
  <2>1. PICK r \in Requests, kind \in Kinds : Explains(kind, r, i)
    BY <1>1 DEF Unsettled
  <2>2. Explains(kind, r, i)'
    BY <2>1, ExplanationKept DEF JobsGoOn, Explains
  <2> QED BY <2>2 DEF Unsettled
<1> QED BY <1>1 DEF Reconciled, Effective

LEMMA HandlersReconcile ==
    ASSUME IInv, ReconcileInv, [Next]_vars, UNCHANGED <<catalog, store, worker>>,
           switch' # "on", JobsGoOn, JobsRun
    PROVE  ReconcileInv'
<1>1. ASSUME NEW i \in Items PROVE Reconciled(i)'
  BY <1>1, UntouchedReconciled DEF ReconcileInv
<1>2. ASSUME NEW w \in Workers PROVE OnTask(w)'
  <2>1. CASE worker[w].pc = "idle"
    BY <2>1 DEF OnTask
  <2>2. CASE worker[w].pc # "idle"
    <3>1. /\ worker[w].job \in Requests /\ worker[w].kind \in Kinds
          /\ req'[worker[w].job].row = req[worker[w].job].row
      BY <2>2, TaskHasTerms, DealsAreKept DEF Tasks
    <3>2. Item(w)' = Item(w) /\ To(w)' = To(w)
      BY <3>1 DEF Item, To
    <3>3. Effective(store, Item(w))' = Effective(store, Item(w))
      BY <3>2 DEF Effective
    <3>4. Task(worker[w].kind, worker[w].job) = "running"
      BY <2>2 DEF ReconcileInv, OnTask
    <3>5. Task(worker[w].kind, worker[w].job)' = "running"
      BY <3>1, <3>4 DEF JobsRun, Task
    <3> QED BY <3>2, <3>3, <3>5 DEF ReconcileInv, OnTask
  <2> QED BY <2>1, <2>2
<1> QED BY <1>1, <1>2 DEF ReconcileInv, JobsGoOn

(* The worker's own steps: what holds of it once it has moved on.           *)
LEMMA StaysOnTask ==
    ASSUME IInv, NEW w \in Workers, worker[w].pc # "idle", OnTask(w),
           UNCHANGED <<store, req, exec, roll>>, worker' \in Moves,
           worker'[w].pc = "settle" =>
              /\ worker'[w].outcome # "cancelled"
              /\ worker'[w].outcome = "conflict" => Effective(store, Item(w)) # To(w)
    PROVE  OnTask(w)'
<1> SUFFICES ASSUME worker'[w].pc # "idle" PROVE OnTask(w)'
  BY DEF OnTask
<1>1. worker'[w].job = worker[w].job /\ worker'[w].kind = worker[w].kind
  BY DEF Moves
<1>2. Item(w)' = Item(w) /\ To(w)' = To(w)
  BY <1>1 DEF Item, To
<1>3. Effective(store, Item(w))' = Effective(store, Item(w))
  BY <1>2 DEF Effective
<1>4. Task(worker[w].kind, worker[w].job)' = "running"
  BY <1>1 DEF OnTask, Task
<1> QED BY <1>2, <1>3, <1>4 DEF OnTask

LEMMA MovingOn ==
    ASSUME IInv, ReconcileInv, NEW w \in Workers,
           Start(w) \/ CallFails(w) \/ Load(w) \/ Verify(w)
    PROVE  /\ UNCHANGED <<catalog, store, switch>> /\ JobsGoOn /\ OnTask(w)'
<1>1. UNCHANGED <<catalog, store, req, exec, roll, switch>> /\ worker[w].pc # "idle"
  BY DEF Start, CallFails, Load, Verify
<1>2. JobsGoOn
  BY <1>1 DEF JobsGoOn, Open, Task
<1>3. worker' \in Moves
  BY StartMoves, CallFailsMoves, LoadMoves, VerifyMoves
<1>4. OnTask(w) /\ switch # "on" /\ worker \in [Workers -> Tasks]
  BY DEF ReconcileInv, IInv, TypeOK
<1>5. PICK t \in Tasks \ {Idle} : t = worker[w]
  BY <1>1, TaskHasTerms
<1>6. worker'[w].pc = "settle" =>
        /\ worker'[w].outcome # "cancelled"
        /\ worker'[w].outcome = "conflict" => Effective(store, Item(w)) # To(w)
  <2>1. CASE Start(w)
    BY <1>4, <2>1, StartedTask
  <2>2. CASE CallFails(w)
    <3>1. \/ worker'[w] = [t EXCEPT !.pc = "settle", !.outcome = "failed"]
          \/ worker'[w] = [t EXCEPT !.pc = "requeue"]
      BY <1>4, <1>5, <2>2 DEF CallFails, Errored, Goto, Settle
    <3> QED BY <3>1 DEF Tasks
  <2>3. CASE Load(w) \/ Verify(w)
    <3>1. store[Item(w)].sale = None
      BY <1>1, TaskHasTerms DEF ReconcileInv, Reconciled
    <3>2. \/ worker'[w] = [t EXCEPT !.pc = "write", !.raced = FALSE]
          \/ worker'[w] = [t EXCEPT !.pc = "settle", !.outcome = "succeeded",
                                    !.raced = FALSE]
          \/ /\ worker'[w] = [t EXCEPT !.pc = "settle", !.outcome = "conflict",
                                       !.raced = FALSE]
             /\ Effective(store, Item(w)) # To(w)
      BY <1>4, <1>5, <2>3, <3>1 DEF Load, Verify, AfterRead, AfterReadBack, Goto, Settle
    <3>3. \/ worker'[w].pc = "write"
          \/ worker'[w].outcome = "succeeded"
          \/ worker'[w].outcome = "conflict" /\ Effective(store, Item(w)) # To(w)
      BY <3>2 DEF Tasks
    <3> QED BY <3>3
  <2> QED BY <2>1, <2>2, <2>3
<1> QED BY <1>1, <1>2, <1>3, <1>4, <1>6, StaysOnTask

(* Claiming and requeueing keep a job open.                                 *)
LEMMA TakingAndReturning ==
    ASSUME IInv, ReconcileInv, NEW w \in Workers,
           \/ ClaimExecution(w) \/ ClaimRollback(w)
           \/ RequeueExecution(w) \/ RequeueRollback(w) \/ DropJob(w)
    PROVE  /\ UNCHANGED <<catalog, store, switch>> /\ JobsGoOn /\ OnTask(w)'
<1>0. /\ exec \in [Requests -> ExecutionRows] /\ roll \in [Requests -> RollbackRows]
      /\ worker \in [Workers -> Tasks]
      /\ UNCHANGED <<catalog, store, switch>>
  BY DEF IInv, TypeOK, ClaimExecution, ClaimRollback, RequeueExecution, RequeueRollback,
     DropJob
<1>1. CASE ClaimExecution(w)
  <2>1. PICK q \in Requests :
          /\ exec' = [exec EXCEPT ![q].status = "running", ![q].attempts = @ + 1]
          /\ worker'[w] = [Idle EXCEPT !.pc = "claimed", !.job = q]
          /\ roll' = roll
    BY <1>0, <1>1 DEF ClaimExecution
  <2>2. PICK e \in ExecutionRows : e = exec[q]
    BY <1>0
  <2>3. /\ exec'[q] = [e EXCEPT !.status = "running", !.attempts = e.attempts + 1]
        /\ \A r \in Requests \ {q} : exec'[r] = exec[r]
    BY <1>0, <2>1, <2>2
  <2>4. exec'[q].status = "running" /\ exec'[q].old = exec[q].old
    BY <2>2, <2>3 DEF ExecutionRows
  <2>5. /\ worker'[w].pc = "claimed" /\ worker'[w].job = q /\ worker'[w].kind = "publish"
    BY <2>1 DEF Idle
  <2>6. JobsGoOn
    BY <2>1, <2>3, <2>4 DEF JobsGoOn, Open, Task
  <2>7. OnTask(w)'
    BY <2>4, <2>5 DEF OnTask, Task
  <2> QED BY <1>0, <2>6, <2>7
<1>2. CASE ClaimRollback(w)
  <2>1. PICK q \in Requests :
          /\ roll' = [roll EXCEPT ![q].status = "running", ![q].attempts = @ + 1]
          /\ worker'[w] = [Idle EXCEPT !.pc = "claimed", !.job = q, !.kind = "rollback"]
          /\ exec' = exec
    BY <1>0, <1>2 DEF ClaimRollback
  <2>2. PICK e \in RollbackRows : e = roll[q]
    BY <1>0
  <2>3. /\ roll'[q] = [e EXCEPT !.status = "running", !.attempts = e.attempts + 1]
        /\ \A r \in Requests \ {q} : roll'[r] = roll[r]
    BY <1>0, <2>1, <2>2
  <2>4. roll'[q].status = "running"
    BY <2>2, <2>3 DEF RollbackRows
  <2>5. /\ worker'[w].pc = "claimed" /\ worker'[w].job = q /\ worker'[w].kind = "rollback"
    BY <2>1 DEF Idle
  <2>6. JobsGoOn
    BY <2>1, <2>3, <2>4 DEF JobsGoOn, Open, Task
  <2>7. OnTask(w)'
    BY <2>4, <2>5 DEF OnTask, Task
  <2> QED BY <1>0, <2>6, <2>7
<1>3. CASE RequeueExecution(w) \/ RequeueRollback(w) \/ DropJob(w)
  <2>1. worker'[w].pc = "idle"
    BY <1>0, <1>3 DEF RequeueExecution, RequeueRollback, DropJob, Idle
  <2>2. PICK q \in Requests : q = worker[w].job
    BY <1>3, TaskHasTerms DEF RequeueExecution, RequeueRollback, DropJob
  <2>3. /\ \/ exec' = exec
           \/ exec' = [exec EXCEPT ![q] = [exec[q] EXCEPT !.status = "queued",
                                                         !.sched = "later"]]
        /\ \/ roll' = roll
           \/ roll' = [roll EXCEPT ![q] = [roll[q] EXCEPT !.status = "queued"]]
    BY <1>0, <1>3, <2>2 DEF RequeueExecution, RequeueRollback, DropJob
  <2>4. ASSUME NEW r \in Requests
        PROVE  /\ exec'[r].old = exec[r].old
               /\ exec'[r].status = exec[r].status \/ exec'[r].status = "queued"
               /\ roll'[r].status = roll[r].status \/ roll'[r].status = "queued"
    <3>1. PICK e \in ExecutionRows, f \in RollbackRows : e = exec[r] /\ f = roll[r]
      BY <1>0
    <3>2. /\ \/ exec'[r] = e
             \/ exec'[r] = [e EXCEPT !.status = "queued", !.sched = "later"]
          /\ \/ roll'[r] = f
             \/ roll'[r] = [f EXCEPT !.status = "queued"]
      BY <1>0, <2>3, <3>1
    <3> QED BY <3>1, <3>2 DEF ExecutionRows, RollbackRows
  <2>5. JobsGoOn
    BY <2>4 DEF JobsGoOn, Open, Task
  <2> QED BY <1>0, <2>1, <2>5 DEF OnTask
<1> QED BY <1>1, <1>2, <1>3

LEMMA WorkReconciles ==
    ASSUME IInv, ReconcileInv, Undisturbed, [Next]_vars, NEW w \in Workers,
           UNCHANGED <<catalog, store, switch>>, JobsGoOn, OnTask(w)'
    PROVE  ReconcileInv'
<1>1. ASSUME NEW i \in Items PROVE Reconciled(i)'
  BY <1>1, UntouchedReconciled DEF ReconcileInv
<1>2. \A v \in Workers : OnTask(v)'
  BY DEF Undisturbed
<1> QED BY <1>1, <1>2 DEF ReconcileInv, JobsGoOn

(* A write is explained by the worker's own job, which is running.          *)
LEMMA WriteReconciles ==
    ASSUME IInv, ReconcileInv, Undisturbed, [Next]_vars, NEW w \in Workers, Write(w)
    PROVE  ReconcileInv'
<1>1. PICK t \in Tasks \ {Idle} : t = worker[w]
  BY TaskHasTerms DEF Write
<1>2. /\ t.job \in Requests /\ t.kind \in Kinds
      /\ Item(w) \in Items
      /\ req[t.job].status # "none"
      /\ UNCHANGED <<catalog, req, exec, roll, switch>>
      /\ store' = [store EXCEPT ![Item(w)].regular = To(w)]
      /\ worker' \in Moves /\ worker[w].pc # "idle"
  BY <1>1, TaskHasTerms, WriteMoves DEF Write, Tasks
<1>3. store \in [Items -> [regular : Prices, sale : Prices \cup {None}]]
  BY DEF IInv, TypeOK
<1>4. /\ \A i \in Items \ {Item(w)} : store'[i] = store[i]
      /\ store'[Item(w)].sale = None /\ store'[Item(w)].regular = To(w)
  <2>1. store[Item(w)].sale = None
    BY <1>2 DEF ReconcileInv, Reconciled
  <2> QED BY <1>2, <1>3, <2>1
<1>5. JobsGoOn
  BY <1>2 DEF JobsGoOn, Open, Task
<1>6. Task(t.kind, t.job)' = "running"
  BY <1>1, <1>2 DEF ReconcileInv, OnTask, Task
<1>8. ASSUME NEW i \in Items PROVE Reconciled(i)'
  <2>1. CASE i # Item(w)
    BY <1>2, <1>4, <1>5, <2>1, UntouchedReconciled DEF ReconcileInv
  <2>2. CASE i = Item(w)
    <3>1. Explains(t.kind, t.job, i)'
      BY <1>1, <1>2, <1>4, <1>6, <2>2 DEF Explains, Open, Effective, Target, Item, To
    <3> QED BY <1>2, <1>4, <2>2, <3>1 DEF Reconciled, Unsettled
  <2> QED BY <2>1, <2>2
<1>9. OnTask(w)'
  <2> SUFFICES ASSUME worker'[w].pc # "idle" PROVE OnTask(w)'
    BY DEF OnTask
  <2>1. worker'[w].job = worker[w].job /\ worker'[w].kind = worker[w].kind
    BY <1>2 DEF Moves
  <2>2. Task(worker[w].kind, worker[w].job)' = "running"
    BY <1>1, <1>6, <2>1 DEF Task
  <2>3. Effective(store', Item(w)) = To(w)
    BY <1>4 DEF Effective
  <2>4. worker'[w].pc = "settle" => worker'[w].outcome = "failed"
    BY <2>3, WriterMovesOn
  <2> QED BY <2>2, <2>4 DEF OnTask
<1> QED BY <1>2, <1>5, <1>8, <1>9 DEF ReconcileInv, JobsGoOn, Undisturbed

(* The record of a price concerns one item.                                 *)
LEMMA RecordOfOne ==
    ASSUME IInv, Undisturbed, NEW i \in Items, NEW price
    PROVE  /\ Record(i, price)[i] = price
           /\ \A j \in Items \ {i} : Record(i, price)[j] = catalog[j]
BY DEF Record, Undisturbed

(* A job is finished with what the store shows: a success is recorded, a    *)
(* failure is an explanation, and what a conflict leaves has another one.  *)
LEMMA FinishReconciles ==
    ASSUME IInv, ReconcileInv, Undisturbed, NoRaces, UnracedViewIsCurrent, [Next]_vars,
           NEW w \in Workers, FinishExecution(w) \/ FinishRollback(w)
    PROVE  ReconcileInv'
<1>1. PICK t \in Tasks \ {Idle} : t = worker[w]
  BY TaskHasTerms DEF FinishExecution, FinishRollback
<1>2. PICK r \in Requests, kind \in Kinds, i \in Items :
        r = t.job /\ kind = t.kind /\ i = Item(w)
  BY <1>1, TaskHasTerms DEF FinishExecution, FinishRollback, Tasks
<1>3. /\ exec \in [Requests -> ExecutionRows] /\ roll \in [Requests -> RollbackRows]
      /\ worker \in [Workers -> Tasks] /\ worker[w].pc = "settle"
      /\ UNCHANGED <<store, switch>> /\ worker'[w] = Idle
  BY DEF IInv, TypeOK, FinishExecution, FinishRollback
<1>4. /\ req[r].row.item = i /\ Target(kind, r) = To(w)
      /\ OnTask(w) /\ ~worker[w].raced
  BY <1>1, <1>2 DEF Item, To, Target, ReconcileInv, NoRaces
<1>5. /\ \A q \in Requests \ {r} : exec'[q] = exec[q] /\ roll'[q] = roll[q]
      /\ kind = "publish" => roll' = roll
      /\ kind = "rollback" /\ t.outcome # "succeeded" => exec' = exec
      /\ t.outcome = "failed" => Task(kind, r)' = "failed"
      /\ exec'[r].old = exec[r].old
  <2>1. PICK e \in ExecutionRows, f \in RollbackRows : e = exec[r] /\ f = roll[r]
    BY <1>3
  <2>2. CASE FinishExecution(w)
    <3>1. kind = "publish" /\ roll' = roll
      BY <1>1, <1>2, <2>2 DEF FinishExecution
    <3>2. exec'[r] = [e EXCEPT !.status = t.outcome]
          /\ \A q \in Requests \ {r} : exec'[q] = exec[q]
      BY <1>1, <1>2, <1>3, <2>1, <2>2 DEF FinishExecution
    <3>3. exec'[r].status = t.outcome /\ exec'[r].old = e.old
      BY <3>2 DEF ExecutionRows
    <3> QED BY <2>1, <3>1, <3>2, <3>3 DEF Task
  <2>3. CASE FinishRollback(w)
    <3>1. kind = "rollback"
      BY <1>1, <1>2, <2>3 DEF FinishRollback
    <3>2. /\ roll'[r] = [f EXCEPT !.status = t.outcome]
          /\ \A q \in Requests \ {r} : roll'[q] = roll[q]
      BY <1>1, <1>2, <1>3, <2>1, <2>3 DEF FinishRollback
    <3>3. /\ t.outcome # "succeeded" => exec' = exec
          /\ exec'[r] = e \/ exec'[r] = [e EXCEPT !.status = "rolled_back"]
          /\ \A q \in Requests \ {r} : exec'[q] = exec[q]
      BY <1>1, <1>2, <1>3, <2>1, <2>3 DEF FinishRollback
    <3>4. roll'[r].status = t.outcome /\ exec'[r].old = e.old
      BY <3>2, <3>3 DEF ExecutionRows, RollbackRows
    <3> QED BY <2>1, <3>1, <3>2, <3>3, <3>4 DEF Task
  <2> QED BY <2>2, <2>3
<1>6. catalog' = IF t.outcome = "succeeded" THEN Record(i, To(w)) ELSE catalog
  BY <1>1, <1>2 DEF FinishExecution, FinishRollback
<1>7. /\ t.outcome \in {"succeeded", "failed", "conflict"}
      /\ t.outcome = "succeeded" => Effective(store, i) = To(w)
      /\ t.outcome = "conflict" => Effective(store, i) # To(w)
  <2>1. t.outcome \in {"succeeded", "failed", "conflict"}
    BY <1>1, <1>3, <1>4 DEF OnTask, Tasks, Outcomes
  <2> QED BY <1>1, <1>2, <1>3, <1>4, <2>1 DEF OnTask, UnracedViewIsCurrent
<1>8. ASSUME NEW j \in Items PROVE Reconciled(j)'
  <2>0. store'[j] = store[j] /\ Reconciled(j)
    BY <1>3 DEF ReconcileInv
  <2>1. ASSUME catalog'[j] = catalog[j],
               \A q \in Requests, k \in Kinds :
                  Explains(k, q, j) => Open(k, q)'
        PROVE  Reconciled(j)'
    <3>1. ASSUME Unsettled(j) PROVE Unsettled(j)'
      <4>1. PICK q \in Requests, k \in Kinds : Explains(k, q, j)
        BY <3>1 DEF Unsettled
      <4>2. Explains(k, q, j)'
        BY <2>0, <2>1, <4>1, ExplanationKept
      <4> QED BY <4>2 DEF Unsettled
    <3> QED BY <2>0, <2>1, <3>1 DEF Reconciled, Effective
  <2>2. CASE j # i
    <3>1. catalog'[j] = catalog[j]
      BY <1>6, <2>2, RecordOfOne
    <3>2. ASSUME NEW q \in Requests, NEW k \in Kinds, Explains(k, q, j)
          PROVE  Open(k, q)'
      BY <1>4, <1>5, <2>2, <3>2 DEF Explains, Open, Task
    <3> QED BY <2>1, <3>1, <3>2
  <2>3. CASE j = i /\ t.outcome = "succeeded"
    <3>1. catalog'[j] = Effective(store, j)
      BY <1>6, <1>7, <2>3, RecordOfOne
    <3> QED BY <2>0, <3>1 DEF Reconciled, Effective
  <2>4. CASE j = i /\ t.outcome = "failed"
    <3>1. ASSUME NEW q \in Requests, NEW k \in Kinds, Explains(k, q, j)
          PROVE  Open(k, q)'
      BY <1>5, <2>4, <3>1 DEF Explains, Open, Task, Kinds
    <3> QED BY <1>6, <2>1, <2>4, <3>1
  <2>5. CASE j = i /\ t.outcome = "conflict"
    <3>1. ASSUME NEW q \in Requests, NEW k \in Kinds, Explains(k, q, j)
          PROVE  Open(k, q)'
      <4>1. q # r \/ k # kind
        BY <1>4, <1>7, <2>5, <3>1 DEF Explains
      <4> QED BY <1>5, <2>5, <3>1, <4>1 DEF Explains, Open, Task, Kinds
    <3> QED BY <1>6, <2>1, <2>5, <3>1
  <2> QED BY <1>7, <2>2, <2>3, <2>4, <2>5
<1>9. \A q \in Requests : ~exec'[q].old
  BY <1>5 DEF ReconcileInv
<1>10. \A v \in Workers : OnTask(v)'
  BY <1>3 DEF OnTask, Undisturbed, Idle
<1> QED BY <1>3, <1>8, <1>9, <1>10 DEF ReconcileInv

(* Every step of an undisturbed store keeps ReconcileInv.                   *)
LEMMA ReconcileStep ==
    ASSUME IInv, ReconcileInv, Undisturbed, NoRaces, UnracedViewIsCurrent, [Next]_vars
    PROVE  ReconcileInv'
<1>1. ASSUME NEW w \in Workers, Work(w) \/ DropJob(w) PROVE ReconcileInv'
  BY <1>1, MovingOn, TakingAndReturning, WorkReconciles, WriteReconciles, FinishReconciles
     DEF Work
<1>2. CASE ~(\E w \in Workers : Work(w) \/ DropJob(w))
  BY <1>2, HandlersGoOn, HandlersReconcile DEF Next
<1> QED BY <1>1, <1>2

(* Without variants, with one worker and an undisturbed store, the          *)
(* catalogue records what the store shows as soon as no job is pending and *)
(* none was given up: retries and rollbacks reconcile every write, also    *)
(* those whose response was lost.                                          *)
THEOREM CatalogueIsReconciled ==
    ASSUME Undisturbed PROVE Spec => []CatalogueMatchesStore
<1>1. Init => ReconcileInv
  <2> SUFFICES ASSUME Init PROVE ReconcileInv
    OBVIOUS
  <2>1. \A i \in Items : Reconciled(i)
    BY DEF Init, Reconciled, Effective
  <2>2. \A w \in Workers : OnTask(w)
    BY DEF Init, OnTask, Idle
  <2> QED BY <2>1, <2>2 DEF Init, ReconcileInv, NoExecution
<1>2. IInv /\ ReconcileInv /\ NoRaces /\ UnracedViewIsCurrent /\ [Next]_vars
        => ReconcileInv'
  BY ReconcileStep
<1>3. Spec => []NoRaces
  <2>1. PICK w0 : Workers = {w0}
    BY DEF Undisturbed
  <2>2. \A b \in Bounds : b["storeEdit"] = 0
    BY DEF Undisturbed
  <2> QED BY <2>1, <2>2, SoleWorkerHasNoRaces
<1>4. ReconcileInv => CatalogueMatchesStore
  BY DEF ReconcileInv, Reconciled, Unsettled, Explains, Open, Task, CatalogueMatchesStore
<1> QED BY <1>1, <1>2, <1>3, <1>4, Invariance, UnracedViewsAreCurrent, PTL DEF Spec

=============================================================================
