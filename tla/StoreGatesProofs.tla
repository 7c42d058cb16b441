--------------------------- MODULE StoreGatesProofs ---------------------------
(***************************************************************************)
(* Proofs about what stands between a queued price and its store: first of *)
(* the kill switch, for any tenants; then of the breakers, for any stores, *)
(* any finite number of loops and any threshold; and last that both keep   *)
(* their promises in one worker process, GatesAssumption being needed only *)
(* there.                                                                  *)
(***************************************************************************)
EXTENDS StoreGates, FiniteSetTheorems, TLAPS

-----------------------------------------------------------------------------
(* The kill switch *)

(* The rows a tenant's switch is read from are well-typed, and one of its   *)
(* own hides the platform's.                                               *)
LEMMA OwnRowIsRead ==
    ASSUME NEW t \in Tenants, tenantRow[t] # "absent"
    PROVE  SwitchRead(t) = tenantRow[t]
  BY DEF SwitchRead

(* A job that is running while its tenant's own switch is on has not come   *)
(* to its read yet, or could not read: enabling the switch cancels what is  *)
(* running, and a cancelled job runs again only through a claim.           *)
RunsUnread ==
    \A t \in Tenants :
        tenantRow[t] = "on" /\ jobs[t] = "running" /\ hands[t] = "working" => t \in unread

SwitchInv == TypeOK /\ RunsUnread

(* What OwnSwitchDecides says of one tenant.                                *)
DecidesItself(t) ==
    /\ tenantRow[t] = "off" /\ tenantRow'[t] = "off" =>
         /\ hands'[t] = "stopping" => hands[t] = "stopping"
         /\ jobs'[t] = "cancelled" => jobs[t] = "cancelled" \/ hands[t] = "stopping"
    /\ tenantRow[t] = "on" =>
         /\ hands'[t] = "working" => hands[t] = "working" \/ t \in unread'
         /\ jobs'[t] = "queued" => jobs[t] = "queued" \/ t \in calls \cup unread

(* No step of any tenant, nor of the platform, breaks either.               *)
SwitchGoal == SwitchInv' /\ \A t \in Tenants : DecidesItself(t)

(* A hand that opens.                                                       *)
LEMMA PutKeeps ==
    ASSUME SwitchInv, NEW u \in Tenants, NEW status \in JobStates, Put(u, status),
           status = "cancelled" => jobs[u] = "cancelled" \/ hands[u] = "stopping",
           status = "queued" => jobs[u] = "queued"
                                \/ (jobs[u] = "running" /\ hands[u] = "working")
    PROVE  SwitchGoal
<1> USE DEF SwitchInv, TypeOK, HandStates
<1>1. /\ hands' = [hands EXCEPT ![u] = "free"] /\ jobs' = [jobs EXCEPT ![u] = status]
      /\ platformRow' = platformRow /\ tenantRow' = tenantRow
      /\ calls' = calls /\ unread' = unread
  BY DEF Put
<1>2. TypeOK'
  BY <1>1
<1>3. RunsUnread'
  BY <1>1 DEF RunsUnread
<1>4. ASSUME NEW t \in Tenants PROVE DecidesItself(t)
  BY <1>1 DEF RunsUnread, DecidesItself
<1> QED
  BY <1>2, <1>3, <1>4 DEF SwitchGoal

LEMMA StartKeeps ==
    ASSUME SwitchInv, NEW u \in Tenants, Start(u)
    PROVE  SwitchGoal
<1> USE DEF SwitchInv, TypeOK, HandStates
<1>1. PICK fails \in BOOLEAN :
        /\ hands[u] = "claimed" /\ (fails => WorkerStops(u))
        /\ hands' = [hands EXCEPT ![u] = IF WorkerStops(u) /\ ~fails THEN "stopping" ELSE "working"]
        /\ unread' = IF fails THEN unread \cup {u} ELSE unread
        /\ platformRow' = platformRow /\ tenantRow' = tenantRow
        /\ jobs' = jobs /\ calls' = calls
  BY DEF Start
<1>2. tenantRow[u] # "absent" => (WorkerStops(u) <=> tenantRow[u] = "on")
  BY OwnRowIsRead DEF WorkerStops
<1>3. TypeOK'
  BY <1>1
<1>4. RunsUnread'
  BY <1>1, <1>2 DEF RunsUnread
<1>5. ASSUME NEW t \in Tenants PROVE DecidesItself(t)
  BY <1>1, <1>2 DEF DecidesItself
<1> QED
  BY <1>3, <1>4, <1>5 DEF SwitchGoal

(* Every step of a worker, of a call and of the people keeps it.            *)
LEMMA SwitchStep == SwitchInv /\ [Next]_vars => SwitchGoal
<1> SUFFICES ASSUME SwitchInv, [Next]_vars PROVE SwitchGoal
  OBVIOUS
<1> USE DEF SwitchInv, TypeOK, RowStates, JobStates, HandStates, SwitchGoal, RunsUnread,
            DecidesItself
<1>1. ASSUME NEW u \in Tenants, QueueRead(u) PROVE SwitchGoal
  BY <1>1 DEF QueueRead
<1>2. ASSUME NEW u \in Tenants, QueueCommit(u) PROVE SwitchGoal
  BY <1>2 DEF QueueCommit
<1>3. ASSUME NEW u \in Tenants, Claim(u) PROVE SwitchGoal
  BY <1>3 DEF Claim
<1>4. ASSUME NEW u \in Tenants, Start(u) PROVE SwitchGoal
  BY <1>4, StartKeeps
<1>5. ASSUME NEW u \in Tenants, Cancel(u) \/ Finish(u) \/ Requeue(u) \/ Drop(u) PROVE SwitchGoal
  <2>1. CASE Cancel(u)
    BY <2>1, PutKeeps DEF Cancel
  <2>2. CASE Finish(u)
    BY <2>2, PutKeeps DEF Finish
  <2>3. CASE Requeue(u)
    BY <2>3, PutKeeps DEF Requeue
  <2>4. CASE Drop(u)
    BY <2>4, PutKeeps DEF Drop
  <2> QED
    BY <1>5, <2>1, <2>2, <2>3, <2>4
<1>6. ASSUME NEW u \in Tenants, NEW enabled \in BOOLEAN, SetTenantKillSwitch(u, enabled)
      PROVE  SwitchGoal
  BY <1>6 DEF SetTenantKillSwitch, Row
<1>7. ASSUME NEW enabled \in BOOLEAN, SetPlatformKillSwitch(enabled) PROVE SwitchGoal
  BY <1>7 DEF SetPlatformKillSwitch
<1>8. CASE UNCHANGED vars
  BY <1>8 DEF vars
<1> QED
  BY <1>1, <1>2, <1>3, <1>4, <1>5, <1>6, <1>7, <1>8 DEF Next

LEMMA SwitchInvHolds == Spec => []SwitchInv
<1>1. Init => SwitchInv
  BY DEF Init, SwitchInv, TypeOK, RowStates, JobStates, HandStates, RunsUnread
<1>2. SwitchInv /\ [Next]_vars => SwitchInv'
  BY SwitchStep DEF SwitchGoal
<1> QED
  BY <1>1, <1>2, PTL DEF Spec

(* The kill switch's rows, jobs, calls and hands stay in their domains.     *)
THEOREM SwitchTypeCorrect == Spec => []TypeOK
<1>1. SwitchInv => TypeOK
  BY DEF SwitchInv
<1> QED
  BY <1>1, SwitchInvHolds, PTL

(* However many tenants there are and whatever the platform's row says,     *)
(* OwnSwitchDecides: only a read that failed or came before the switch lets *)
(* a job start or go on against it.                                        *)
THEOREM OwnSwitchAlwaysDecides == Spec => OwnSwitchDecides
<1>1. SwitchInv /\ [Next]_vars
        => [\A t \in Tenants :
              /\ tenantRow[t] = "off" /\ tenantRow'[t] = "off" =>
                   /\ hands'[t] = "stopping" => hands[t] = "stopping"
                   /\ jobs'[t] = "cancelled" => jobs[t] = "cancelled" \/ hands[t] = "stopping"
              /\ tenantRow[t] = "on" =>
                   /\ hands'[t] = "working" => hands[t] = "working" \/ t \in unread'
                   /\ jobs'[t] = "queued" => jobs[t] = "queued" \/ t \in calls \cup unread]_vars
  BY SwitchStep DEF SwitchGoal, DecidesItself
<1> QED
  BY <1>1, SwitchInvHolds, PTL DEF Spec, OwnSwitchDecides

-----------------------------------------------------------------------------
(* The breakers *)

Breaker == [state : BreakerStates, failures : 0..Threshold, cooling : BOOLEAN]
Request == [store : Stores \cup {NoStore}, answer : Answers]

LEMMA TypeParts ==
    BreakerTypeOK <=> /\ breakers \in [Stores -> Breaker]
                      /\ request \in [Loops -> Request]
                      /\ up \subseteq Stores /\ failed \subseteq Stores
                      /\ tries \in [Stores -> Nat]
BY DEF BreakerTypeOK, Breaker, Request

(* What Allow and Record make of a breaker is one.                          *)
LEMMA BreakerTypes ==
    /\ NewBreaker \in Breaker
    /\ \A b \in Breaker : Admitting(b) \in Breaker /\ Failed(b) \in Breaker
<1>1. NewBreaker \in Breaker
  BY BreakerAssumption DEF NewBreaker, Breaker, BreakerStates
<1>2. ASSUME NEW b \in Breaker PROVE Admitting(b) \in Breaker
  BY <1>2 DEF Admitting, Breaker, BreakerStates
<1>3. ASSUME NEW b \in Breaker PROVE Failed(b) \in Breaker
  <2>1. b.failures \in 0..Threshold /\ b.state \in BreakerStates
    BY <1>3 DEF Breaker
  <2>2. Least(b.failures + 1, Threshold) \in 0..Threshold
    BY <2>1, BreakerAssumption DEF Least
  <2>3. Opens(b) \in BOOLEAN
    BY DEF Opens
  <2>4. (IF Opens(b) THEN "open" ELSE b.state) \in BreakerStates
    BY <2>1 DEF BreakerStates
  <2> QED
    BY <2>2, <2>3, <2>4 DEF Failed, Breaker
<1> QED
  BY <1>1, <1>2, <1>3

-----------------------------------------------------------------------------
(* The inductive invariant.  An answer that is a failure was one of its     *)
(* store.  A breaker that is not closed has counted up to the threshold.    *)
(* Of the requests begun since the last success or opening, those that are  *)
(* not under way have been counted as failures, and only while closed.      *)
AnswersAgree ==
    \A l \in Loops : request[l].answer = "failure" => request[l].store \in failed

CountAgrees(b) == b.state = "closed" <=> b.failures < Threshold

UnderWay(s) == {l \in Loops : request[l].store = s}
Counted(b) == IF b.state = "closed" THEN b.failures ELSE 0

TriesAgree ==
    \A s \in Stores : tries[s] <= Cardinality(UnderWay(s)) + Counted(breakers[s])

BreakerInv ==
    /\ BreakerTypeOK
    /\ AnswersAgree
    /\ HealthyStoresAreServed
    /\ \A s \in Stores : CountAgrees(breakers[s])
    /\ TriesAgree

LEMMA UnderWayFinite ==
    ASSUME NEW s \in Stores
    PROVE  /\ IsFiniteSet(UnderWay(s)) /\ Cardinality(UnderWay(s)) \in Nat
           /\ Cardinality(UnderWay(s)) <= Cardinality(Loops)
<1>1. UnderWay(s) \in SUBSET Loops
  BY DEF UnderWay
<1> QED
  BY <1>1, BreakerAssumption, FS_Subset, FS_CardinalityType

(* A process that has just started.                                         *)
Fresh ==
    /\ breakers = [s \in Stores |-> NewBreaker]
    /\ request = [l \in Loops |-> Idle]
    /\ failed = {} /\ tries = [s \in Stores |-> 0]

LEMMA FreshHolds == Fresh /\ up \subseteq Stores => BreakerInv
<1> SUFFICES ASSUME Fresh, up \subseteq Stores PROVE BreakerInv
  OBVIOUS
<1>1. NewBreaker \in Breaker /\ Idle \in Request
  BY BreakerTypes DEF Request, Idle, Answers
<1>2. breakers \in [Stores -> Breaker] /\ request \in [Loops -> Request]
  BY <1>1 DEF Fresh
<1>3. BreakerTypeOK
  BY <1>2, TypeParts DEF Fresh
<1>4. AnswersAgree
  BY DEF Fresh, AnswersAgree, Idle
<1>5. HealthyStoresAreServed
  BY DEF Fresh, HealthyStoresAreServed, Get
<1>6. CountAgrees(NewBreaker) /\ Counted(NewBreaker) = 0
  BY BreakerAssumption DEF NewBreaker, CountAgrees, Counted
<1>7. (\A s \in Stores : CountAgrees(breakers[s])) /\ TriesAgree
  BY <1>6, UnderWayFinite DEF Fresh, TriesAgree
<1> QED
  BY <1>3, <1>4, <1>5, <1>7 DEF BreakerInv

LEMMA FreshPrimed == Fresh' /\ up' \subseteq Stores => BreakerInv'
<1>1. (Fresh /\ up \subseteq Stores)' => BreakerInv'
  BY FreshHolds, PTL
<1> QED
  BY <1>1

(* CountAgrees is kept by Allow and Record, and Record counts one failure.  *)
LEMMA CountKept ==
    ASSUME NEW b \in Breaker, CountAgrees(b)
    PROVE  /\ CountAgrees(NewBreaker) /\ Counted(NewBreaker) = 0
           /\ CountAgrees(Admitting(b)) /\ Counted(Admitting(b)) = Counted(b)
           /\ CountAgrees(Failed(b))
           /\ ~Opens(b) => Counted(Failed(b)) = Counted(b) + 1
           /\ Counted(b) \in Nat /\ Counted(Failed(b)) \in Nat
<1>1. b.state \in BreakerStates /\ b.failures \in 0..Threshold
  BY DEF Breaker
<1>2. CountAgrees(NewBreaker) /\ Counted(NewBreaker) = 0
  BY BreakerAssumption DEF NewBreaker, CountAgrees, Counted
<1>3. CountAgrees(Admitting(b)) /\ Counted(Admitting(b)) = Counted(b)
  BY <1>1 DEF Admitting, CountAgrees, Counted, Breaker
<1>4. /\ Failed(b).state = (IF Opens(b) THEN "open" ELSE b.state)
      /\ Failed(b).failures = Least(b.failures + 1, Threshold)
  BY DEF Failed
<1>5. ASSUME Opens(b)
      PROVE  CountAgrees(Failed(b)) /\ Counted(Failed(b)) \in Nat
  BY <1>1, <1>4, <1>5, BreakerAssumption DEF Opens, CountAgrees, Counted, Least
<1>6. ASSUME ~Opens(b)
      PROVE  CountAgrees(Failed(b)) /\ Counted(Failed(b)) = Counted(b) + 1
             /\ Counted(Failed(b)) \in Nat
  <2>1. b.failures + 1 < Threshold
    BY <1>1, <1>6, BreakerAssumption DEF Opens
  <2>2. b.state = "closed"
    BY <1>1, <2>1, BreakerAssumption DEF CountAgrees
  <2> QED
    BY <1>1, <1>4, <1>6, <2>1, <2>2, BreakerAssumption DEF CountAgrees, Counted, Least
<1>7. Counted(b) \in Nat
  BY <1>1 DEF Counted
<1> QED
  BY <1>2, <1>3, <1>5, <1>6, <1>7

-----------------------------------------------------------------------------
(* A request begins.                                                        *)
LEMMA CallKeeps ==
    ASSUME BreakerInv, NEW l \in Loops, NEW s \in Stores, Call(l, s)
    PROVE  BreakerInv'
<1> DEFINE b == breakers[s]
           r == [store |-> s, answer |-> "none"]
<1>1. /\ breakers \in [Stores -> Breaker] /\ request \in [Loops -> Request]
      /\ up \subseteq Stores /\ failed \subseteq Stores /\ tries \in [Stores -> Nat]
  BY TypeParts DEF BreakerInv
<1>2. /\ request[l].store = NoStore /\ Allowed(b)
      /\ breakers' = [breakers EXCEPT ![s] = Admitting(b)]
      /\ request' = [request EXCEPT ![l] = r]
      /\ tries' = [tries EXCEPT ![s] = tries[s] + 1]
      /\ up' = up /\ failed' = failed
  BY DEF Call, Get, Calling
<1>3. b \in Breaker /\ Admitting(b) \in Breaker /\ r \in Request
  BY <1>1, BreakerTypes DEF Request, Answers
<1>4. BreakerTypeOK'
  <2>1. breakers' \in [Stores -> Breaker]
    BY <1>1, <1>2, <1>3
  <2>2. request' \in [Loops -> Request]
    BY <1>1, <1>2, <1>3
  <2>3. tries' \in [Stores -> Nat]
    BY <1>1, <1>2
  <2> QED
    BY <1>1, <1>2, <2>1, <2>2, <2>3 DEF BreakerTypeOK, Breaker, Request
<1>5. AnswersAgree'
  BY <1>1, <1>2 DEF BreakerInv, AnswersAgree
<1>6. HealthyStoresAreServed'
  <2> SUFFICES ASSUME NEW t \in Stores \ failed PROVE breakers'[t] = NewBreaker
    BY <1>2 DEF HealthyStoresAreServed, Get
  <2>1. breakers[t] = NewBreaker
    BY DEF BreakerInv, HealthyStoresAreServed, Get
  <2>2. Admitting(NewBreaker) = NewBreaker
    BY DEF Admitting, NewBreaker
  <2> QED
    BY <1>1, <1>2, <2>1, <2>2
<1>7. \A t \in Stores : CountAgrees(breakers'[t])
  BY <1>1, <1>2, <1>3, CountKept DEF BreakerInv
<1>8. TriesAgree'
  <2> SUFFICES ASSUME NEW t \in Stores
               PROVE  tries'[t] <= Cardinality(UnderWay(t)') + Counted(breakers'[t])
    BY DEF TriesAgree
  <2>1. tries[t] <= Cardinality(UnderWay(t)) + Counted(breakers[t])
    BY DEF BreakerInv, TriesAgree
  <2>2. CASE t = s
    <3>1. UnderWay(s)' = UnderWay(s) \cup {l}
      BY <1>1, <1>2 DEF UnderWay
    <3>2. l \notin UnderWay(s)
      BY <1>2, BreakerAssumption DEF UnderWay
    <3>3. Cardinality(UnderWay(s)') = Cardinality(UnderWay(s)) + 1
      BY <3>1, <3>2, UnderWayFinite, FS_AddElement
    <3>4. Counted(breakers'[s]) = Counted(b) /\ Counted(b) \in Nat
      BY <1>1, <1>2, <1>3, CountKept DEF BreakerInv
    <3>5. tries'[s] = tries[s] + 1 /\ tries[s] \in Nat
      BY <1>1, <1>2
    <3> QED
      BY <2>1, <2>2, <3>3, <3>4, <3>5, UnderWayFinite
  <2>3. CASE t # s
    <3>1. UnderWay(t)' = UnderWay(t)
      BY <1>1, <1>2, <2>3, BreakerAssumption DEF UnderWay
    <3>2. breakers'[t] = breakers[t] /\ tries'[t] = tries[t]
      BY <1>1, <1>2, <2>3
    <3> QED
      BY <2>1, <3>1, <3>2
  <2> QED
    BY <2>2, <2>3
<1> QED
  BY <1>4, <1>5, <1>6, <1>7, <1>8 DEF BreakerInv

(* The answer arrives, or does not.                                         *)
LEMMA AnswerKeeps ==
    ASSUME BreakerInv, NEW l \in Loops, Answer(l)
    PROVE  BreakerInv'
<1> DEFINE s == request[l].store
           a == IF s \in up THEN "ok" ELSE "failure"
<1>1. /\ breakers \in [Stores -> Breaker] /\ request \in [Loops -> Request]
      /\ up \subseteq Stores /\ failed \subseteq Stores /\ tries \in [Stores -> Nat]
  BY TypeParts DEF BreakerInv
<1>2. /\ s # NoStore /\ request' = [request EXCEPT ![l].answer = a]
      /\ failed' = IF s \in up THEN failed ELSE failed \cup {s}
      /\ breakers' = breakers /\ up' = up /\ tries' = tries
  BY DEF Answer, Calling
<1>3. request[l] \in Request /\ s \in Stores /\ a \in Answers
  BY <1>1, <1>2 DEF Request, Answers
<1>4. request' \in [Loops -> Request]
  <2>1. [request[l] EXCEPT !.answer = a] \in Request
    BY <1>3 DEF Request
  <2> QED
    BY <1>1, <1>2, <2>1
<1>5. \A m \in Loops : request'[m].store = request[m].store
  BY <1>1, <1>2, <1>3 DEF Request
<1>6. BreakerTypeOK'
  BY <1>1, <1>2, <1>3, <1>4 DEF BreakerTypeOK, Breaker, Request
<1>7. AnswersAgree'
  <2> SUFFICES ASSUME NEW m \in Loops, request'[m].answer = "failure"
               PROVE  request'[m].store \in failed'
    BY DEF AnswersAgree
  <2>1. CASE m = l
    <3>1. request'[l].answer = a
      BY <1>1, <1>2, <1>3 DEF Request
    <3>2. s \notin up
      BY <2>1, <3>1
    <3> QED
      BY <1>2, <1>5, <2>1, <3>2
  <2>2. CASE m # l
    <3>1. request[m].answer = "failure"
      BY <1>1, <1>2, <2>2
    <3> QED
      BY <1>2, <1>5, <3>1 DEF BreakerInv, AnswersAgree
  <2> QED
    BY <2>1, <2>2
<1>8. HealthyStoresAreServed'
  BY <1>2 DEF BreakerInv, HealthyStoresAreServed, Get
<1>9. \A t \in Stores : UnderWay(t)' = UnderWay(t)
  BY <1>5 DEF UnderWay
<1>10. TriesAgree' /\ \A t \in Stores : CountAgrees(breakers'[t])
  BY <1>2, <1>9 DEF BreakerInv, TriesAgree
<1> QED
  BY <1>6, <1>7, <1>8, <1>10 DEF BreakerInv

(* The answer is recorded, in whatever state the breaker is.                *)
LEMMA RecordKeeps ==
    ASSUME BreakerInv, NEW l \in Loops, NEW s \in Stores, request[l].store = s, Record(l)
    PROVE  BreakerInv'
<1> DEFINE b == breakers[s]
           ok == request[l].answer = "ok"
           after == IF ok THEN NewBreaker ELSE Failed(b)
<1>1. /\ breakers \in [Stores -> Breaker] /\ request \in [Loops -> Request]
      /\ up \subseteq Stores /\ failed \subseteq Stores /\ tries \in [Stores -> Nat]
  BY TypeParts DEF BreakerInv
<1>2. /\ request[l].answer # "none"
      /\ breakers' = [breakers EXCEPT ![s] = after]
      /\ request' = [request EXCEPT ![l] = Idle]
      /\ tries' = [tries EXCEPT ![s] = IF ok \/ Opens(b) THEN 0 ELSE tries[s]]
      /\ up' = up /\ failed' = failed
  BY DEF Record, Calling, Get, Succeeded
<1>3. request[l] \in Request
  BY <1>1
<1>4. b \in Breaker /\ after \in Breaker /\ Idle \in Request
  BY <1>1, <1>3, BreakerTypes DEF Request, Idle, Answers
<1>5. BreakerTypeOK'
  <2>1. breakers' \in [Stores -> Breaker]
    BY <1>1, <1>2, <1>4
  <2>2. request' \in [Loops -> Request]
    BY <1>1, <1>2, <1>4
  <2>3. tries' \in [Stores -> Nat]
    <3>1. tries[s] \in Nat /\ (IF ok \/ Opens(b) THEN 0 ELSE tries[s]) \in Nat
      BY <1>1, <1>3
    <3> QED
      BY <1>1, <1>2, <3>1
  <2> QED
    BY <1>1, <1>2, <2>1, <2>2, <2>3 DEF BreakerTypeOK, Breaker, Request
<1>6. AnswersAgree'
  BY <1>1, <1>2 DEF BreakerInv, AnswersAgree, Idle
<1>7. HealthyStoresAreServed'
  <2> SUFFICES ASSUME NEW t \in Stores \ failed PROVE breakers'[t] = NewBreaker
    BY <1>2 DEF HealthyStoresAreServed, Get
  <2>1. breakers[t] = NewBreaker
    BY DEF BreakerInv, HealthyStoresAreServed, Get
  <2>2. CASE t = s
    <3>1. request[l].answer # "failure"
      BY <2>2 DEF BreakerInv, AnswersAgree
    <3>2. ok
      BY <1>2, <1>3, <3>1 DEF Request, Answers
    <3> QED
      BY <1>1, <1>2, <1>3, <2>2, <3>2
  <2> QED
    BY <1>1, <1>2, <2>1, <2>2
<1>8. \A t \in Stores : CountAgrees(breakers'[t])
  BY <1>1, <1>2, <1>3, <1>4, CountKept DEF BreakerInv
<1>9. TriesAgree'
  <2> SUFFICES ASSUME NEW t \in Stores
               PROVE  tries'[t] <= Cardinality(UnderWay(t)') + Counted(breakers'[t])
    BY DEF TriesAgree
  <2>1. tries[t] <= Cardinality(UnderWay(t)) + Counted(breakers[t])
    BY DEF BreakerInv, TriesAgree
  <2>2. CASE t = s
    <3>1. UnderWay(s)' = UnderWay(s) \ {l} /\ l \in UnderWay(s)
      BY <1>1, <1>2, <1>3, BreakerAssumption DEF UnderWay, Idle
    <3>2. /\ Cardinality(UnderWay(s)') = Cardinality(UnderWay(s)) - 1
          /\ Cardinality(UnderWay(s)) \in Nat /\ Cardinality(UnderWay(s)') \in Nat
      BY <1>3, <3>1, UnderWayFinite, FS_RemoveElement, FS_CardinalityType
    <3>3. breakers'[s] = after /\ Counted(after) \in Nat /\ Counted(b) \in Nat
      BY <1>1, <1>2, <1>3, <1>4, CountKept DEF BreakerInv
    <3>4. CASE ok \/ Opens(b)
      <4>1. tries'[s] = 0
        BY <1>1, <1>2, <1>3, <3>4
      <4> QED
        BY <2>2, <3>2, <3>3, <4>1
    <3>5. CASE ~ok /\ ~Opens(b)
      <4>1. tries'[s] = tries[s] /\ tries[s] \in Nat
        BY <1>1, <1>2, <1>3, <3>5
      <4>2. Counted(after) = Counted(b) + 1
        BY <1>3, <1>4, <3>5, CountKept DEF BreakerInv
      <4> QED
        BY <2>1, <2>2, <3>2, <3>3, <4>1, <4>2
    <3> QED
      BY <3>4, <3>5
  <2>3. CASE t # s
    <3>1. UnderWay(t)' = UnderWay(t)
      BY <1>1, <1>2, <2>3, BreakerAssumption DEF UnderWay, Idle
    <3>2. breakers'[t] = breakers[t] /\ tries'[t] = tries[t]
      BY <1>1, <1>2, <2>3
    <3> QED
      BY <2>1, <3>1, <3>2
  <2> QED
    BY <2>2, <2>3
<1> QED
  BY <1>5, <1>6, <1>7, <1>8, <1>9 DEF BreakerInv

(* Every step of the process, of its stores and of time keeps it.           *)
LEMMA BreakerStep == BreakerInv /\ [BreakerNext]_breakerVars => BreakerInv'
<1> SUFFICES ASSUME BreakerInv, [BreakerNext]_breakerVars PROVE BreakerInv'
  OBVIOUS
<1>0. /\ breakers \in [Stores -> Breaker] /\ request \in [Loops -> Request]
      /\ up \subseteq Stores /\ failed \subseteq Stores /\ tries \in [Stores -> Nat]
  BY TypeParts DEF BreakerInv
<1>1. ASSUME NEW l \in Loops, NEW s \in Stores, Call(l, s) PROVE BreakerInv'
  BY <1>1, CallKeeps
<1>2. ASSUME NEW l \in Loops, Answer(l) PROVE BreakerInv'
  BY <1>2, AnswerKeeps
<1>3. ASSUME NEW l \in Loops, Record(l) PROVE BreakerInv'
  <2>1. request[l].store \in Stores
    BY <1>0, <1>3 DEF Record, Calling, Request
  <2> QED
    BY <1>3, <2>1, RecordKeeps
<1>4. ASSUME NEW s \in Stores, CooldownEnds(s) PROVE BreakerInv'
  <2> DEFINE c == [breakers[s] EXCEPT !.cooling = FALSE]
  <2>1. /\ breakers[s].cooling /\ breakers' = [breakers EXCEPT ![s] = c]
        /\ request' = request /\ up' = up /\ failed' = failed /\ tries' = tries
    BY <1>4 DEF CooldownEnds
  <2>2. breakers[s] \in Breaker
    BY <1>0
  <2>3. c \in Breaker /\ c.state = breakers[s].state /\ c.failures = breakers[s].failures
    BY <2>2 DEF Breaker
  <2>4. BreakerTypeOK'
    <3>1. breakers' \in [Stores -> Breaker]
      BY <1>0, <2>1, <2>3
    <3> QED
      BY <1>0, <2>1, <3>1 DEF BreakerTypeOK, Breaker, Request
  <2>5. AnswersAgree'
    BY <2>1 DEF BreakerInv, AnswersAgree
  <2>6. s \in failed
    BY <2>1 DEF BreakerInv, HealthyStoresAreServed, Get, NewBreaker
  <2>7. HealthyStoresAreServed'
    BY <1>0, <2>1, <2>6 DEF BreakerInv, HealthyStoresAreServed, Get
  <2>8. \A t \in Stores : /\ breakers'[t].state = breakers[t].state
                          /\ breakers'[t].failures = breakers[t].failures
    BY <1>0, <2>1, <2>3
  <2>9. \A t \in Stores : CountAgrees(breakers'[t])
    BY <2>8 DEF BreakerInv, CountAgrees
  <2>10. TriesAgree'
    BY <2>1, <2>8 DEF BreakerInv, TriesAgree, Counted, UnderWay
  <2> QED
    BY <2>4, <2>5, <2>7, <2>9, <2>10 DEF BreakerInv
<1>5. ASSUME NEW s \in Stores, Changes(s) PROVE BreakerInv'
  <2>1. /\ up' \subseteq Stores /\ breakers' = breakers /\ request' = request
        /\ failed' = failed /\ tries' = tries
    BY <1>0, <1>5 DEF Changes
  <2> QED
    BY <2>1 DEF BreakerInv, BreakerTypeOK, AnswersAgree, HealthyStoresAreServed, Get,
                TriesAgree, UnderWay
<1>6. ASSUME Restart PROVE BreakerInv'
  <2>1. /\ breakers' = [t \in Stores |-> NewBreaker] /\ request' = [m \in Loops |-> Idle]
        /\ failed' = {} /\ tries' = [t \in Stores |-> 0] /\ up' = up
    BY <1>6 DEF Restart
  <2> QED
    BY <1>0, <2>1, FreshPrimed DEF Fresh
<1>7. CASE UNCHANGED breakerVars
  BY <1>7 DEF breakerVars, BreakerInv, BreakerTypeOK, AnswersAgree, HealthyStoresAreServed, Get,
              TriesAgree, UnderWay
<1> QED
  BY <1>1, <1>2, <1>3, <1>4, <1>5, <1>6, <1>7 DEF BreakerNext

LEMMA BreakerInvHolds == BreakerSpec => []BreakerInv
<1>1. BreakerInit => BreakerInv
  BY FreshHolds DEF BreakerInit, Fresh
<1> QED
  BY <1>1, BreakerStep, PTL DEF BreakerSpec

-----------------------------------------------------------------------------
(* Breakers, requests and what is remembered of them stay in their domains. *)
THEOREM BreakerTypeCorrect == BreakerSpec => []BreakerTypeOK
<1>1. BreakerInv => BreakerTypeOK
  BY DEF BreakerInv
<1> QED
  BY <1>1, BreakerInvHolds, PTL

(* No store's failures pause another one: HealthyStoresAreServed, for any   *)
(* stores and loops, however late answers are recorded.                     *)
THEOREM HealthyAlwaysServed == BreakerSpec => []HealthyStoresAreServed
<1>1. BreakerInv => HealthyStoresAreServed
  BY DEF BreakerInv
<1> QED
  BY <1>1, BreakerInvHolds, PTL

(* However many loops share a breaker, between two recorded successes or    *)
(* openings no more requests begin than DeadStoresAreSpared says.           *)
THEOREM DeadAlwaysSpared == BreakerSpec => []DeadStoresAreSpared
<1>1. ASSUME BreakerInv PROVE DeadStoresAreSpared
  <2> SUFFICES ASSUME NEW s \in Stores
               PROVE  tries[s] <= Cardinality(Loops)
                         + IF breakers[Get(s)].state = "closed" THEN Threshold - 1 ELSE 0
    BY DEF DeadStoresAreSpared
  <2> DEFINE b == breakers[s]
  <2>1. b \in Breaker /\ tries[s] \in Nat /\ CountAgrees(b)
    BY <1>1, TypeParts DEF BreakerInv
  <2>2. tries[s] <= Cardinality(UnderWay(s)) + Counted(b)
    BY <1>1 DEF BreakerInv, TriesAgree
  <2>3. Cardinality(UnderWay(s)) <= Cardinality(Loops)
        /\ Cardinality(UnderWay(s)) \in Nat /\ Cardinality(Loops) \in Nat
    BY UnderWayFinite, BreakerAssumption, FS_CardinalityType
  <2>4. b.failures \in Nat /\ Counted(b) \in Nat
        /\ Counted(b) <= IF b.state = "closed" THEN Threshold - 1 ELSE 0
    BY <2>1, BreakerAssumption DEF Breaker, CountAgrees, Counted
  <2>5. (IF b.state = "closed" THEN Threshold - 1 ELSE 0) \in Nat
    BY BreakerAssumption
  <2> QED
    BY <2>1, <2>2, <2>3, <2>4, <2>5 DEF Get
<1> QED
  BY <1>1, BreakerInvHolds, PTL

-----------------------------------------------------------------------------
(* The switch's side: a step of the gates is one of its own, or none.       *)
LEMMA SwitchSimulates ==
    ASSUME GatesAssumption, [GatesNext]_gateVars
    PROVE  [Next]_vars
<1>1. ASSUME NEW t \in Tenants, TakeJob(t) \/ ReadSwitch(t) \/ LosesJob(t) PROVE Next
  BY <1>1 DEF TakeJob, ReadSwitch, LosesJob, Next
<1>2. ASSUME NEW t \in Tenants, Publishing(t) PROVE [Next]_vars
  <2>1. CASE CallForJob(t)
    BY <2>1 DEF CallForJob
  <2>2. CASE RefusedJob(t) \/ EndJob(t)
    <3>1. Finish(t) \/ Requeue(t) \/ Drop(t)
      BY <2>2 DEF RefusedJob, EndJob
    <3> QED
      BY <3>1 DEF Next
  <2> QED
    BY <1>2, <2>1, <2>2 DEF Publishing
<1>3. ASSUME NEW t \in Tenants, SyncCalls(t) \/ Elapses(t) \/ (Changes(t) /\ UNCHANGED vars)
      PROVE  UNCHANGED vars
  BY <1>3 DEF SyncCalls, Elapses
<1>4. ASSUME NEW l \in Loops, Answered(l) PROVE UNCHANGED vars
  BY <1>4 DEF Answered
<1>5. CASE SyncEnds
  BY <1>5 DEF SyncEnds
<1>6. CASE RestartWorker
  BY <1>6 DEF RestartWorker, Next
<1>7. CASE People
  BY <1>7 DEF People, Next, GatesAssumption
<1>8. CASE UNCHANGED gateVars
  BY <1>8 DEF gateVars
<1> QED
  BY <1>1, <1>2, <1>3, <1>4, <1>5, <1>6, <1>7, <1>8 DEF GatesNext

(* The worker process implements the kill switch of KillSwitch.             *)
THEOREM GatesImplementSwitch ==
    ASSUME GatesAssumption PROVE GatesSpec => Spec
<1>1. GatesInit => Init
  BY DEF GatesInit
<1> QED
  BY <1>1, SwitchSimulates, PTL DEF GatesSpec, Spec

(* OwnSwitchDecides also where jobs share one worker with a dead store's,   *)
(* are refused by a breaker, retried, or left by a worker that restarts.    *)
THEOREM SwitchDecidesBehindBreakers ==
    ASSUME GatesAssumption PROVE GatesSpec => OwnSwitchDecides
  BY GatesImplementSwitch, OwnSwitchAlwaysDecides, PTL

-----------------------------------------------------------------------------
(* The breakers' side.  What the worker's loops do is one of their steps.   *)
LEMMA BreakerSimulates ==
    ASSUME GatesAssumption, [GatesNext]_gateVars
    PROVE  [BreakerNext]_breakerVars
<1> USE DEF GatesAssumption
<1>1. ASSUME NEW t \in Tenants,
             \/ TakeJob(t) \/ ReadSwitch(t) \/ LosesJob(t)
             \/ SyncCalls(t) \/ Elapses(t) \/ (Changes(t) /\ UNCHANGED vars)
      PROVE  [BreakerNext]_breakerVars
  BY <1>1 DEF TakeJob, ReadSwitch, LosesJob, SyncCalls, Elapses, BreakerNext
<1>2. ASSUME NEW t \in Tenants, Publishing(t) PROVE [BreakerNext]_breakerVars
  BY <1>2 DEF Publishing, CallForJob, RefusedJob, EndJob, BreakerNext
<1>3. ASSUME NEW l \in Loops, Answered(l) PROVE [BreakerNext]_breakerVars
  BY <1>3 DEF Answered, BreakerNext
<1>4. CASE SyncEnds
  BY <1>4 DEF SyncEnds, BreakerNext
<1>5. CASE RestartWorker
  BY <1>5 DEF RestartWorker, BreakerNext
<1>6. CASE People
  BY <1>6 DEF People
<1>7. CASE UNCHANGED gateVars
  BY <1>7 DEF gateVars
<1> QED
  BY <1>1, <1>2, <1>3, <1>4, <1>5, <1>6, <1>7 DEF GatesNext

(* The worker with its two loops and the switch implements the breakers of  *)
(* CircuitBreaker: what they promise on their own they keep here.           *)
THEOREM GatesImplementBreakers ==
    ASSUME GatesAssumption PROVE GatesSpec => BreakerSpec
<1>1. GatesInit => BreakerInit
  BY DEF GatesInit
<1> QED
  BY <1>1, BreakerSimulates, PTL DEF GatesSpec, BreakerSpec

(* Of the worker process: no store is paused for another one, and a dead    *)
(* one is spared, by HealthyStoresAreServed and DeadStoresAreSpared.        *)
THEOREM GatesPauseOnlyTheDead ==
    ASSUME GatesAssumption PROVE GatesSpec => [](HealthyStoresAreServed /\ DeadStoresAreSpared)
  BY GatesImplementBreakers, HealthyAlwaysServed, DeadAlwaysSpared, PTL
=============================================================================
