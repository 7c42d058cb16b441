------------------------ MODULE AnnouncementsProofs ------------------------
(* Proofs about Announcements, for any announcements, stores, audiences     *)
(* and workers.                                                            *)
EXTENDS Announcements, TLAPS

Row == [status : Statuses, audience : AnyAudience, publish_at : {"never", "later", "now"}]

-----------------------------------------------------------------------------
(* Publication keeps the rows, the targets and what is loose in their       *)
(* domains.                                                                *)
LEMMA PublishTypes ==
    ASSUME TypeOK, NEW job \in Job, job[2] # Malformed, Publish(job)
    PROVE  row' \in [Announcements -> Row] /\ targets' \in [Announcements -> SUBSET Stores]
           /\ loose' \in SUBSET Announcements
<1> DEFINE a == job[1]
<1>1. a \in Announcements /\ job[2] \in SUBSET Stores
  BY AnnouncementsAssumption DEF Job, AnyAudience
<1>2. row' \in [Announcements -> Row]
  <2>1. row \in [Announcements -> Row] /\ row[a] \in Row
    BY <1>1 DEF TypeOK, Row
  <2> QED
    BY <1>1, <2>1 DEF Publish, Promote, Row, Statuses
<1>3. targets' \in [Announcements -> SUBSET Stores] /\ loose' \in SUBSET Announcements
  BY <1>1 DEF TypeOK, Publish, SetTargets
<1> QED
  BY <1>2, <1>3

(* Every step keeps every variable in its domain.                           *)
LEMMA TypeStep == TypeOK /\ [Next]_vars => TypeOK'
<1> SUFFICES ASSUME TypeOK, [Next]_vars PROVE TypeOK'
  OBVIOUS
<1> USE AnnouncementsAssumption DEF TypeOK, Row
<1>1. ASSUME NEW a \in Announcements, NEW status \in Statuses, NEW audience \in AnyAudience,
             NEW publish_at \in Times(status), Create(a, status, audience, publish_at)
      PROVE  TypeOK'
  <2>1. publish_at \in {"never", "later", "now"}
    BY <1>1 DEF Times
  <2>2. row' \in [Announcements -> Row]
    BY <1>1, <2>1 DEF Create
  <2>3. creating' \in SUBSET Job /\ loose' \in SUBSET Announcements
    BY <1>1 DEF Create, Job
  <2> QED
    BY <1>1, <2>2, <2>3 DEF Create
<1>2. ASSUME NEW a \in Announcements, NEW status \in Statuses, NEW audience \in AnyAudience,
             NEW publish_at \in Times(status), Update(a, status, audience, publish_at)
      PROVE  TypeOK'
  <2>1. publish_at \in {"never", "later", "now"}
    BY <1>2 DEF Times
  <2>2. row' \in [Announcements -> Row]
    BY <1>2, <2>1 DEF Update
  <2>3. loose' \in SUBSET Announcements /\ touched' \in SUBSET Announcements
    BY <1>2 DEF Update
  <2> QED
    BY <1>2, <2>2, <2>3 DEF Update
<1>3. ASSUME NEW a \in Announcements, Archive(a) PROVE TypeOK'
  <2>1. row[a] \in Row
    OBVIOUS
  <2>2. row' \in [Announcements -> Row]
    BY <1>3, <2>1 DEF Archive, Statuses
  <2> QED
    BY <1>3, <2>2 DEF Archive
<1>4. ASSUME NEW a \in Announcements, ComesDue(a) PROVE TypeOK'
  <2>1. row[a] \in Row
    OBVIOUS
  <2>2. row' \in [Announcements -> Row]
    BY <1>4, <2>1 DEF ComesDue
  <2> QED
    BY <1>4, <2>2 DEF ComesDue
<1>5. ASSUME NEW job \in creating, PublishCreated(job) PROVE TypeOK'
  <2>1. job \in Job
    OBVIOUS
  <2>2. row' \in [Announcements -> Row] /\ targets' \in [Announcements -> SUBSET Stores]
        /\ loose' \in SUBSET Announcements
    BY <1>5, <2>1, PublishTypes DEF PublishCreated
  <2>3. touched' \in SUBSET Announcements
    BY <1>5 DEF PublishCreated, Forget
  <2> QED
    BY <1>5, <2>2, <2>3 DEF PublishCreated
<1>6. ASSUME NEW job \in creating, CreatorDies(job) PROVE TypeOK'
  <2>1. touched' \in SUBSET Announcements
    BY <1>6 DEF CreatorDies, Forget
  <2> QED
    BY <1>6, <2>1 DEF CreatorDies
<1>7. ASSUME NEW w \in Workers, SelectDue(w) PROVE TypeOK'
  <2>1. Selected \in SUBSET Job
    <3>1. \A a \in Announcements : row[a] \in Row
      OBVIOUS
    <3> QED
      BY <3>1 DEF Selected, Job
  <2> QED
    BY <1>7, <2>1 DEF SelectDue
<1>8. ASSUME NEW w \in Workers, NEW job \in pending[w], PublishNext(w, job) PROVE TypeOK'
  <2>1. job \in Job
    OBVIOUS
  <2>2. row' \in [Announcements -> Row] /\ targets' \in [Announcements -> SUBSET Stores]
        /\ loose' \in SUBSET Announcements
    BY <1>8, <2>1, PublishTypes DEF PublishNext
  <2>3. touched' \in SUBSET Announcements
    BY <1>8 DEF PublishNext, Forget
  <2>4. pending' \in [Workers -> SUBSET Job]
    BY <1>8 DEF PublishNext
  <2> QED
    BY <1>8, <2>2, <2>3, <2>4 DEF PublishNext
<1>9. ASSUME NEW w \in Workers, WorkerDies(w) PROVE TypeOK'
  BY <1>9 DEF WorkerDies
<1>10. CASE UNCHANGED vars
  BY <1>10 DEF vars
<1> QED
  BY <1>1, <1>2, <1>3, <1>4, <1>5, <1>6, <1>7, <1>8, <1>9, <1>10 DEF Next, Work

(* Rows, targets and what creators and workers hold stay in their domains.  *)
THEOREM TypeCorrect == Spec => []TypeOK
<1>1. Init => TypeOK
  BY DEF Init, TypeOK, Statuses, AnyAudience
<1> QED
  BY <1>1, TypeStep, PTL DEF Spec

-----------------------------------------------------------------------------
(* What InboxFollowsAudience says of one announcement.                      *)
Follows(a) == (Status(a) = "published" /\ a \notin loose) => targets[a] = row[a].audience

(* Publication gives the announcement the targets it was read with, and     *)
(* calls it loose when they are not its audience's; it touches no other.    *)
LEMMA PublishFollows ==
    ASSUME TypeOK, NEW job \in Job, Publish(job),
           NEW a \in Announcements, Follows(a)
    PROVE  Follows(a)'
<1>1. job[1] \in Announcements
  BY DEF Job
<1>2. CASE a = job[1]
  BY <1>1, <1>2 DEF TypeOK, Publish, Promote, SetTargets, Follows, Status
<1>3. CASE a # job[1]
  BY <1>1, <1>3 DEF TypeOK, Publish, Promote, SetTargets, Follows, Status
<1> QED
  BY <1>2, <1>3

(* No step makes an announcement's inboxes differ from its audience without *)
(* calling it loose.                                                       *)
LEMMA FollowsStep ==
    ASSUME TypeOK, [Next]_vars, NEW a \in Announcements, Follows(a)
    PROVE  Follows(a)'
<1> USE DEF Follows, Status
<1>1. ASSUME NEW b \in Announcements, NEW status \in Statuses, NEW audience \in AnyAudience,
             NEW publish_at \in Times(status), Create(b, status, audience, publish_at)
      PROVE  Follows(a)'
  BY <1>1 DEF Create, TypeOK
<1>2. ASSUME NEW b \in Announcements, NEW status \in Statuses, NEW audience \in AnyAudience,
             NEW publish_at \in Times(status), Update(b, status, audience, publish_at)
      PROVE  Follows(a)'
  BY <1>2 DEF Update, TypeOK
<1>3. ASSUME NEW b \in Announcements, Archive(b) \/ ComesDue(b) PROVE Follows(a)'
  BY <1>3 DEF Archive, ComesDue, TypeOK
<1>4. ASSUME NEW job \in creating, PublishCreated(job) PROVE Follows(a)'
  BY <1>4, PublishFollows DEF PublishCreated, TypeOK
<1>5. ASSUME NEW job \in creating, CreatorDies(job) PROVE Follows(a)'
  BY <1>5 DEF CreatorDies
<1>6. ASSUME NEW w \in Workers, SelectDue(w) \/ WorkerDies(w) PROVE Follows(a)'
  BY <1>6 DEF SelectDue, WorkerDies
<1>7. ASSUME NEW w \in Workers, NEW job \in pending[w], PublishNext(w, job) PROVE Follows(a)'
  <2>1. job \in Job
    BY <1>7 DEF TypeOK
  <2> QED
    BY <1>7, <2>1, PublishFollows DEF PublishNext
<1>8. CASE UNCHANGED vars
  BY <1>8 DEF vars
<1> QED
  BY <1>1, <1>2, <1>3, <1>4, <1>5, <1>6, <1>7, <1>8 DEF Next, Work

(* A published announcement is in the inbox of its audience and of no other *)
(* store, unless it is loose: edited into that, or cut off from its         *)
(* publication.                                                            *)
THEOREM InboxCorrect == Spec => []InboxFollowsAudience
<1> DEFINE Inv == TypeOK /\ InboxFollowsAudience
<1>1. Init => Inv
  BY DEF Init, TypeOK, Statuses, AnyAudience, InboxFollowsAudience, Status
<1>2. Inv /\ [Next]_vars => Inv'
  BY TypeStep, FollowsStep DEF InboxFollowsAudience, Follows
<1> QED
  BY <1>1, <1>2, PTL DEF Spec

-----------------------------------------------------------------------------
(* A step that archives nothing and edits nothing leaves what is archived.  *)
LEMMA PublishKeepsArchived ==
    ASSUME TypeOK, NEW job \in Job, Publish(job), NEW a \in Announcements,
           Status(a) = "archived"
    PROVE  Status(a)' = "archived"
BY DEF Job, TypeOK, Publish, Promote, Status

(* What was archived comes back by an update alone.                         *)
THEOREM ArchivedCorrect == Spec => ArchivedStaysOut
<1>1. ASSUME TypeOK, [Next]_vars, NEW a \in Announcements, Status(a) = "archived",
             edits' = edits
      PROVE  Status(a)' = "archived"
  <2>1. ASSUME NEW b \in Announcements, NEW status \in Statuses, NEW audience \in AnyAudience,
               NEW publish_at \in Times(status), Create(b, status, audience, publish_at)
        PROVE  Status(a)' = "archived"
    BY <1>1, <2>1 DEF Create, TypeOK, Status
  <2>2. ASSUME NEW b \in Announcements, NEW status \in Statuses, NEW audience \in AnyAudience,
               NEW publish_at \in Times(status), Update(b, status, audience, publish_at)
        PROVE  FALSE
    BY <1>1, <2>2 DEF Update, TypeOK
  <2>3. ASSUME NEW b \in Announcements, Archive(b) \/ ComesDue(b)
        PROVE  Status(a)' = "archived"
    BY <1>1, <2>3 DEF Archive, ComesDue, TypeOK, Status
  <2>4. ASSUME NEW job \in creating, PublishCreated(job) \/ CreatorDies(job)
        PROVE  Status(a)' = "archived"
    BY <1>1, <2>4, PublishKeepsArchived DEF PublishCreated, CreatorDies, TypeOK, Status
  <2>5. ASSUME NEW w \in Workers, SelectDue(w) \/ WorkerDies(w)
        PROVE  Status(a)' = "archived"
    BY <1>1, <2>5 DEF SelectDue, WorkerDies, Status
  <2>6. ASSUME NEW w \in Workers, NEW job \in pending[w], PublishNext(w, job)
        PROVE  Status(a)' = "archived"
    <3>1. job \in Job
      BY <1>1, <2>6 DEF TypeOK
    <3> QED
      BY <1>1, <2>6, <3>1, PublishKeepsArchived DEF PublishNext, Status
  <2>7. CASE UNCHANGED vars
    BY <1>1, <2>7 DEF vars, Status
  <2> QED
    BY <1>1, <2>1, <2>2, <2>3, <2>4, <2>5, <2>6, <2>7 DEF Next, Work
<1>2. TypeOK /\ [Next]_vars =>
        [\A a \in Announcements :
           (Status(a) = "archived" /\ Status(a)' # "archived") => edits' # edits]_vars
  BY <1>1
<1> QED
  BY <1>2, TypeCorrect, PTL DEF Spec, ArchivedStaysOut

-----------------------------------------------------------------------------
(* What a creator or a worker holds of an announcement that nobody edited   *)
(* since is still true of it, or it was published or archived meanwhile;    *)
(* and only what exists is held.                                           *)
Out(a) == Status(a) \in {"published", "archived"}

CreatorSees(job) == job[1] \notin touched => Out(job[1])
WorkerSees(job) == job[1] \notin touched => Due(job[1]) \/ Out(job[1])
Exists(job) == Status(job[1]) # "none"

SightInv ==
    /\ \A job \in creating : CreatorSees(job) /\ Exists(job)
    /\ \A w \in Workers : \A job \in pending[w] : WorkerSees(job) /\ Exists(job)

(* Publication keeps all that is seen of any announcement true.             *)
LEMMA PublishKeepsSight ==
    ASSUME TypeOK, NEW job \in Job, Publish(job), NEW a \in Announcements
    PROVE  /\ Out(a) => Out(a)'
           /\ Due(a) => Due(a)' \/ Out(a)'
           /\ Status(a) # "none" => Status(a)' # "none"
BY DEF Job, TypeOK, Publish, Promote, Status, Out, Due

(* An announcement that is still held stays touched.                        *)
LEMMA HeldJob ==
    ASSUME NEW job, job \in creating \/ \E w \in Workers : job \in pending[w]
    PROVE  Held(job[1])
BY DEF Held

(* Nobody holds anything new, no row gets worse, and what is held and was   *)
(* touched remains so: enough for a step to keep SightInv.                  *)
NothingNew ==
    creating' \subseteq creating /\ \A w \in Workers : pending'[w] \subseteq pending[w]
NothingWorse ==
    \A a \in Announcements : /\ Out(a) => Out(a)'
                             /\ Due(a) => Due(a)' \/ Out(a)'
                             /\ Status(a) # "none" => Status(a)' # "none"
StillTouched ==
    \A a \in Announcements : a \in touched /\ Held(a)' => a \in touched'

LEMMA SightKept ==
    ASSUME TypeOK, SightInv, NothingNew, NothingWorse, StillTouched
    PROVE  SightInv'
<1>1. ASSUME NEW job \in creating' PROVE CreatorSees(job)' /\ Exists(job)'
  <2>1. job \in creating /\ job[1] \in Announcements
    BY <1>1 DEF TypeOK, Job, NothingNew
  <2>2. Held(job[1])'
    BY <1>1 DEF Held
  <2> QED
    BY <2>1, <2>2 DEF SightInv, CreatorSees, Exists, NothingWorse, StillTouched
<1>2. ASSUME NEW w \in Workers, NEW job \in pending'[w] PROVE WorkerSees(job)' /\ Exists(job)'
  <2>1. job \in pending[w] /\ job[1] \in Announcements
    BY <1>2 DEF TypeOK, Job, NothingNew
  <2>2. Held(job[1])'
    BY <1>2 DEF Held
  <2> QED
    BY <2>1, <2>2 DEF SightInv, WorkerSees, Exists, NothingWorse, StillTouched
<1> QED
  BY <1>1, <1>2 DEF SightInv

(* Every step keeps what is seen true.                                      *)
LEMMA SightStep == TypeOK /\ SightInv /\ [Next]_vars => SightInv'
<1> SUFFICES ASSUME TypeOK, SightInv, [Next]_vars PROVE SightInv'
  OBVIOUS
<1>1. ASSUME NEW b \in Announcements, NEW status \in Statuses, NEW audience \in AnyAudience,
             NEW publish_at \in Times(status), Create(b, status, audience, publish_at)
      PROVE  SightInv'
  <2>1. ASSUME NEW job \in Job, Exists(job)
        PROVE  job[1] # b /\ row'[job[1]] = row[job[1]]
    BY <1>1, <2>1 DEF Create, TypeOK, Exists, Status, Job
  <2>2. b \in Announcements /\ (status = "published" => Out(b)') /\ Status(b)' # "none"
    BY <1>1 DEF Create, TypeOK, Out, Status
  <2>3. ASSUME NEW job \in creating' PROVE CreatorSees(job)' /\ Exists(job)'
    <3>1. CASE job \in creating
      BY <1>1, <2>1, <3>1 DEF Create, SightInv, CreatorSees, Exists, Out, Status, TypeOK
    <3>2. CASE job \notin creating
      BY <1>1, <2>2, <2>3, <3>2 DEF Create, CreatorSees, Exists
    <3> QED
      BY <3>1, <3>2
  <2>4. ASSUME NEW w \in Workers, NEW job \in pending'[w]
        PROVE  WorkerSees(job)' /\ Exists(job)'
    BY <1>1, <2>1, <2>4 DEF Create, SightInv, WorkerSees, Exists, Out, Due, Status, TypeOK
  <2> QED
    BY <2>3, <2>4 DEF SightInv
<1>2. ASSUME NEW b \in Announcements, NEW status \in Statuses, NEW audience \in AnyAudience,
             NEW publish_at \in Times(status), Update(b, status, audience, publish_at)
      PROVE  SightInv'
  <2>1. ASSUME NEW job \in Job, Held(job[1])
        PROVE  \/ job[1] = b /\ b \in touched'
               \/ job[1] # b /\ row'[job[1]] = row[job[1]]
    BY <1>2, <2>1 DEF Update, TypeOK, Job
  <2>2. Status(b)' # "none" /\ touched \subseteq touched'
    BY <1>2 DEF Update, TypeOK, Status
  <2>3. ASSUME NEW job \in creating' PROVE CreatorSees(job)' /\ Exists(job)'
    <3>1. job \in creating /\ job \in Job /\ Held(job[1])
      BY <1>2, <2>3, HeldJob DEF Update, TypeOK
    <3> QED
      BY <2>1, <2>2, <3>1 DEF SightInv, CreatorSees, Exists, Out, Status
  <2>4. ASSUME NEW w \in Workers, NEW job \in pending'[w]
        PROVE  WorkerSees(job)' /\ Exists(job)'
    <3>1. job \in pending[w] /\ job \in Job /\ Held(job[1])
      BY <1>2, <2>4, HeldJob DEF Update, TypeOK
    <3> QED
      BY <2>1, <2>2, <3>1 DEF SightInv, WorkerSees, Exists, Out, Due, Status
  <2> QED
    BY <2>3, <2>4 DEF SightInv
<1>3. ASSUME NEW b \in Announcements, Archive(b) \/ ComesDue(b) PROVE SightInv'
  <2>1. NothingWorse
    BY <1>3 DEF Archive, ComesDue, TypeOK, Out, Due, Status, NothingWorse
  <2>2. NothingNew /\ StillTouched
    BY <1>3 DEF Archive, ComesDue, NothingNew, StillTouched
  <2> QED
    BY <2>1, <2>2, SightKept
<1>4. ASSUME NEW job \in creating, PublishCreated(job) PROVE SightInv'
  <2>1. job \in Job
    BY <1>4 DEF TypeOK
  <2>2. NothingWorse
    <3>1. CASE job[2] = Malformed
      BY <1>4, <3>1 DEF PublishCreated, Out, Due, Status, NothingWorse
    <3>2. CASE job[2] # Malformed
      BY <1>4, <2>1, <3>2, PublishKeepsSight DEF PublishCreated, NothingWorse
    <3> QED
      BY <3>1, <3>2
  <2>3. StillTouched
    BY <1>4 DEF PublishCreated, Forget, StillTouched
  <2>4. NothingNew
    BY <1>4 DEF PublishCreated, NothingNew
  <2> QED
    BY <2>2, <2>3, <2>4, SightKept
<1>5. ASSUME NEW job \in creating, CreatorDies(job) PROVE SightInv'
  <2>1. StillTouched
    BY <1>5 DEF CreatorDies, Forget, StillTouched
  <2>2. NothingWorse
    BY <1>5 DEF CreatorDies, Out, Due, Status, NothingWorse
  <2>3. NothingNew
    BY <1>5 DEF CreatorDies, NothingNew
  <2> QED
    BY <2>1, <2>2, <2>3, SightKept
<1>6. ASSUME NEW w \in Workers, SelectDue(w) PROVE SightInv'
  <2>1. ASSUME NEW job \in Selected PROVE WorkerSees(job)' /\ Exists(job)'
    BY <1>6, <2>1 DEF Selected, SelectDue, WorkerSees, Exists, Due, Status
  <2>2. ASSUME NEW job \in creating' PROVE CreatorSees(job)' /\ Exists(job)'
    BY <1>6, <2>2 DEF SelectDue, SightInv, CreatorSees, Exists, Out, Status
  <2>3. ASSUME NEW v \in Workers, NEW job \in pending'[v]
        PROVE  WorkerSees(job)' /\ Exists(job)'
    <3>1. CASE v = w
      BY <1>6, <2>1, <2>3, <3>1 DEF SelectDue, TypeOK
    <3>2. CASE v # w
      BY <1>6, <2>3, <3>2 DEF SelectDue, TypeOK, SightInv, WorkerSees, Exists, Out, Due, Status
    <3> QED
      BY <3>1, <3>2
  <2> QED
    BY <2>2, <2>3 DEF SightInv
<1>7. ASSUME NEW w \in Workers, NEW job \in pending[w], PublishNext(w, job) PROVE SightInv'
  <2>1. job \in Job
    BY <1>7 DEF TypeOK
  <2>2. NothingWorse
    <3>1. CASE job[2] = Malformed
      BY <1>7, <3>1 DEF PublishNext, Out, Due, Status, NothingWorse
    <3>2. CASE job[2] # Malformed
      BY <1>7, <2>1, <3>2, PublishKeepsSight DEF PublishNext, NothingWorse
    <3> QED
      BY <3>1, <3>2
  <2>3. StillTouched
    BY <1>7 DEF PublishNext, Forget, StillTouched
  <2>4. NothingNew
    BY <1>7 DEF PublishNext, TypeOK, NothingNew
  <2> QED
    BY <2>2, <2>3, <2>4, SightKept
<1>8. ASSUME NEW w \in Workers, WorkerDies(w) PROVE SightInv'
  <2>1. NothingNew
    BY <1>8 DEF WorkerDies, TypeOK, NothingNew
  <2>2. StillTouched
    BY <1>8 DEF WorkerDies, StillTouched
  <2>3. NothingWorse
    BY <1>8 DEF WorkerDies, Out, Due, Status, NothingWorse
  <2> QED
    BY <2>1, <2>2, <2>3, SightKept
<1>9. CASE UNCHANGED vars
  BY <1>9 DEF vars, SightInv, CreatorSees, WorkerSees, Exists, Out, Due, Status
<1> QED
  BY <1>1, <1>2, <1>3, <1>4, <1>5, <1>6, <1>7, <1>8, <1>9 DEF Next, Work

(* Without an edit, only a publication by a worker, or by a creator whose   *)
(* announcement was edited, makes a draft or a scheduled one published.     *)
LEMMA PublishedStep ==
    ASSUME TypeOK, SightInv, [Next]_vars, NEW a \in Announcements,
           Status(a) \in {"draft", "scheduled"}, Status(a)' = "published", edits' = edits
    PROVE  Due(a) \/ a \in touched
<1>1. ASSUME NEW b \in Announcements, NEW status \in Statuses, NEW audience \in AnyAudience,
             NEW publish_at \in Times(status),
             \/ Create(b, status, audience, publish_at)
             \/ Update(b, status, audience, publish_at)
      PROVE  FALSE
  BY <1>1 DEF Create, Update, TypeOK, Status
<1>2. ASSUME NEW b \in Announcements, Archive(b) \/ ComesDue(b) PROVE FALSE
  BY <1>2 DEF Archive, ComesDue, TypeOK, Status
<1>3. ASSUME NEW job \in Job, Publish(job) PROVE a = job[1]
  BY <1>3 DEF Publish, Promote, TypeOK, Status, Job
<1>4. ASSUME NEW job \in creating, PublishCreated(job) PROVE a \in touched
  <2>1. job \in Job /\ CreatorSees(job)
    BY <1>4 DEF TypeOK, SightInv
  <2>2. a = job[1]
    BY <1>3, <1>4, <2>1 DEF PublishCreated, Status
  <2> QED
    BY <2>1, <2>2 DEF CreatorSees, Out
<1>5. ASSUME NEW job \in creating, CreatorDies(job) PROVE FALSE
  BY <1>5 DEF CreatorDies, Status
<1>6. ASSUME NEW w \in Workers, SelectDue(w) \/ WorkerDies(w) PROVE FALSE
  BY <1>6 DEF SelectDue, WorkerDies, Status
<1>7. ASSUME NEW w \in Workers, NEW job \in pending[w], PublishNext(w, job)
      PROVE  Due(a) \/ a \in touched
  <2>1. job \in Job /\ WorkerSees(job)
    BY <1>7 DEF TypeOK, SightInv
  <2>2. a = job[1]
    BY <1>3, <1>7, <2>1 DEF PublishNext, Status
  <2> QED
    BY <2>1, <2>2 DEF WorkerSees, Out
<1>8. CASE UNCHANGED vars
  BY <1>8 DEF vars, Status
<1> QED
  BY <1>1, <1>2, <1>4, <1>5, <1>6, <1>7, <1>8 DEF Next, Work

(* A worker publishes what is scheduled once its time has come, and nothing *)
(* else that was not edited under its hands.                                *)
THEOREM PublishedWhenDueCorrect == Spec => PublishedWhenDue
<1>1. Init => TypeOK /\ SightInv
  BY DEF Init, TypeOK, Statuses, AnyAudience, SightInv
<1>2. TypeOK /\ SightInv /\ [Next]_vars => (TypeOK /\ SightInv)'
  BY TypeStep, SightStep
<1>3. TypeOK /\ SightInv /\ [Next]_vars =>
        [\A a \in Announcements :
           (Status(a) \in {"draft", "scheduled"} /\ Status(a)' = "published" /\ edits' = edits)
              => Due(a) \/ a \in touched]_vars
  BY PublishedStep
<1> QED
  BY <1>1, <1>2, <1>3, PTL DEF Spec, PublishedWhenDue
=============================================================================
