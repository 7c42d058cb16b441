---------------------------- MODULE Announcements ----------------------------
(***************************************************************************)
(* Announcements of the platform to its stores.  The audience is resolved  *)
(* to a list of stores when an announcement is published, by its creator   *)
(* or, when it was scheduled, by a worker; a store's inbox holds what is    *)
(* published and lists it.  The creator publishes in a transaction after   *)
(* the one that creates, and a worker selects all that is due before it     *)
(* publishes any: an administrator may edit or archive in between.          *)
(***************************************************************************)
EXTENDS Naturals

CONSTANTS
    Announcements,  \* rows of announcements that may be created
    Stores,         \* organizations
    Audiences,      \* what audiences resolve to
    Malformed,      \* an audience that cannot be resolved
    Workers,        \* worker processes
    MaxEdits,       \* how many updates, and
    MaxCuts         \* how many crashes there may be

ASSUME AnnouncementsAssumption ==
    /\ Audiences \subseteq SUBSET Stores
    /\ Malformed \notin Audiences
    /\ MaxEdits \in Nat /\ MaxCuts \in Nat

VARIABLES
    row,       \* the announcements
    targets,   \* announcement_targets: the stores each was last published to
    creating,  \* what a creator is about to publish to, no one else's
    pending,   \* what each worker selected and did not publish yet
    loose,     \* published other than by publish, to no one, or as it was
    touched,   \* edited since a worker or its creator read it
    edits, cuts

vars == <<row, targets, creating, pending, loose, touched, edits, cuts>>

Statuses == {"none", "draft", "scheduled", "published", "archived"}
AnyAudience == Audiences \cup {Malformed}
Job == Announcements \X AnyAudience

TypeOK ==
    /\ row \in [Announcements -> [status : Statuses, audience : AnyAudience,
                                  publish_at : {"never", "later", "now"}]]
    /\ targets \in [Announcements -> SUBSET Stores]
    /\ creating \in SUBSET Job
    /\ pending \in [Workers -> SUBSET Job]
    /\ loose \in SUBSET Announcements /\ touched \in SUBSET Announcements
    /\ edits \in Nat /\ cuts \in Nat

Init ==
    /\ row = [a \in Announcements |->
                 [status |-> "none", audience |-> Malformed, publish_at |-> "never"]]
    /\ targets = [a \in Announcements |-> {}]
    /\ creating = {} /\ pending = [w \in Workers |-> {}]
    /\ loose = {} /\ touched = {}
    /\ edits = 0 /\ cuts = 0

Status(a) == row[a].status

(* Read by a creator or a worker that has not published it yet.             *)
Held(a) == \E job \in creating \cup UNION {pending[w] : w \in Workers} : job[1] = a

-----------------------------------------------------------------------------
(***************************************************************************)
(* Administrators.                                                         *)
(***************************************************************************)
(* A row that is created published has no targets yet.                      *)
Create(a, status, audience, publish_at) ==
    /\ Status(a) = "none"
    /\ status \in {"draft", "scheduled", "published"}
    /\ status = "scheduled" => publish_at # "never"
    /\ row' = [row EXCEPT ![a] = [status |-> status, audience |-> audience,
                                  publish_at |-> publish_at]]
    /\ IF status = "published"
       THEN creating' = creating \cup {<<a, audience>>} /\ loose' = loose \cup {a}
       ELSE UNCHANGED <<creating, loose>>
    /\ UNCHANGED <<targets, pending, touched, edits, cuts>>

(* Update replaces the row, whatever its status was, and leaves the targets *)
(* as they are.                                                            *)
Update(a, status, audience, publish_at) ==
    /\ Status(a) # "none" /\ status \in Statuses \ {"none"}
    /\ edits < MaxEdits /\ edits' = edits + 1
    /\ row' = [row EXCEPT ![a] = [status |-> status, audience |-> audience,
                                  publish_at |-> publish_at]]
    /\ loose' = IF status # "published" THEN loose \ {a}
                ELSE IF Status(a) = "published" /\ audience = row[a].audience THEN loose
                ELSE loose \cup {a}
    /\ touched' = IF Held(a) THEN touched \cup {a} ELSE touched
    /\ UNCHANGED <<targets, creating, pending, cuts>>

Archive(a) ==
    /\ Status(a) \notin {"none", "archived"}
    /\ row' = [row EXCEPT ![a].status = "archived"]
    /\ UNCHANGED <<targets, creating, pending, loose, touched, edits, cuts>>

-----------------------------------------------------------------------------
(***************************************************************************)
(* Publication.                                                            *)
(***************************************************************************)
(* Mutant: whatever is published becomes published, archived or not.        *)
PromotesAll(a) == row' = [row EXCEPT ![a].status = "published"]

Promote(a) ==
    row' = [row EXCEPT ![a].status = IF @ \in {"draft", "scheduled"} THEN "published" ELSE @]

(* Mutant: the targets of an earlier publication are kept.                  *)
AddsTargets(job) == targets' = [targets EXCEPT ![job[1]] = @ \cup job[2]]

SetTargets(job) == targets' = [targets EXCEPT ![job[1]] = job[2]]

(* publish: the targets are replaced, also when the status is not changed.  *)
Publish(job) ==
    /\ Promote(job[1])
    /\ SetTargets(job)
    /\ loose' = IF job[2] = row[job[1]].audience THEN loose \ {job[1]} ELSE loose \cup {job[1]}

Forget(a) == touched' = IF Held(a)' THEN touched ELSE touched \ {a}

PublishCreated(job) ==
    /\ job \in creating /\ creating' = creating \ {job}
    /\ UNCHANGED pending
    /\ IF job[2] = Malformed THEN UNCHANGED <<row, targets, loose>> ELSE Publish(job)
    /\ Forget(job[1])
    /\ UNCHANGED <<edits, cuts>>

(* The request of a creator is cut off after its first transaction.         *)
CreatorDies(job) ==
    /\ job \in creating /\ creating' = creating \ {job}
    /\ cuts < MaxCuts /\ cuts' = cuts + 1
    /\ UNCHANGED pending
    /\ Forget(job[1])
    /\ UNCHANGED <<row, targets, loose, edits>>

-----------------------------------------------------------------------------
(***************************************************************************)
(* The workers: PublishDue, every minute.                                  *)
(***************************************************************************)
Due(a) == Status(a) = "scheduled" /\ row[a].publish_at = "now"

ComesDue(a) ==
    /\ Status(a) = "scheduled" /\ row[a].publish_at = "later"
    /\ row' = [row EXCEPT ![a].publish_at = "now"]
    /\ UNCHANGED <<targets, creating, pending, loose, touched, edits, cuts>>

(* Mutant: what is scheduled is selected before its time.                   *)
SelectsEarly == {<<a, row[a].audience>> :
                    a \in {b \in Announcements : Status(b) = "scheduled" /\ row[b].publish_at # "never"}}

(* Mutant: what was published before is not selected again.                 *)
SelectsOnce == {<<a, row[a].audience>> : a \in {b \in Announcements : Due(b) /\ targets[b] = {}}}

Selected == {<<a, row[a].audience>> : a \in {b \in Announcements : Due(b)}}

SelectDue(w) ==
    /\ pending[w] = {} /\ Selected # {}
    /\ pending' = [pending EXCEPT ![w] = Selected]
    /\ UNCHANGED <<row, targets, creating, loose, touched, edits, cuts>>

(* In no particular order; an error abandons what is left.                  *)
PublishNext(w, job) ==
    /\ job \in pending[w]
    /\ UNCHANGED creating
    /\ IF job[2] = Malformed
       THEN /\ pending' = [pending EXCEPT ![w] = {}]
            /\ touched' = {a \in touched : Held(a)'}
            /\ UNCHANGED <<row, targets, loose>>
       ELSE /\ pending' = [pending EXCEPT ![w] = @ \ {job}]
            /\ Publish(job)
            /\ Forget(job[1])
    /\ UNCHANGED <<edits, cuts>>

WorkerDies(w) ==
    /\ pending[w] # {} /\ pending' = [pending EXCEPT ![w] = {}]
    /\ cuts < MaxCuts /\ cuts' = cuts + 1
    /\ UNCHANGED creating
    /\ touched' = {a \in touched : Held(a)'}
    /\ UNCHANGED <<row, targets, loose, edits>>

Work(w) == SelectDue(w) \/ \E job \in pending[w] : PublishNext(w, job)

(* publish_at is read of what is scheduled only.                            *)
Times(status) == IF status = "scheduled" THEN {"never", "later", "now"} ELSE {"never"}

Next ==
    \/ \E a \in Announcements, status \in Statuses, audience \in AnyAudience :
          \E publish_at \in Times(status) :
             Create(a, status, audience, publish_at) \/ Update(a, status, audience, publish_at)
    \/ \E a \in Announcements : Archive(a) \/ ComesDue(a)
    \/ \E job \in creating : PublishCreated(job) \/ CreatorDies(job)
    \/ \E w \in Workers : Work(w) \/ WorkerDies(w)

Spec == Init /\ [][Next]_vars

(* RunWorker calls PublishDue every minute for as long as it runs.          *)
FairSpec == Spec /\ \A w \in Workers : WF_vars(Work(w))

-----------------------------------------------------------------------------
(***************************************************************************)
(* Properties.                                                             *)
(***************************************************************************)
(* A published announcement is in the inbox of its audience and of no other *)
(* store; but for one an administrator's edit made published or changed     *)
(* after it was read for publication, and one whose creator did not get to  *)
(* publish it.                                                             *)
InboxFollowsAudience ==
    \A a \in Announcements :
        (Status(a) = "published" /\ a \notin loose) => targets[a] = row[a].audience

(* What was archived comes back by an update alone: neither its creator nor *)
(* a worker that had selected it before publishes it.                       *)
ArchivedStaysOut ==
    [][\A a \in Announcements :
          (Status(a) = "archived" /\ Status(a)' # "archived") => edits' # edits]_vars

(* A worker publishes what is scheduled once its time has come, and nothing *)
(* else that was not edited under its hands.                                *)
PublishedWhenDue ==
    [][\A a \in Announcements :
          (Status(a) \in {"draft", "scheduled"} /\ Status(a)' = "published" /\ edits' = edits)
             => Due(a) \/ a \in touched]_vars

(* Whatever is scheduled and due is published in the end, unless an         *)
(* announcement that cannot be resolved is due again and again.             *)
ScheduledIsPublished ==
    \/ []<>(\E a \in Announcements : Due(a) /\ row[a].audience = Malformed)
    \/ \A a \in Announcements : Due(a) ~> ~Due(a)
=============================================================================
