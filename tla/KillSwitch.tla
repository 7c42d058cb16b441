----------------------------- MODULE KillSwitch -----------------------------
(***************************************************************************)
(* The pricing kill switch across tenants: the rows of                     *)
(* pricing_kill_switches (one per tenant and one for the platform, none    *)
(* seeded), how they are read, and what setting them does to the queued    *)
(* executions.  PricePublishing models one tenant in full, with only the   *)
(* result of SwitchRead.  Here at most one worker is at a tenant's jobs.    *)
(***************************************************************************)
EXTENDS Naturals

CONSTANTS Tenants

VARIABLES
    platformRow,   \* the row of scope 'platform'
    tenantRow,     \* the row of scope 'tenant' of each organization
    jobs,          \* the latest execution of each tenant
    calls,         \* tenants with a QueuePublish between its read and its commit
    hands,         \* what a worker is doing with an execution of each tenant
    unread         \* history: tenants whose job in hand went on unread

vars == <<platformRow, tenantRow, jobs, calls, hands, unread>>

RowStates == {"absent", "off", "on"}
JobStates == {"none", "queued", "running", "cancelled"}
HandStates == {"free", "claimed", "stopping", "working"}

Init ==
    /\ platformRow = "absent"
    /\ tenantRow = [t \in Tenants |-> "absent"]
    /\ jobs = [t \in Tenants |-> "none"]
    /\ calls = {}
    /\ hands = [t \in Tenants |-> "free"]
    /\ unread = {}

(* Mutant: the platform's row comes first.                                  *)
PlatformFirst(t) == IF platformRow # "absent" THEN platformRow ELSE tenantRow[t]

(* ORDER BY scope DESC LIMIT 1: a tenant's own row hides the platform's;    *)
(* "absent" is sql.ErrNoRows.                                              *)
SwitchRead(t) == IF tenantRow[t] # "absent" THEN tenantRow[t] ELSE platformRow

(* QueuePublish fails on a missing row, which GetKillSwitch reports as      *)
(* disabled; a worker goes on unless it reads an enabled row.              *)
QueueAccepts(t) == SwitchRead(t) = "off"
WorkerStops(t) == SwitchRead(t) = "on"

Row(enabled) == IF enabled THEN "on" ELSE "off"

SetTenantKillSwitch(t, enabled) ==
    /\ tenantRow' = [tenantRow EXCEPT ![t] = Row(enabled)]
    /\ jobs' = IF enabled /\ jobs[t] \in {"queued", "running"}
               THEN [jobs EXCEPT ![t] = "cancelled"] ELSE jobs
    /\ UNCHANGED <<platformRow, calls, hands, unread>>

(* The platform scope shares the code.  Its cancelling statement has no     *)
(* placeholder when orgID is empty but is still given orgID as argument,   *)
(* which lib/pq refuses: the transaction rolls back.                       *)
SetPlatformKillSwitch(enabled) ==
    /\ platformRow' = IF enabled THEN platformRow ELSE "off"
    /\ UNCHANGED <<tenantRow, jobs, calls, hands, unread>>

QueueRead(t) ==
    /\ t \notin calls
    /\ QueueAccepts(t)
    /\ calls' = calls \cup {t}
    /\ UNCHANGED <<platformRow, tenantRow, jobs, hands, unread>>

QueueCommit(t) ==
    /\ t \in calls
    /\ calls' = calls \ {t}
    /\ jobs' = IF jobs[t] \in {"none", "cancelled"}
               THEN [jobs EXCEPT ![t] = "queued"] ELSE jobs
    /\ UNCHANGED <<platformRow, tenantRow, hands, unread>>

(* claimExecution commits before the switch is read.                        *)
Claim(t) ==
    /\ hands[t] = "free" /\ jobs[t] = "queued"
    /\ jobs' = [jobs EXCEPT ![t] = "running"]
    /\ hands' = [hands EXCEPT ![t] = "claimed"]
    /\ unread' = unread \ {t}
    /\ UNCHANGED <<platformRow, tenantRow, calls>>

(* The read in runExecution, in a transaction of its own.  Only an enabled  *)
(* row stops the job; a read that fails lets it go on.                     *)
Start(t) == \E fails \in BOOLEAN :
    /\ hands[t] = "claimed"
    /\ fails => WorkerStops(t)
    /\ hands' = [hands EXCEPT ![t] = IF WorkerStops(t) /\ ~fails THEN "stopping" ELSE "working"]
    /\ unread' = IF fails THEN unread \cup {t} ELSE unread
    /\ UNCHANGED <<platformRow, tenantRow, jobs, calls>>

(* The hand opens, and the row it held becomes status.                      *)
Put(t, status) ==
    /\ hands' = [hands EXCEPT ![t] = "free"]
    /\ jobs' = [jobs EXCEPT ![t] = status]
    /\ UNCHANGED <<platformRow, tenantRow, calls, unread>>

(* finishExecution does not look at the status that it overwrites.          *)
Cancel(t) == hands[t] = "stopping" /\ Put(t, "cancelled")
Finish(t) == hands[t] = "working" /\ Put(t, "none")

(* Mutant: the retry does not look at the status either.                    *)
RequeueAnyway(t) == hands[t] = "working" /\ Put(t, "queued")

(* handleExecutionError's retry: WHERE status='running'.                    *)
Requeue(t) ==
    /\ hands[t] = "working"
    /\ Put(t, IF jobs[t] = "running" THEN "queued" ELSE jobs[t])

(* The worker dies, cannot read the task, or its last transaction fails: a  *)
(* row left running is never touched again, and the tenant's next one counts.*)
Drop(t) ==
    /\ hands[t] # "free"
    /\ Put(t, IF jobs[t] = "running" THEN "none" ELSE jobs[t])

Next ==
    \/ \E t \in Tenants :
          \/ QueueRead(t) \/ QueueCommit(t) \/ Claim(t) \/ Start(t)
          \/ Cancel(t) \/ Finish(t) \/ Requeue(t) \/ Drop(t)
          \/ \E enabled \in BOOLEAN : SetTenantKillSwitch(t, enabled)
    \/ \E enabled \in BOOLEAN : SetPlatformKillSwitch(enabled)

Spec == Init /\ [][Next]_vars

-----------------------------------------------------------------------------
(* The switch rows, the jobs and the hands stay in their domains.           *)
TypeOK ==
    /\ platformRow \in RowStates
    /\ tenantRow \in [Tenants -> RowStates]
    /\ jobs \in [Tenants -> JobStates]
    /\ calls \subseteq Tenants
    /\ hands \in [Tenants -> HandStates]
    /\ unread \subseteq Tenants

(* A tenant's own switch decides over its jobs, whatever other tenants and  *)
(* the platform set.  While it is off, no worker turns to cancelling, and  *)
(* none of its jobs is cancelled but by one that had read it before.  While *)
(* it is on, no worker starts on a job unless its read failed, not even on *)
(* one queued by a call that read it before; and no job is queued again but*)
(* by such a call, or by the retry of such a worker: what was under way     *)
(* when the switch came does not come back.                                *)
OwnSwitchDecides ==
    [][\A t \in Tenants :
         /\ tenantRow[t] = "off" /\ tenantRow'[t] = "off" =>
              /\ hands'[t] = "stopping" => hands[t] = "stopping"
              /\ jobs'[t] = "cancelled" => jobs[t] = "cancelled" \/ hands[t] = "stopping"
         /\ tenantRow[t] = "on" =>
              /\ hands'[t] = "working" => hands[t] = "working" \/ t \in unread'
              /\ jobs'[t] = "queued" => jobs[t] = "queued" \/ t \in calls \cup unread]_vars

=============================================================================
