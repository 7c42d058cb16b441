----------------------------- MODULE StoreGates ------------------------------
(***************************************************************************)
(* What stands between a tenant's queued price and its store in one worker  *)
(* process: the kill switch, read from the database when the publishing     *)
(* loop takes the job, and then the store's circuit breaker, which that     *)
(* loop shares with the synchronization.  One request stands for those of a *)
(* job; a tenant has one store.                                            *)
(***************************************************************************)
EXTENDS KillSwitch, CircuitBreaker

CONSTANTS
    Owners       \* bound: the tenants that ever set their own switch

gateVars == <<vars, breakerVars>>

(* A tenant has one store, and the worker process two loops that call it.   *)
GatesAssumption == Stores = Tenants /\ Owners \subseteq Tenants /\ Loops = {"publish", "sync"}

GatesInit == Init /\ BreakerInit

(* The publishing loop has at most one job in hand.                         *)
TakeJob(t) ==
    /\ \A u \in Tenants : hands[u] = "free"
    /\ Claim(t)
    /\ UNCHANGED breakerVars

ReadSwitch(t) == (Start(t) \/ Cancel(t)) /\ UNCHANGED breakerVars

LosesJob(t) == hands[t] # "working" /\ Drop(t) /\ UNCHANGED breakerVars

CallForJob(t) == hands[t] = "working" /\ Call("publish", t) /\ UNCHANGED vars

(* ErrCircuitOpen costs an attempt, without a request; a job that has one   *)
(* left is queued again.                                                   *)
RefusedJob(t) ==
    /\ hands[t] = "working" /\ Calling("publish") = NoStore
    /\ ~Allowed(breakers[Get(t)])
    /\ Finish(t) \/ Requeue(t) \/ Drop(t)
    /\ UNCHANGED breakerVars

EndJob(t) ==
    /\ hands[t] = "working"
    /\ Record("publish")
    /\ \/ Finish(t) \/ Drop(t)
       \/ request["publish"].answer = "failure" /\ Requeue(t)

(* A synchronization has requests of its own, for one store at a time.      *)
SyncCalls(s) == Call("sync", s) /\ UNCHANGED vars
SyncEnds == Record("sync") /\ UNCHANGED vars

Answered(l) == Answer(l) /\ UNCHANGED vars
Elapses(s) == CooldownEnds(s) /\ UNCHANGED vars

RestartWorker ==
    /\ Restart
    /\ \/ (\A t \in Tenants : hands[t] = "free") /\ UNCHANGED vars
       \/ \E t \in Tenants : Drop(t)

People ==
    /\ UNCHANGED breakerVars
    /\ \/ \E t \in Tenants : QueueRead(t) \/ QueueCommit(t)
       \/ \E t \in Owners, enabled \in BOOLEAN : SetTenantKillSwitch(t, enabled)
       \/ \E enabled \in BOOLEAN : SetPlatformKillSwitch(enabled)

Publishing(t) == CallForJob(t) \/ RefusedJob(t) \/ EndJob(t)

GatesNext ==
    \/ \E t \in Tenants :
          \/ TakeJob(t) \/ ReadSwitch(t) \/ LosesJob(t) \/ Publishing(t)
          \/ SyncCalls(t) \/ Elapses(t)
          \/ Changes(t) /\ UNCHANGED vars
    \/ \E l \in Loops : Answered(l)
    \/ SyncEnds \/ RestartWorker \/ People

(* The loops of the worker process go on, requests have a timeout, and both *)
(* queues are served in the order of creation, so that every connected      *)
(* store is synchronized, and every queued job taken, again and again.      *)
Fairness ==
    /\ \A t \in Tenants : /\ SF_gateVars(TakeJob(t)) /\ SF_gateVars(SyncCalls(t))
                          /\ WF_gateVars(ReadSwitch(t)) /\ WF_gateVars(Publishing(t))
                          /\ WF_gateVars(Elapses(t))
    /\ \A l \in Loops : WF_gateVars(Answered(l))
    /\ WF_gateVars(SyncEnds)

GatesSpec == GatesInit /\ [][GatesNext]_gateVars /\ Fairness

-----------------------------------------------------------------------------
(* A tenant whose store has come to answer for good and whose own switch is *)
(* never on again gets through to it as often as it has a job queued,      *)
(* whatever happens to other stores and to the other switches; unless the   *)
(* worker restarts, or loses jobs it has claimed, for ever.                 *)
OpenGatesLetThrough ==
    \A t \in Tenants :
        (/\ <>[](t \in up /\ tenantRow[t] # "on")
         /\ <>[][~RestartWorker /\ \A u \in Tenants : ~LosesJob(u)]_gateVars
         /\ []<>(jobs[t] = "queued"))
            => []<>(hands[t] = "working" /\ request["publish"].store = t)
=============================================================================
