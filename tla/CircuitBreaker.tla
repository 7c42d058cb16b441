---------------------------- MODULE CircuitBreaker ----------------------------
(***************************************************************************)
(* The circuit breakers between one worker process and the stores it calls: *)
(* the process has one breaker per store, shared by its loops, each of      *)
(* which has at most one request under way.  A breaker's lock is held for   *)
(* Allow and for Record, not for the request between them, so that answers  *)
(* of earlier requests are recorded when the breaker has moved on.          *)
(*                                                                         *)
(* Record also writes the state to circuit_breaker_state.  Only the         *)
(* administrators' list reads that row and only their reset changes it: a   *)
(* process always starts with closed breakers, and is reset by nobody.      *)
(***************************************************************************)
EXTENDS Naturals, FiniteSets

CONSTANTS
    Stores,      \* the stores, and the names of their breakers
    NoStore,     \* none of them
    Loops,       \* goroutines that call stores
    Threshold,   \* failures in a row that open a breaker
    Unreliable   \* the stores that may stop answering

ASSUME BreakerAssumption ==
    /\ NoStore \notin Stores
    /\ IsFiniteSet(Loops)
    /\ Threshold \in Nat \ {0}
    /\ Unreliable \subseteq Stores

VARIABLES
    breakers,    \* the registry
    request,     \* what each loop is doing
    up,          \* stores that answer
    failed,      \* stores of which a request failed since the process started
    tries        \* requests begun since a success, or an opening, was recorded

breakerVars == <<breakers, request, up, failed, tries>>

BreakerStates == {"closed", "open", "half_open"}
Answers == {"none", "ok", "failure"}
Idle == [store |-> NoStore, answer |-> "none"]

(* No failure counts beyond the threshold.  cooling: openUntil is to come.  *)
BreakerTypeOK ==
    /\ breakers \in [Stores -> [state : BreakerStates, failures : 0..Threshold,
                                cooling : BOOLEAN]]
    /\ request \in [Loops -> [store : Stores \cup {NoStore}, answer : Answers]]
    /\ up \subseteq Stores /\ failed \subseteq Stores
    /\ tries \in [Stores -> Nat]

NewBreaker == [state |-> "closed", failures |-> 0, cooling |-> FALSE]

BreakerInit ==
    /\ breakers = [s \in Stores |-> NewBreaker]
    /\ request = [l \in Loops |-> Idle]
    /\ up = Stores /\ failed = {}
    /\ tries = [s \in Stores |-> 0]

(* Mutant: all stores share the breaker of one.                             *)
OneForAll(s) == CHOOSE name \in Stores : TRUE

(* Registry.Get, by the name of the store's host.                           *)
Get(s) == s

Calling(l) == request[l].store

-----------------------------------------------------------------------------
(* Mutant: an open breaker waits for more than its cooldown.                *)
StaysOpen(b) == b.state # "open"

Allowed(b) == b.state # "open" \/ ~b.cooling

(* Mutant: a half-open breaker counts failures from the start.              *)
Restarted(b) == [b EXCEPT !.state = "closed", !.failures = 0]

(* Allow: an open breaker whose cooldown has elapsed becomes half-open.     *)
(* Every loop that asks then is let through, until an outcome is recorded.  *)
Admitting(b) == IF b.state = "open" THEN [b EXCEPT !.state = "half_open"] ELSE b

(* Client.do, up to the request.                                            *)
Call(l, s) ==
    /\ Calling(l) = NoStore
    /\ Allowed(breakers[Get(s)])
    /\ breakers' = [breakers EXCEPT ![Get(s)] = Admitting(@)]
    /\ request' = [request EXCEPT ![l] = [store |-> s, answer |-> "none"]]
    /\ tries' = [tries EXCEPT ![s] = @ + 1]
    /\ UNCHANGED <<up, failed>>

(* The answer, or that there is none.  A refusal which says nothing about   *)
(* whether the store can be reached counts as an answer.                   *)
Answer(l) ==
    /\ Calling(l) # NoStore /\ request[l].answer = "none"
    /\ request' = [request EXCEPT ![l].answer = IF Calling(l) \in up THEN "ok" ELSE "failure"]
    /\ failed' = IF Calling(l) \in up THEN failed ELSE failed \cup {Calling(l)}
    /\ UNCHANGED <<breakers, up, tries>>

Least(m, n) == IF m < n THEN m ELSE n

Opens(b) == b.state = "half_open" \/ b.failures + 1 >= Threshold

Succeeded(b) == NewBreaker

Failed(b) == [state |-> IF Opens(b) THEN "open" ELSE b.state,
              failures |-> Least(b.failures + 1, Threshold),
              cooling |-> Opens(b)]

(* Record, whatever the breaker's state is by now.                          *)
Record(l) ==
    LET s == Calling(l)
        b == breakers[Get(s)]
        after == IF request[l].answer = "ok" THEN Succeeded(b) ELSE Failed(b)
    IN
    /\ s # NoStore /\ request[l].answer # "none"
    /\ breakers' = [breakers EXCEPT ![Get(s)] = after]
    /\ request' = [request EXCEPT ![l] = Idle]
    /\ tries' = [tries EXCEPT ![s] = IF request[l].answer = "ok" \/ Opens(b) THEN 0 ELSE @]
    /\ UNCHANGED <<up, failed>>

-----------------------------------------------------------------------------
CooldownEnds(s) ==
    /\ breakers[s].cooling
    /\ breakers' = [breakers EXCEPT ![s].cooling = FALSE]
    /\ UNCHANGED <<request, up, failed, tries>>

(* A store stops answering, or answers again.                               *)
Changes(s) ==
    /\ s \in Unreliable
    /\ up' = IF s \in up THEN up \ {s} ELSE up \cup {s}
    /\ UNCHANGED <<breakers, request, failed, tries>>

(* The process ends and is started again.                                   *)
Restart ==
    /\ breakers' = [s \in Stores |-> NewBreaker]
    /\ request' = [l \in Loops |-> Idle]
    /\ failed' = {}
    /\ tries' = [s \in Stores |-> 0]
    /\ UNCHANGED up

BreakerNext ==
    \/ \E l \in Loops, s \in Stores : Call(l, s)
    \/ \E l \in Loops : Answer(l) \/ Record(l)
    \/ \E s \in Stores : CooldownEnds(s) \/ Changes(s)
    \/ Restart

BreakerSpec == BreakerInit /\ [][BreakerNext]_breakerVars

-----------------------------------------------------------------------------
(***************************************************************************)
(* Properties.                                                             *)
(***************************************************************************)

(* A store that has not failed is never refused, whatever the others do: a  *)
(* dead store pauses only itself (PHASE8_DONE.md:35).                       *)
HealthyStoresAreServed ==
    \A s \in Stores \ failed : breakers[Get(s)] = NewBreaker

(* A store that fails is spared, not asked again and again (client.go:102): *)
(* from its last recorded success no more requests begin than the threshold *)
(* counts and the loops have under way at once; and after each cooldown no  *)
(* more than there are loops.                                              *)
DeadStoresAreSpared ==
    \A s \in Stores :
        tries[s] <= Cardinality(Loops)
                    + IF breakers[Get(s)].state = "closed" THEN Threshold - 1 ELSE 0
=============================================================================
