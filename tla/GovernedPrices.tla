--------------------------- MODULE GovernedPrices ---------------------------
(***************************************************************************)
(* What the publishing pipeline promises, whatever its workers, retries,   *)
(* crashes and kill switch do: the live price of an item changes only by   *)
(* hand, to the price of a granted proposal, or back to the price such a   *)
(* proposal replaced once it was confirmed live; and a refused proposal is *)
(* never granted.  How often and how late a granted price is written is    *)
(* left open.                                                              *)
(***************************************************************************)
EXTENDS Naturals

CONSTANTS
    Items, Prices, Requests,
    Deals,     \* records with at least the fields item, previous and target
    NoDeal

VARIABLES
    live,      \* the regular price of each item in the store
    deal,      \* what each request proposes
    granted,   \* the requests someone with the authority approved
    refused,   \* the requests rejected or expired undecided
    undoable,  \* the requests confirmed live
    edits      \* how often somebody edited the store by hand

vars == <<live, deal, granted, refused, undoable, edits>>

Init ==
    /\ live \in [Items -> Prices]
    /\ deal = [r \in Requests |-> NoDeal]
    /\ granted = {}
    /\ refused = {}
    /\ undoable = {}
    /\ edits = 0

Propose(r) ==
    /\ deal[r] = NoDeal
    /\ \E d \in Deals : deal' = [deal EXCEPT ![r] = d]
    /\ UNCHANGED <<live, granted, refused, undoable, edits>>

Open(r) == deal[r] # NoDeal /\ r \notin granted \cup refused

Grant(r) ==
    /\ Open(r)
    /\ granted' = granted \cup {r}
    /\ UNCHANGED <<live, deal, refused, undoable, edits>>

Refuse(R) ==
    /\ \A r \in R : Open(r)
    /\ refused' = refused \cup R
    /\ UNCHANGED <<live, deal, granted, undoable, edits>>

Publish(r) ==
    /\ r \in granted
    /\ live' = [live EXCEPT ![deal[r].item] = deal[r].target]
    /\ UNCHANGED <<deal, granted, refused, undoable, edits>>

Confirm(r) ==
    /\ r \in granted
    /\ undoable' = undoable \cup {r}
    /\ UNCHANGED <<live, deal, granted, refused, edits>>

(* A second worker may find the confirmed price gone again.                 *)
Withdraw(r) ==
    /\ undoable' = undoable \ {r}
    /\ UNCHANGED <<live, deal, granted, refused, edits>>

Undo(r) ==
    /\ r \in undoable
    /\ live' = [live EXCEPT ![deal[r].item] = deal[r].previous]
    /\ UNCHANGED <<deal, granted, refused, undoable, edits>>

EditByHand(i) ==
    /\ edits' = edits + 1
    /\ \E p \in Prices : live' = [live EXCEPT ![i] = p]
    /\ UNCHANGED <<deal, granted, refused, undoable>>

Next ==
    \/ \E i \in Items : EditByHand(i)
    \/ \E r \in Requests : \/ Withdraw(r) \/ Propose(r) \/ Grant(r) \/ Publish(r)
                           \/ Confirm(r) \/ Undo(r)
    \/ \E R \in SUBSET Requests : Refuse(R)

Spec == Init /\ [][Next]_vars

=============================================================================
