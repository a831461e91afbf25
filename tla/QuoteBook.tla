----------------------------- MODULE QuoteBook -----------------------------
(***************************************************************************)
(* What scrap requests and their quotes promise, without transactions:     *)
(* an offer on the table is replaced, accepted or withdrawn by rejection   *)
(* in one step, a request is decided once, and it is sold for the offer    *)
(* that was on the table at that moment.                                   *)
(***************************************************************************)
CONSTANTS
  Request,   \* scrap requests
  Quote,     \* quotes
  None       \* no quote

VARIABLES
  status,    \* where a request stands
  offer,     \* the quote awaiting the seller's answer, or None
  sold,      \* the quote a request was sold for, or None
  past       \* every quote ever made

vars == <<status, offer, sold, past>>

Init ==
  /\ status = [r \in Request |-> "NONE"]
  /\ offer = [r \in Request |-> None]
  /\ sold = [r \in Request |-> None]
  /\ past = {}

Submit(r) ==
  /\ status[r] = "NONE"
  /\ status' = [status EXCEPT ![r] = "SUBMITTED"]
  /\ UNCHANGED <<offer, sold, past>>

(* A new quote replaces the offer, if there is one; quotes are never reused. *)
Offer(r, q) ==
  /\ status[r] \in {"SUBMITTED", "QUOTED"}
  /\ q \notin past
  /\ status' = [status EXCEPT ![r] = "QUOTED"]
  /\ offer' = [offer EXCEPT ![r] = q]
  /\ past' = past \cup {q}
  /\ UNCHANGED sold

Accept(r) ==
  /\ status[r] = "QUOTED" /\ offer[r] # None
  /\ status' = [status EXCEPT ![r] = "ACCEPTED"]
  /\ sold' = [sold EXCEPT ![r] = offer[r]]
  /\ offer' = [offer EXCEPT ![r] = None]
  /\ UNCHANGED past

Reject(r) ==
  /\ status[r] = "QUOTED" /\ offer[r] # None
  /\ status' = [status EXCEPT ![r] = "REJECTED"]
  /\ offer' = [offer EXCEPT ![r] = None]
  /\ UNCHANGED <<sold, past>>

Next ==
  \E r \in Request :
    \/ Submit(r) \/ Accept(r) \/ Reject(r)
    \/ \E q \in Quote : Offer(r, q)

Spec == Init /\ [][Next]_vars
=============================================================================
