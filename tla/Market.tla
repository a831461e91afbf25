------------------------------- MODULE Market -------------------------------
(***************************************************************************)
(* What the marketplace promises of its listings, without transactions: a  *)
(* listing is held for one reservation at a time, a hold is released or    *)
(* settled in one step, and settling is final and earns points once.       *)
(***************************************************************************)
EXTENDS Integers

CONSTANTS
  Listing,       \* listings
  Reservation,   \* reservations
  Amount,        \* what a seller may have received, in VND
  None           \* no reservation, no points

VARIABLES
  shelf,    \* where a listing stands
  holder,   \* the reservation a listing is held for or was settled with
  earned,   \* the points its seller earned, or None
  past      \* every reservation ever made

vars == <<shelf, holder, earned, past>>

Init ==
  /\ shelf = [l \in Listing |-> "NONE"]
  /\ holder = [l \in Listing |-> None]
  /\ earned = [l \in Listing |-> None]
  /\ past = {}

List(l) ==
  /\ shelf[l] = "NONE"
  /\ shelf' = [shelf EXCEPT ![l] = "AVAILABLE"]
  /\ UNCHANGED <<holder, earned, past>>

(* Reservations are never reused: a second hold is a new reservation. *)
Hold(l, r) ==
  /\ shelf[l] = "AVAILABLE" /\ r \notin past
  /\ shelf' = [shelf EXCEPT ![l] = "RESERVED"]
  /\ holder' = [holder EXCEPT ![l] = r]
  /\ past' = past \cup {r}
  /\ UNCHANGED earned

Release(l) ==
  /\ shelf[l] = "RESERVED"
  /\ shelf' = [shelf EXCEPT ![l] = "AVAILABLE"]
  /\ holder' = [holder EXCEPT ![l] = None]
  /\ UNCHANGED <<earned, past>>

(* One point for every full 1,000 VND, and at least one. *)
Earns(p, a) == a < 1000 * (p + 1) /\ (p = 1 \/ 1000 * p <= a)

Settle(l, a) ==
  /\ shelf[l] = "RESERVED"
  /\ shelf' = [shelf EXCEPT ![l] = "COMPLETED"]
  /\ \E p \in 1 .. a : /\ Earns(p, a)
                      /\ earned' = [earned EXCEPT ![l] = p]
  /\ UNCHANGED <<holder, past>>

Next ==
  \E l \in Listing :
    \/ List(l)
    \/ \E r \in Reservation : Hold(l, r)
    \/ Release(l)
    \/ \E a \in Amount : Settle(l, a)

Spec == Init /\ [][Next]_vars
=============================================================================
