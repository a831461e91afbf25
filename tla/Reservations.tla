---------------------------- MODULE Reservations ----------------------------
(***************************************************************************)
(* Listings and their reservations: reserve, adminSchedule, adminComplete  *)
(* and adminCancel of apps/api/src/marketplace/listing.service.ts, and the *)
(* points award of apps/api/src/points/points.service.ts, on PostgreSQL.   *)
(*                                                                         *)
(* A cancelled reservation puts its listing back on the market, so one     *)
(* listing may see many reservations, and an administrator's call may name *)
(* an old one while a new one is active.  As in Quoting, an UPDATE selects *)
(* its rows in a snapshot (Find) and then locks them and looks again at    *)
(* the row it updates (Lock).  The guard on the listing's reservations is  *)
(* a subquery on another table: only the snapshot decides it.              *)
(***************************************************************************)
EXTENDS Integers

CONSTANTS
  Listing,   \* listings
  Call,      \* HTTP calls; a reservation is named by the call that made it
  None,      \* no row, or a column that is null
  Amount     \* what an administrator may enter as the seller's money, in VND

ASSUME NoneAssumption == None \notin Call \cup Listing \cup Nat
ASSUME AmountAssumption == Amount \subseteq Nat \ {0}

VARIABLES
  listing,      \* MarketplaceListing.status, "NONE" before the row exists
  reservation,  \* Reservation.status, "NONE" before the row exists
  planned,      \* the call that wrote a reservation's schedule, or None
  settled,      \* Reservation.sellerReceivedAmountVnd
  award,        \* delta of a listing's LISTING_COMPLETED point entry, or None
  audit,        \* the calls that have an audit entry
  op,           \* what a call does
  place,        \* the listing a reserve call names
  about,        \* the reservation a call is about; a reserve call, its own
  amount,       \* the amount in the body of a complete call
  stage,        \* the statement a call is at
  outcome       \* how its transaction ended

rows == <<listing, reservation, planned, settled, award>>
call == <<op, place, about, amount>>
vars == <<rows, audit, call, stage, outcome>>

ReservationStatus == {"NONE", "RESERVED", "COMPLETED", "CANCELLED"}
Finish == {"complete", "cancel"}
InTransaction == {"findListing", "lockListing", "findReservation",
                  "lockReservation", "insert", "commit"}

TypeOK ==
  /\ listing \in [Listing -> {"NONE", "AVAILABLE", "RESERVED", "COMPLETED"}]
  /\ reservation \in [Call -> ReservationStatus]
  /\ planned \in [Call -> Call \cup {None}]
  /\ settled \in [Call -> Amount \cup {None}]
  /\ award \in [Listing -> Nat \cup {None}]
  /\ audit \subseteq Call
  /\ op \in [Call -> Finish \cup {"none", "reserve", "schedule"}]
  /\ place \in [Call -> Listing \cup {None}]
  /\ about \in [Call -> Call \cup {None}]
  /\ amount \in [Call -> Amount \cup {None}]
  /\ stage \in [Call -> InTransaction \cup {"idle", "audit", "done"}]
  /\ outcome \in [Call -> {"none", "ok", "refused", "duplicate", "error"}]

Init ==
  /\ listing = [l \in Listing |-> "NONE"]
  /\ reservation = [r \in Call |-> "NONE"]
  /\ planned = [r \in Call |-> None]
  /\ settled = [r \in Call |-> None]
  /\ award = [l \in Listing |-> None]
  /\ audit = {}
  /\ op = [c \in Call |-> "none"]
  /\ place = [c \in Call |-> None]
  /\ about = [c \in Call |-> None]
  /\ amount = [c \in Call |-> None]
  /\ stage = [c \in Call |-> "idle"]
  /\ outcome = [c \in Call |-> "none"]
-----------------------------------------------------------------------------
(* Rows and locks. *)

(* The listing row a call updates: reserve's by its path, finish's by the  *)
(* listingId of its reservation, which never changes.                      *)
Where(c) == place[about[c]]

HoldsListing(c) == IF op[c] = "reserve"
                     THEN stage[c] = "insert"
                     ELSE op[c] \in Finish /\ stage[c] \in
                            {"findReservation", "lockReservation", "commit"}

HoldsReservation(c) == stage[c] = "commit"

ListingFree(c) == \A d \in Call \ {c} : HoldsListing(d) => Where(d) # Where(c)

ReservationFree(c, r) ==
  \A d \in Call \ {c} : HoldsReservation(d) => about[d] # r

Active(l) == {r \in Call : place[r] = l /\ reservation[r] = "RESERVED"}

(* Mutant: reserve takes a listing that somebody else holds. *)
FromAny(o) == IF o = "reserve" THEN {"AVAILABLE", "RESERVED"} ELSE {"RESERVED"}

(* The listing status that an UPDATE of the listing asks for. *)
From(o) == IF o = "reserve" THEN {"AVAILABLE"} ELSE {"RESERVED"}

(* Mutant: complete and cancel update the reservation by its id alone. *)
AnyToFinish(c) == op[c] \in Finish \/ reservation[about[c]] = "RESERVED"

(* The guard of every UPDATE of a reservation. *)
StillReserved(c) == reservation[about[c]] = "RESERVED"

(* Points for a completed sale: one per 1,000 VND, at least one. *)
Points(v) == LET p == v \div 1000 IN IF p < 1 THEN 1 ELSE p
-----------------------------------------------------------------------------
(* The steps of a call. *)

Goto(c, s) ==
  /\ stage' = [stage EXCEPT ![c] = s]
  /\ UNCHANGED outcome

(* The call is over; without a commit its locks and writes are gone. *)
Return(c, how) ==
  /\ stage' = [stage EXCEPT ![c] = "done"]
  /\ outcome' = [outcome EXCEPT ![c] = how]

(* A seller's accept creates the listing. *)
List(l) ==
  /\ listing[l] = "NONE"
  /\ listing' = [listing EXCEPT ![l] = "AVAILABLE"]
  /\ UNCHANGED <<reservation, planned, settled, award, audit, call, stage, outcome>>

(* reserve looks at the pass and at the listing's seller, then opens its   *)
(* transaction.  Which users hold a pass is left open: either may happen.  *)
BeginReserve(c, l) ==
  /\ stage[c] = "idle" /\ listing[l] # "NONE"
  /\ op' = [op EXCEPT ![c] = "reserve"]
  /\ place' = [place EXCEPT ![c] = l]
  /\ about' = [about EXCEPT ![c] = c]
  /\ Goto(c, "findListing") \/ Return(c, "refused")
  /\ UNCHANGED <<rows, audit, amount>>

(* complete and cancel read the reservation, of any status, in the         *)
(* transaction; what they use of it, listingId and sellerId, is constant.  *)
BeginFinish(c, r, o, a) ==
  /\ stage[c] = "idle" /\ reservation[r] # "NONE"
  /\ op' = [op EXCEPT ![c] = o]
  /\ about' = [about EXCEPT ![c] = r]
  /\ amount' = [amount EXCEPT ![c] = IF o = "complete" THEN a ELSE None]
  /\ Goto(c, "findListing")
  /\ UNCHANGED <<rows, audit, place>>

BeginSchedule(c, r) ==
  /\ stage[c] = "idle" /\ reservation[r] # "NONE"
  /\ op' = [op EXCEPT ![c] = "schedule"]
  /\ about' = [about EXCEPT ![c] = r]
  /\ Goto(c, "findReservation")
  /\ UNCHANGED <<rows, audit, place, amount>>

(* updateMany on MarketplaceListing: select by status and, to finish, by   *)
(* the reservation, ...                                                    *)
FindListing(c) ==
  /\ stage[c] = "findListing"
  /\ IF /\ listing[Where(c)] \in From(op[c])
        /\ op[c] \in Finish => about[c] \in Active(Where(c))
       THEN Goto(c, "lockListing")
       ELSE Return(c, "refused")
  /\ UNCHANGED <<rows, audit, call>>

(* ... then lock the row and look at its status again. *)
LockListing(c) ==
  /\ stage[c] = "lockListing"
  /\ ListingFree(c)
  /\ IF listing[Where(c)] \in From(op[c])
       THEN Goto(c, IF op[c] = "reserve" THEN "insert" ELSE "findReservation")
       ELSE Return(c, "refused")
  /\ UNCHANGED <<rows, audit, call>>

(* updateMany on Reservation: select the RESERVED row, ... *)
FindReservation(c) ==
  /\ stage[c] = "findReservation"
  /\ IF StillReserved(c) THEN Goto(c, "lockReservation") ELSE Return(c, "refused")
  /\ UNCHANGED <<rows, audit, call>>

(* Mutant: the reservation is locked by its id alone. *)
LockById(c) ==
  /\ stage[c] = "lockReservation"
  /\ ReservationFree(c, about[c])
  /\ Goto(c, "commit")
  /\ UNCHANGED <<rows, audit, call>>

(* Mutant: a reservation that is gone is looked up again. *)
LockAgain(c) ==
  /\ stage[c] = "lockReservation"
  /\ ReservationFree(c, about[c])
  /\ Goto(c, IF StillReserved(c) THEN "commit" ELSE "lockReservation")
  /\ UNCHANGED <<rows, audit, call>>

(* ... then lock it and look at its status again. *)
LockReservation(c) ==
  /\ stage[c] = "lockReservation"
  /\ ReservationFree(c, about[c])
  /\ IF StillReserved(c) THEN Goto(c, "commit") ELSE Return(c, "refused")
  /\ UNCHANGED <<rows, audit, call>>

(* reserve: insert the reservation, under the partial unique index on      *)
(* RESERVED rows, and commit.                                              *)
Reserve(c) ==
  /\ stage[c] = "insert"
  /\ \A r \in Active(place[c]) : ReservationFree(c, r)
  /\ IF Active(place[c]) = {}
       THEN /\ listing' = [listing EXCEPT ![place[c]] = "RESERVED"]
            /\ reservation' = [reservation EXCEPT ![c] = "RESERVED"]
            /\ stage' = [stage EXCEPT ![c] = "audit"]
            /\ outcome' = [outcome EXCEPT ![c] = "ok"]
       ELSE Return(c, "duplicate") /\ UNCHANGED <<listing, reservation>>
  /\ UNCHANGED <<planned, settled, award, audit, call>>

(* reserve's audit entry follows its commit and may be lost. *)
Audit(c) ==
  /\ stage[c] = "audit"
  /\ audit' \in {audit, audit \cup {c}}
  /\ stage' = [stage EXCEPT ![c] = "done"]
  /\ UNCHANGED <<rows, call, outcome>>

(* complete: award the points, under the unique index on the listing's     *)
(* entry, write the audit entry and commit.                                *)
Complete(c) ==
  /\ stage[c] = "commit" /\ op[c] = "complete"
  /\ IF award[Where(c)] = None
       THEN /\ listing' = [listing EXCEPT ![Where(c)] = "COMPLETED"]
            /\ reservation' = [reservation EXCEPT ![about[c]] = "COMPLETED"]
            /\ settled' = [settled EXCEPT ![about[c]] = amount[c]]
            /\ award' = [award EXCEPT ![Where(c)] = Points(amount[c])]
            /\ audit' = audit \cup {c}
            /\ Return(c, "ok")
       ELSE /\ Return(c, "duplicate")
            /\ UNCHANGED <<listing, reservation, settled, award, audit>>
  /\ UNCHANGED <<planned, call>>

(* Mutant: the reservation is closed and the listing stays held. *)
CancelKeepsListing(c) ==
  /\ stage[c] = "commit" /\ op[c] = "cancel"
  /\ reservation' = [reservation EXCEPT ![about[c]] = "CANCELLED"]
  /\ audit' = audit \cup {c}
  /\ Return(c, "ok")
  /\ UNCHANGED <<listing, planned, settled, award, call>>

(* Mutant: the audit entry is written outside the transaction. *)
CancelAuditsLater(c) ==
  /\ stage[c] = "commit" /\ op[c] = "cancel"
  /\ listing' = [listing EXCEPT ![Where(c)] = "AVAILABLE"]
  /\ reservation' = [reservation EXCEPT ![about[c]] = "CANCELLED"]
  /\ stage' = [stage EXCEPT ![c] = "audit"]
  /\ outcome' = [outcome EXCEPT ![c] = "ok"]
  /\ UNCHANGED <<planned, settled, award, audit, call>>

(* cancel: write the audit entry and commit. *)
Cancel(c) ==
  /\ stage[c] = "commit" /\ op[c] = "cancel"
  /\ listing' = [listing EXCEPT ![Where(c)] = "AVAILABLE"]
  /\ reservation' = [reservation EXCEPT ![about[c]] = "CANCELLED"]
  /\ audit' = audit \cup {c}
  /\ Return(c, "ok")
  /\ UNCHANGED <<planned, settled, award, call>>

(* schedule: write the audit entry and commit. *)
Schedule(c) ==
  /\ stage[c] = "commit" /\ op[c] = "schedule"
  /\ planned' = [planned EXCEPT ![about[c]] = c]
  /\ audit' = audit \cup {c}
  /\ Return(c, "ok")
  /\ UNCHANGED <<listing, reservation, settled, award, call>>

(* A lost connection, a transaction timeout or a stopped process. *)
Fail(c) ==
  /\ stage[c] \in InTransaction
  /\ Return(c, "error")
  /\ UNCHANGED <<rows, audit, call>>

AllDone == (\A c \in Call : stage[c] = "done") /\ UNCHANGED vars

Begin(c) ==
  \/ \E l \in Listing : BeginReserve(c, l)
  \/ \E r \in Call : BeginSchedule(c, r)
  \/ \E r \in Call, o \in Finish, a \in Amount : BeginFinish(c, r, o, a)

Step(c) ==
  \/ FindListing(c)
  \/ LockListing(c)
  \/ FindReservation(c)
  \/ LockReservation(c)
  \/ Reserve(c)
  \/ Audit(c)
  \/ Complete(c)
  \/ Cancel(c)
  \/ Schedule(c)

Next ==
  \/ \E l \in Listing : List(l)
  \/ \E c \in Call : Begin(c) \/ Step(c) \/ Fail(c)
  \/ AllDone

Spec == Init /\ [][Next]_vars

(* The server and the database keep running the calls they have taken. *)
FairSpec == Spec /\ \A c \in Call : WF_vars(Step(c))
-----------------------------------------------------------------------------
(* Properties. *)

At(l, s) == {r \in Call : place[r] = l /\ reservation[r] = s}

ListingAgrees(l) ==
  /\ \A r, s \in At(l, "RESERVED") \cup At(l, "COMPLETED") : r = s
  /\ listing[l] = "RESERVED" <=> At(l, "RESERVED") # {}
  /\ listing[l] = "COMPLETED" <=> At(l, "COMPLETED") # {}
  /\ award[l] # None <=> At(l, "COMPLETED") # {}
  /\ \A r \in At(l, "COMPLETED") :
       settled[r] # None /\ award[l] = Points(settled[r])

(* A listing is RESERVED exactly while one reservation of it is, COMPLETED  *)
(* exactly when one reservation of it is, never both, and its point entry   *)
(* is worth what that reservation was settled for.  reserve, complete and   *)
(* cancel each write both rows, and calls about older reservations race     *)
(* with calls about newer ones.                                             *)
ListingsAgree == \A l \in Listing : ListingAgrees(l)

(* The unique indexes on active reservations and on point entries are the   *)
(* backstop, not the mechanism (reserve says so): the conditional updates   *)
(* already order the calls, and no insert ever meets a conflict.            *)
BackstopsUnused == \A c \in Call : outcome[c] # "duplicate"

(* The recorded calls that closed reservation r. *)
ClosedBy(r) == {c \in audit : about[c] = r /\ op[c] \in Finish}

(* The audit log and the rows tell the same story: a reservation is closed  *)
(* exactly when one complete or cancel of it succeeded and has its entry,   *)
(* and a schedule is kept exactly for the calls that say so.                *)
AuditComplete ==
  \A r \in Call :
    /\ \A c, d \in ClosedBy(r) : c = d
    /\ reservation[r] = "COMPLETED" <=> \E c \in ClosedBy(r) : op[c] = "complete"
    /\ reservation[r] = "CANCELLED" <=> \E c \in ClosedBy(r) : op[c] = "cancel"
    /\ planned[r] # None <=> \E c \in audit : about[c] = r /\ op[c] = "schedule"

(* Why the above hold.  A row that a call has locked is still what the call *)
(* found when it locked it, and no two calls lock the same row, ...         *)
LocksConsistent ==
  /\ \A c \in Call : HoldsListing(c) => listing[Where(c)] \in From(op[c])
  /\ \A c \in Call : HoldsReservation(c) => StillReserved(c)
  /\ \A c, d \in Call :
       c # d /\ HoldsListing(c) /\ HoldsListing(d) => Where(c) # Where(d)
  /\ \A c, d \in Call :
       c # d /\ HoldsReservation(c) /\ HoldsReservation(d) => about[c] # about[d]

(* ... and how far a call has come tells what it is about and has done.     *)
CallConsistent(c) ==
  /\ stage[c] = "idle" <=> op[c] = "none"
  /\ op[c] = "reserve" <=> place[c] # None
  /\ op[c] = "reserve" => about[c] = c
  /\ op[c] \in Finish \cup {"schedule"} =>
       about[c] # None /\ reservation[about[c]] # "NONE"
  /\ op[c] = "complete" => amount[c] # None
  /\ stage[c] \in {"findListing", "lockListing"} => op[c] # "schedule"
  /\ stage[c] \in {"insert", "audit"} => op[c] = "reserve"
  /\ stage[c] \in {"findReservation", "lockReservation", "commit"} =>
       op[c] # "reserve"
  /\ reservation[c] # "NONE" => op[c] = "reserve" /\ outcome[c] = "ok"
  /\ outcome[c] = "ok" => stage[c] \in {"audit", "done"}
  /\ stage[c] = "audit" => outcome[c] = "ok"
  /\ c \in audit => outcome[c] = "ok"
  /\ outcome[c] = "ok" /\ op[c] = "reserve" => reservation[c] # "NONE"

(* The inductive invariant. *)
Inv ==
  /\ TypeOK
  /\ LocksConsistent
  /\ \A c \in Call : CallConsistent(c)
  /\ ListingsAgree
  /\ BackstopsUnused
  /\ AuditComplete

(* A reservation that is closed keeps its schedule: adminSchedule never     *)
(* writes to a reservation that was completed or cancelled meanwhile.       *)
ScheduleFrozen ==
  [][\A r \in Call : planned'[r] # planned[r] =>
       reservation[r] = "RESERVED" /\ reservation'[r] = "RESERVED"]_vars

(* An old reservation never moves a listing that was booked again: a        *)
(* RESERVED listing is released or completed only by the call about the     *)
(* reservation that holds it, and its money and points are that call's.     *)
OnlyTheHolderMoves ==
  [][\A l \in Listing : listing[l] = "RESERVED" /\ listing'[l] # "RESERVED" =>
       \E r \in Active(l), c \in audit' \ audit :
         /\ about[c] = r /\ reservation'[r] # "RESERVED"
         /\ op[c] = "complete" => settled'[r] = amount[c]]_vars

(* Every call is answered: no two calls wait for each other's rows. *)
EveryCallAnswered ==
  \A c \in Call : stage[c] # "idle" ~> stage[c] = "done"

(* The RESERVED or COMPLETED reservation of a listing. *)
HeldAt(l) == At(l, "RESERVED") \cup At(l, "COMPLETED")
HolderOf(l) == IF HeldAt(l) = {} THEN None ELSE CHOOSE r \in HeldAt(l) : TRUE

Shop == INSTANCE Market WITH
          Reservation <- Call,
          shelf <- listing,
          holder <- [l \in Listing |-> HolderOf(l)],
          earned <- award,
          past <- {r \in Call : reservation[r] # "NONE"}

(* The rows implement the abstract market: what reserve, complete and      *)
(* cancel do in several statements, it does in one step.                   *)
ImplementsMarket == Shop!Spec
=============================================================================
