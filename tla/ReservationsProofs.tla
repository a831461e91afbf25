------------------------- MODULE ReservationsProofs -------------------------
(***************************************************************************)
(* The safety properties of Reservations, for any number of listings,      *)
(* calls and amounts, and then those of the pages on top of it, for pages  *)
(* of any size.                                                            *)
(***************************************************************************)
EXTENDS ListingPages, FunctionTheorems, FiniteSetTheorems, WellFoundedInduction, TLAPS

(* No row exists and no call has begun. *)
LEMMA InitInv == Init => Inv
<1> SUFFICES ASSUME Init PROVE Inv
  OBVIOUS
<1> USE NoneAssumption DEF Init
<1>1. TypeOK
  BY DEF TypeOK, ReservationStatus
<1>2. LocksConsistent
  BY DEF LocksConsistent, HoldsListing, HoldsReservation, Finish
<1>3. ASSUME NEW c \in Call PROVE CallConsistent(c)
  BY DEF CallConsistent, Finish
<1>4. ListingsAgree /\ BackstopsUnused /\ AuditComplete
  BY DEF ListingsAgree, ListingAgrees, At, BackstopsUnused, AuditComplete, ClosedBy
<1> QED
  BY <1>1, <1>2, <1>3, <1>4 DEF Inv

(* What the invariant says of a call in its transaction. *)
LEMMA CallFacts ==
  ASSUME Inv, NEW c \in Call, stage[c] \in InTransaction
  PROVE  /\ op[c] \in Finish \cup {"reserve", "schedule"}
         /\ about[c] \in Call /\ Where(c) \in Listing
         /\ c \notin audit /\ outcome[c] # "ok"
         /\ reservation[c] = "NONE"
         /\ op[c] = "reserve" => about[c] = c
         /\ op[c] # "reserve" => reservation[about[c]] # "NONE"
<1> USE DEF Inv, TypeOK, InTransaction
<1>1. op[c] \in Finish \cup {"reserve", "schedule"}
  BY DEF CallConsistent
<1>2. c \notin audit /\ outcome[c] # "ok"
  BY DEF CallConsistent
<1>3. reservation[c] = "NONE"
  BY <1>2 DEF CallConsistent
<1>4. CASE op[c] = "reserve"
  BY <1>1, <1>2, <1>3, <1>4 DEF CallConsistent, Where
<1>5. CASE op[c] # "reserve"
  <2>1. about[c] \in Call /\ reservation[about[c]] # "NONE"
    BY <1>1, <1>5 DEF CallConsistent
  <2>2. place[about[c]] \in Listing
    BY <2>1 DEF CallConsistent
  <2> QED
    BY <1>1, <1>2, <1>3, <1>5, <2>1, <2>2 DEF Where
<1> QED
  BY <1>4, <1>5

(* A call whose stage alone changes, without reaching a new lock. *)
LEMMA QuietInv ==
  ASSUME Inv, NEW c \in Call, UNCHANGED <<rows, audit, call>>,
         stage[c] \in InTransaction,
         \/ \E how \in {"refused", "error"} : Return(c, how)
         \/ Goto(c, "lockListing") /\ stage[c] = "findListing"
         \/ Goto(c, "lockReservation") /\ stage[c] = "findReservation"
  PROVE  Inv'
<1> USE CallFacts DEF Inv, Return, Goto, rows, call, InTransaction
<1>1. TypeOK'
  BY DEF TypeOK
<1>2. LocksConsistent'
  BY DEF TypeOK, LocksConsistent, HoldsListing, HoldsReservation, Where, StillReserved
<1>3. ASSUME NEW d \in Call PROVE CallConsistent(d)'
  BY DEF TypeOK, CallConsistent
<1>4. ListingsAgree' /\ AuditComplete'
  BY DEF ListingsAgree, ListingAgrees, At, AuditComplete, ClosedBy
<1>5. BackstopsUnused'
  BY DEF TypeOK, BackstopsUnused
<1> QED
  BY <1>1, <1>2, <1>3, <1>4, <1>5

(* A new listing has no reservation. *)
LEMMA ListInv == ASSUME Inv, NEW l \in Listing, List(l) PROVE Inv'
<1> USE DEF Inv, List, call
<1>1. TypeOK'
  BY DEF TypeOK
<1>2. LocksConsistent'
  <2>1. ASSUME NEW c \in Call, HoldsListing(c) PROVE Where(c) # l
    BY <2>1 DEF LocksConsistent, From
  <2>2. \A c \in Call : HoldsListing(c)' => listing'[Where(c)'] \in From(op'[c])
    BY <2>1 DEF TypeOK, LocksConsistent, HoldsListing, Where
  <2> QED
    BY <2>2 DEF LocksConsistent, HoldsListing, HoldsReservation, Where, StillReserved
<1>3. ASSUME NEW d \in Call PROVE CallConsistent(d)'
  BY DEF TypeOK, CallConsistent
<1>4. ListingsAgree'
  BY DEF TypeOK, ListingsAgree, ListingAgrees, At
<1>5. BackstopsUnused' /\ AuditComplete'
  BY DEF BackstopsUnused, AuditComplete, ClosedBy
<1> QED
  BY <1>1, <1>2, <1>3, <1>4, <1>5

(* An idle call has nothing to its name. *)
LEMMA BeginInv == ASSUME Inv, NEW c \in Call, Begin(c) PROVE Inv'
<1> USE NoneAssumption DEF Inv, rows
<1>1. /\ stage[c] = "idle" /\ op[c] = "none" /\ place[c] = None
      /\ reservation[c] = "NONE" /\ c \notin audit /\ outcome[c] # "ok"
  BY DEF Begin, BeginReserve, BeginFinish, BeginSchedule, CallConsistent
<1>2. UNCHANGED <<rows, audit>>
  BY DEF Begin, BeginReserve, BeginFinish, BeginSchedule
<1>3. /\ \A d \in Call \ {c} : /\ op'[d] = op[d] /\ place'[d] = place[d]
                               /\ about'[d] = about[d] /\ amount'[d] = amount[d]
                               /\ stage'[d] = stage[d] /\ outcome'[d] = outcome[d]
      /\ ~HoldsListing(c)' /\ ~HoldsReservation(c)'
  BY <1>1 DEF TypeOK, Begin, BeginReserve, BeginFinish, BeginSchedule, Goto,
              Return, HoldsListing, HoldsReservation, Finish
<1>4. TypeOK'
  BY <1>1 DEF TypeOK, Begin, BeginReserve, BeginFinish, BeginSchedule, Goto,
              Return, InTransaction, Finish
<1>5. ASSUME NEW d \in Call \ {c}, stage[d] \in InTransaction
      PROVE  /\ Where(d)' = Where(d) /\ HoldsListing(d)' = HoldsListing(d)
             /\ HoldsReservation(d)' = HoldsReservation(d)
             /\ StillReserved(d)' = StillReserved(d)
  BY <1>1, <1>2, <1>3, <1>5, CallFacts
     DEF TypeOK, Where, HoldsListing, HoldsReservation, StillReserved
<1>6. \A d \in Call : (HoldsListing(d) \/ HoldsReservation(d))'
        => d # c /\ stage[d] \in InTransaction
  BY <1>3 DEF HoldsListing, HoldsReservation, InTransaction
<1>7. LocksConsistent'
  BY <1>2, <1>3, <1>5, <1>6 DEF LocksConsistent
<1>8. CallConsistent(c)'
  <2> USE <1>1, <1>2 DEF TypeOK, CallConsistent, Goto, Return, Finish
  <2>1. ASSUME NEW l \in Listing, BeginReserve(c, l) PROVE CallConsistent(c)'
    BY <2>1 DEF BeginReserve
  <2>2. ASSUME NEW r \in Call, BeginSchedule(c, r) PROVE CallConsistent(c)'
    BY <2>2 DEF BeginSchedule
  <2>3. ASSUME NEW r \in Call, NEW o \in Finish, NEW a \in Amount,
               BeginFinish(c, r, o, a)
        PROVE  CallConsistent(c)'
    BY <2>3, AmountAssumption DEF BeginFinish
  <2> QED
    BY <2>1, <2>2, <2>3 DEF Begin
<1>9. ASSUME NEW d \in Call \ {c} PROVE CallConsistent(d)'
  BY <1>2, <1>3 DEF TypeOK, CallConsistent
<1>10. ListingsAgree'
  BY <1>1, <1>2, <1>3 DEF TypeOK, ListingsAgree, ListingAgrees, At
<1>11. AuditComplete'
  <2>1. ASSUME NEW d \in audit
        PROVE  about'[d] = about[d] /\ op'[d] = op[d]
    BY <1>1, <1>3, <2>1 DEF TypeOK
  <2>2. ASSUME NEW r \in Call PROVE ClosedBy(r)' = ClosedBy(r)
    BY <1>2, <2>1 DEF ClosedBy
  <2>3. ASSUME NEW d \in Call, d \in audit, NEW r
        PROVE  (about'[d] = r /\ op'[d] = "schedule")
                 <=> (about[d] = r /\ op[d] = "schedule")
    BY <2>1, <2>3
  <2>4. ASSUME NEW r \in Call, NEW d \in ClosedBy(r) PROVE op'[d] = op[d]
    BY <2>1, <2>4 DEF ClosedBy
  <2>5. ASSUME NEW r \in Call
        PROVE  (\E d \in audit' : about'[d] = r /\ op'[d] = "schedule")
                 <=> (\E d \in audit : about[d] = r /\ op[d] = "schedule")
    BY <1>2, <2>1
  <2> QED
    BY <1>2, <2>2, <2>4, <2>5 DEF AuditComplete
<1>12. BackstopsUnused'
  BY <1>3 DEF TypeOK, BackstopsUnused, Begin, BeginReserve, BeginFinish,
              BeginSchedule, Goto, Return
<1> QED
  BY <1>4, <1>7, <1>8, <1>9, <1>10, <1>11, <1>12

(* The listing is locked in the status that was asked for. *)
LEMMA LockListingInv == ASSUME Inv, NEW c \in Call, LockListing(c) PROVE Inv'
<1>1. CASE ~(listing[Where(c)] \in From(op[c]))
  BY <1>1, QuietInv DEF LockListing, InTransaction
<1>2. CASE listing[Where(c)] \in From(op[c])
  <2> USE CallFacts DEF Inv, LockListing, Goto, rows, call, InTransaction
  <2> DEFINE next == IF op[c] = "reserve" THEN "insert" ELSE "findReservation"
  <2>1. Goto(c, next)
    BY <1>2
  <2>2. op[c] \in Finish \cup {"reserve"}
    BY DEF CallConsistent
  <2>3. TypeOK'
    BY <2>1 DEF TypeOK
  <2>4. LocksConsistent'
    BY <1>2, <2>1, <2>2
       DEF TypeOK, LocksConsistent, HoldsListing, HoldsReservation, Where,
           StillReserved, ListingFree
  <2>5. ASSUME NEW d \in Call PROVE CallConsistent(d)'
    BY <2>1, <2>2 DEF TypeOK, CallConsistent, Finish
  <2>6. ListingsAgree' /\ AuditComplete'
    BY DEF ListingsAgree, ListingAgrees, At, AuditComplete, ClosedBy
  <2>7. BackstopsUnused'
    BY <2>1 DEF TypeOK, BackstopsUnused
  <2> QED
    BY <2>3, <2>4, <2>5, <2>6, <2>7
<1> QED
  BY <1>1, <1>2

(* The reservation is locked while it is RESERVED. *)
LEMMA LockReservationInv ==
  ASSUME Inv, NEW c \in Call, LockReservation(c) PROVE Inv'
<1>1. CASE ~StillReserved(c)
  BY <1>1, QuietInv DEF LockReservation, InTransaction
<1>2. CASE StillReserved(c)
  <2> USE CallFacts DEF Inv, LockReservation, Goto, rows, call, InTransaction
  <2>1. Goto(c, "commit")
    BY <1>2
  <2>2. op[c] \in Finish \cup {"schedule"}
    BY DEF CallConsistent
  <2>3. TypeOK'
    BY <2>1 DEF TypeOK
  <2>4. LocksConsistent'
    BY <1>2, <2>1, <2>2
       DEF TypeOK, LocksConsistent, HoldsListing, HoldsReservation, Where,
           StillReserved, ReservationFree
  <2>5. ASSUME NEW d \in Call PROVE CallConsistent(d)'
    BY <2>1, <2>2 DEF TypeOK, CallConsistent, Finish
  <2>6. ListingsAgree' /\ AuditComplete'
    BY DEF ListingsAgree, ListingAgrees, At, AuditComplete, ClosedBy
  <2>7. BackstopsUnused'
    BY <2>1 DEF TypeOK, BackstopsUnused
  <2> QED
    BY <2>3, <2>4, <2>5, <2>6, <2>7
<1> QED
  BY <1>1, <1>2

(* The commits.  What a call finds in the rows it has locked, and that no  *)
(* other call has them locked.                                             *)
LEMMA ReserveFacts ==
  ASSUME Inv, NEW c \in Call, stage[c] = "insert"
  PROVE  /\ op[c] = "reserve" /\ about[c] = c /\ Where(c) = place[c]
         /\ place[c] \in Listing /\ listing[place[c]] = "AVAILABLE"
         /\ At(place[c], "RESERVED") = {} /\ At(place[c], "COMPLETED") = {}
         /\ Active(place[c]) = {}
         /\ reservation[c] = "NONE" /\ c \notin audit
         /\ \A d \in Call \ {c} : HoldsListing(d) => Where(d) # place[c]
<1>1. op[c] = "reserve"
  BY DEF Inv, CallConsistent
<1>2. about[c] = c /\ place[c] \in Listing /\ Where(c) = place[c]
      /\ reservation[c] = "NONE" /\ c \notin audit
  BY <1>1, CallFacts DEF Where, InTransaction
<1>3. HoldsListing(c)
  BY <1>1 DEF HoldsListing
<1>4. listing[place[c]] = "AVAILABLE"
  BY <1>1, <1>2, <1>3 DEF Inv, LocksConsistent, From
<1>5. At(place[c], "RESERVED") = {} /\ At(place[c], "COMPLETED") = {}
  BY <1>2, <1>4 DEF Inv, ListingsAgree, ListingAgrees
<1>6. \A d \in Call \ {c} : HoldsListing(d) => Where(d) # place[c]
  BY <1>2, <1>3 DEF Inv, LocksConsistent
<1> QED
  BY <1>1, <1>2, <1>4, <1>5, <1>6 DEF Active, At

(* A finish at its commit holds the one active reservation of its listing. *)
LEMMA FinishFacts ==
  ASSUME Inv, NEW c \in Call, stage[c] = "commit", op[c] \in Finish
  PROVE  /\ about[c] \in Call /\ reservation[about[c]] = "RESERVED"
         /\ Where(c) \in Listing /\ listing[Where(c)] = "RESERVED"
         /\ At(Where(c), "RESERVED") = {about[c]}
         /\ At(Where(c), "COMPLETED") = {} /\ award[Where(c)] = None
         /\ ClosedBy(about[c]) = {}
         /\ c \notin audit
         /\ \A d \in Call \ {c} :
              /\ HoldsListing(d) => Where(d) # Where(c)
              /\ HoldsReservation(d) => about[d] # about[c]
<1>1. about[c] \in Call /\ Where(c) \in Listing /\ c \notin audit
  BY CallFacts DEF InTransaction
<1>2. HoldsListing(c) /\ HoldsReservation(c)
  BY DEF HoldsListing, HoldsReservation, Finish
<1>3. reservation[about[c]] = "RESERVED"
  BY <1>2 DEF Inv, LocksConsistent, StillReserved
<1>4. listing[Where(c)] = "RESERVED"
  BY <1>2 DEF Inv, LocksConsistent, From, Finish
<1>5. At(Where(c), "RESERVED") = {about[c]}
  <2>1. about[c] \in At(Where(c), "RESERVED")
    BY <1>1, <1>3 DEF At, Where
  <2> QED
    BY <1>1, <2>1 DEF Inv, ListingsAgree, ListingAgrees
<1>6. At(Where(c), "COMPLETED") = {} /\ award[Where(c)] = None
  BY <1>1, <1>4 DEF Inv, ListingsAgree, ListingAgrees
<1>7. ClosedBy(about[c]) = {}
  BY <1>1, <1>3 DEF Inv, AuditComplete, ClosedBy, Finish
<1>8. \A d \in Call \ {c} :
        /\ HoldsListing(d) => Where(d) # Where(c)
        /\ HoldsReservation(d) => about[d] # about[c]
  BY <1>2 DEF Inv, LocksConsistent
<1> QED
  BY <1>1, <1>3, <1>4, <1>5, <1>6, <1>7, <1>8

(* The listing gets its reservation. *)
LEMMA ReserveInv == ASSUME Inv, NEW c \in Call, Reserve(c) PROVE Inv'
<1> USE ReserveFacts DEF Inv, Reserve, call
<1>1. /\ listing' = [listing EXCEPT ![place[c]] = "RESERVED"]
      /\ reservation' = [reservation EXCEPT ![c] = "RESERVED"]
      /\ stage' = [stage EXCEPT ![c] = "audit"]
      /\ outcome' = [outcome EXCEPT ![c] = "ok"]
  OBVIOUS
<1>2. TypeOK'
  BY <1>1 DEF TypeOK, ReservationStatus
<1>3. LocksConsistent'
  BY <1>1 DEF TypeOK, LocksConsistent, HoldsListing, HoldsReservation, Where,
              StillReserved
<1>4. ASSUME NEW d \in Call PROVE CallConsistent(d)'
  BY <1>1 DEF TypeOK, CallConsistent, Finish
<1>5. ListingsAgree'
  BY <1>1, <1>4 DEF TypeOK, ListingsAgree, ListingAgrees, At, CallConsistent
<1>6. AuditComplete'
  BY <1>1 DEF TypeOK, AuditComplete, ClosedBy, Finish
<1>7. BackstopsUnused'
  BY <1>1 DEF TypeOK, BackstopsUnused
<1> QED
  BY <1>2, <1>3, <1>4, <1>5, <1>6, <1>7

(* A settlement is worth at least one point and at most one per 1,000 VND. *)
LEMMA PointsFacts ==
  ASSUME NEW v \in Nat \ {0}
  PROVE  Points(v) \in 1 .. v /\ Shop!Earns(Points(v), v)
<1> DEFINE p == v \div 1000
<1>1. p \in Nat /\ 1000 * p <= v /\ v < 1000 * (p + 1)
  OBVIOUS
<1>2. Points(v) = IF p < 1 THEN 1 ELSE p
  BY DEF Points
<1> HIDE DEF p
<1> QED
  BY <1>1, <1>2 DEF Shop!Earns

(* A complete call carries an amount, and it is worth points. *)
LEMMA AmountFacts ==
  ASSUME Inv, NEW c \in Call, op[c] = "complete"
  PROVE  /\ amount[c] \in Amount /\ amount[c] # None
         /\ Points(amount[c]) \in Nat /\ Points(amount[c]) # None
<1>1. amount[c] \in Amount /\ amount[c] # None
  BY DEF Inv, TypeOK, CallConsistent
<1>2. amount[c] \in Nat \ {0}
  BY <1>1, AmountAssumption
<1>3. Points(amount[c]) \in Nat
  BY <1>2, PointsFacts
<1> QED
  BY <1>1, <1>3, NoneAssumption

(* The listing and the reservation are closed together, with the award. *)
LEMMA CompleteInv == ASSUME Inv, NEW c \in Call, Complete(c) PROVE Inv'
<1> USE FinishFacts, CallFacts, NoneAssumption
    DEF Inv, Complete, Return, call, Finish, InTransaction
<1>1. /\ listing' = [listing EXCEPT ![Where(c)] = "COMPLETED"]
      /\ reservation' = [reservation EXCEPT ![about[c]] = "COMPLETED"]
      /\ settled' = [settled EXCEPT ![about[c]] = amount[c]]
      /\ award' = [award EXCEPT ![Where(c)] = Points(amount[c])]
      /\ audit' = audit \cup {c}
      /\ stage' = [stage EXCEPT ![c] = "done"]
      /\ outcome' = [outcome EXCEPT ![c] = "ok"]
  OBVIOUS
<1>2. /\ amount[c] \in Amount /\ amount[c] # None
      /\ Points(amount[c]) \in Nat /\ Points(amount[c]) # None
  BY AmountFacts
<1>3. TypeOK'
  BY <1>1, <1>2 DEF TypeOK, ReservationStatus
<1>4. LocksConsistent'
  BY <1>1 DEF TypeOK, LocksConsistent, HoldsListing, HoldsReservation, Where,
              StillReserved
<1>5. ASSUME NEW d \in Call PROVE CallConsistent(d)'
  BY <1>1 DEF TypeOK, CallConsistent
<1>6. ListingsAgree'
  <2>1. ASSUME NEW l \in Listing, l # Where(c), NEW s \in {"RESERVED", "COMPLETED"}
        PROVE  At(l, s)' = At(l, s)
    BY <1>1, <2>1 DEF TypeOK, At, Where
  <2>2. ASSUME NEW l \in Listing, l = Where(c)
        PROVE  At(l, "RESERVED")' = {} /\ At(l, "COMPLETED")' = {about[c]}
    BY <1>1, <2>2 DEF TypeOK, At, Where
  <2>3. ASSUME NEW l \in Listing, l # Where(c), NEW r \in At(l, "COMPLETED")
        PROVE  settled'[r] = settled[r]
    BY <1>1, <2>3 DEF TypeOK, At, Where
  <2>4. /\ listing'[Where(c)] = "COMPLETED" /\ award'[Where(c)] = Points(amount[c])
        /\ settled'[about[c]] = amount[c] /\ award'[Where(c)] # None
        /\ amount[c] # None
    BY <1>1, <1>2 DEF TypeOK
  <2>5. ASSUME NEW l \in Listing, l # Where(c)
        PROVE  listing'[l] = listing[l] /\ award'[l] = award[l]
    BY <1>1, <2>5 DEF TypeOK
  <2>6. ASSUME NEW l \in Listing, l # Where(c)
        PROVE  ListingAgrees(l)'
    BY <2>1, <2>3, <2>5, <2>6 DEF ListingsAgree, ListingAgrees
  <2>7. ASSUME NEW l \in Listing, l = Where(c) PROVE ListingAgrees(l)'
    <3>1. At(l, "RESERVED")' = {} /\ At(l, "COMPLETED")' = {about[c]}
      BY <2>2, <2>7
    <3>2. /\ listing'[l] = "COMPLETED" /\ award'[l] # None
          /\ settled'[about[c]] # None /\ award'[l] = Points(settled'[about[c]])
      BY <2>4, <2>7
    <3> HIDE DEF Inv, Complete, Return, Finish, InTransaction
    <3> QED
      BY <3>1, <3>2 DEF ListingAgrees
  <2> QED
    BY <2>6, <2>7 DEF ListingsAgree
<1>7. AuditComplete'
  <2>1. ClosedBy(about[c])' = {c}
    BY <1>1 DEF ClosedBy
  <2>2. ASSUME NEW r \in Call, r # about[c] PROVE ClosedBy(r)' = ClosedBy(r)
    BY <1>1, <2>2 DEF ClosedBy
  <2> QED
    BY <1>1, <2>1, <2>2 DEF TypeOK, AuditComplete
<1>8. BackstopsUnused'
  BY <1>1 DEF TypeOK, BackstopsUnused
<1> QED
  BY <1>3, <1>4, <1>5, <1>6, <1>7, <1>8

(* The reservation is closed and the listing is on the market again. *)
LEMMA CancelInv == ASSUME Inv, NEW c \in Call, Cancel(c) PROVE Inv'
<1> USE FinishFacts, CallFacts, NoneAssumption
    DEF Inv, Cancel, Return, call, Finish, InTransaction
<1>1. TypeOK'
  BY DEF TypeOK, ReservationStatus
<1>2. LocksConsistent'
  BY DEF TypeOK, LocksConsistent, HoldsListing, HoldsReservation, Where,
         StillReserved
<1>3. ASSUME NEW d \in Call PROVE CallConsistent(d)'
  BY DEF TypeOK, CallConsistent
<1>4. ListingsAgree'
  <2>1. ASSUME NEW l \in Listing, l # Where(c), NEW s \in {"RESERVED", "COMPLETED"}
        PROVE  At(l, s)' = At(l, s)
    BY <2>1 DEF TypeOK, At, Where
  <2>2. At(Where(c), "RESERVED")' = {} /\ At(Where(c), "COMPLETED")' = {}
    BY DEF TypeOK, At, Where
  <2> QED
    BY <2>1, <2>2 DEF TypeOK, ListingsAgree, ListingAgrees, Where
<1>5. AuditComplete'
  <2>1. ClosedBy(about[c])' = {c}
    BY DEF ClosedBy
  <2>2. ASSUME NEW r \in Call, r # about[c] PROVE ClosedBy(r)' = ClosedBy(r)
    BY <2>2 DEF ClosedBy
  <2> QED
    BY <2>1, <2>2 DEF TypeOK, AuditComplete
<1>6. BackstopsUnused'
  BY DEF TypeOK, BackstopsUnused
<1> QED
  BY <1>1, <1>2, <1>3, <1>4, <1>5, <1>6

(* A schedule touches neither status. *)
LEMMA ScheduleInv == ASSUME Inv, NEW c \in Call, Schedule(c) PROVE Inv'
<1> USE CallFacts, NoneAssumption
    DEF Inv, Schedule, Return, call, Finish, InTransaction
<1>1. TypeOK'
  BY DEF TypeOK
<1>2. LocksConsistent'
  BY DEF TypeOK, LocksConsistent, HoldsListing, HoldsReservation, Where,
         StillReserved
<1>3. ASSUME NEW d \in Call PROVE CallConsistent(d)'
  BY DEF TypeOK, CallConsistent
<1>4. ListingsAgree'
  BY DEF TypeOK, ListingsAgree, ListingAgrees, At
<1>5. AuditComplete'
  <2>1. ASSUME NEW r \in Call PROVE ClosedBy(r)' = ClosedBy(r)
    BY DEF ClosedBy
  <2> QED
    BY <2>1 DEF TypeOK, AuditComplete
<1>6. BackstopsUnused'
  BY DEF TypeOK, BackstopsUnused
<1> QED
  BY <1>1, <1>2, <1>3, <1>4, <1>5, <1>6

(* reserve's audit entry is in no one's story but its own. *)
LEMMA AuditInv == ASSUME Inv, NEW c \in Call, Audit(c) PROVE Inv'
<1> USE DEF Inv, Audit, rows, call
<1>1. op[c] = "reserve" /\ outcome[c] = "ok"
  BY DEF CallConsistent
<1>2. TypeOK'
  BY DEF TypeOK
<1>3. LocksConsistent'
  BY DEF TypeOK, LocksConsistent, HoldsListing, HoldsReservation, Where,
         StillReserved, Finish
<1>4. ASSUME NEW d \in Call PROVE CallConsistent(d)'
  BY <1>1 DEF TypeOK, CallConsistent
<1>5. ListingsAgree' /\ BackstopsUnused'
  BY DEF ListingsAgree, ListingAgrees, At, BackstopsUnused
<1>6. AuditComplete'
  <2>1. ASSUME NEW r \in Call PROVE ClosedBy(r)' = ClosedBy(r)
    BY <1>1 DEF ClosedBy, Finish
  <2> QED
    BY <1>1, <2>1 DEF TypeOK, AuditComplete
<1> QED
  BY <1>2, <1>3, <1>4, <1>5, <1>6

(* Every step preserves the invariant. *)
LEMMA NextInv == Inv /\ [Next]_vars => Inv'
<1> SUFFICES ASSUME Inv, [Next]_vars PROVE Inv'
  OBVIOUS
<1>1. ASSUME NEW c \in Call, Step(c) PROVE Inv'
  <2>1. CASE FindListing(c)
    BY <2>1, QuietInv DEF FindListing, InTransaction
  <2>2. CASE FindReservation(c)
    BY <2>2, QuietInv DEF FindReservation, InTransaction
  <2> QED
    BY <1>1, <2>1, <2>2, LockListingInv, LockReservationInv, ReserveInv, AuditInv,
       CompleteInv, CancelInv, ScheduleInv DEF Step
<1>2. ASSUME NEW c \in Call, Fail(c) PROVE Inv'
  BY <1>2, QuietInv DEF Fail
<1>3. CASE UNCHANGED vars
  <2> USE <1>3 DEF Inv, vars, rows, call
  <2>1. TypeOK' /\ LocksConsistent' /\ ListingsAgree'
    BY DEF TypeOK, LocksConsistent, HoldsListing, HoldsReservation, Where,
           StillReserved, ListingsAgree, ListingAgrees, At
  <2>2. BackstopsUnused' /\ AuditComplete' /\ \A c \in Call : CallConsistent(c)'
    BY DEF BackstopsUnused, AuditComplete, ClosedBy, CallConsistent
  <2> QED
    BY <2>1, <2>2
<1> QED
  BY <1>1, <1>2, <1>3, ListInv, BeginInv DEF Next, AllDone

(* The inductive invariant holds throughout. *)
THEOREM Invariance == Spec => []Inv
<1> QED
  BY InitInv, NextInv, PTL DEF Spec

(* Every variable keeps its type. *)
THEOREM TypeCorrect == Spec => []TypeOK
<1>1. Inv => TypeOK
  BY DEF Inv
<1> QED
  BY <1>1, Invariance, PTL

(* reserve, complete and cancel keep a listing, its reservations and its   *)
(* point entry in agreement.                                               *)
THEOREM ListingsDoAgree == Spec => []ListingsAgree
<1>1. Inv => ListingsAgree
  BY DEF Inv
<1> QED
  BY <1>1, Invariance, PTL

(* The conditional updates alone keep reservations and awards unique: the  *)
(* unique indexes behind reserve and awardListingCompleted never fire.     *)
THEOREM BackstopsAreUnused == Spec => []BackstopsUnused
<1>1. Inv => BackstopsUnused
  BY DEF Inv
<1> QED
  BY <1>1, Invariance, PTL

(* The entries that complete, cancel and schedule write are exactly what   *)
(* they did.                                                               *)
THEOREM AuditIsComplete == Spec => []AuditComplete
<1>1. Inv => AuditComplete
  BY DEF Inv
<1> QED
  BY <1>1, Invariance, PTL
-----------------------------------------------------------------------------
(* Action properties.  Only Complete and Cancel take a listing out of      *)
(* RESERVED, and only Schedule writes a schedule.                          *)

(* adminSchedule never writes to a closed reservation.                     *)
THEOREM ScheduleIsFrozen == Spec => ScheduleFrozen
<1> DEFINE A == \A r \in Call : planned'[r] # planned[r] =>
                  reservation[r] = "RESERVED" /\ reservation'[r] = "RESERVED"
<1>1. Inv /\ [Next]_vars => [A]_vars
  <2> SUFFICES ASSUME Inv, Next PROVE A \/ UNCHANGED vars
    OBVIOUS
  <2>1. ASSUME NEW c \in Call, Schedule(c) PROVE A
    <3>1. reservation[about[c]] = "RESERVED"
      BY <2>1 DEF Schedule, Inv, LocksConsistent, HoldsReservation, StillReserved
    <3> QED
      BY <2>1, <3>1 DEF Schedule, Inv, TypeOK
  <2>2. ASSUME NEW c \in Call, Step(c), ~Schedule(c) PROVE A
    BY <2>2 DEF Step, FindListing, LockListing, FindReservation, LockReservation,
                Reserve, Audit, Complete, Cancel, rows
  <2>3. ASSUME NEW c \in Call, Begin(c) \/ Fail(c) PROVE A
    BY <2>3 DEF Begin, BeginReserve, BeginSchedule, BeginFinish, Fail, rows
  <2>4. ASSUME NEW l \in Listing, List(l) PROVE A
    BY <2>4 DEF List
  <2> QED
    BY <2>1, <2>2, <2>3, <2>4 DEF Next, AllDone
<1> QED
  BY <1>1, Invariance, PTL DEF Spec, ScheduleFrozen

(* An old reservation never moves a listing that was booked again.         *)
THEOREM OnlyTheHolderMovesIt == Spec => OnlyTheHolderMoves
<1> DEFINE A == \A l \in Listing : listing[l] = "RESERVED" /\ listing'[l] # "RESERVED" =>
                  \E r \in Active(l), c \in audit' \ audit :
                    /\ about[c] = r /\ reservation'[r] # "RESERVED"
                    /\ op[c] = "complete" => settled'[r] = amount[c]
<1>1. Inv /\ [Next]_vars => [A]_vars
  <2> SUFFICES ASSUME Inv, Next PROVE A \/ UNCHANGED vars
    OBVIOUS
  <2>1. ASSUME NEW c \in Call, Complete(c) \/ Cancel(c) PROVE A
    <3>1. op[c] \in Finish /\ stage[c] = "commit"
      BY <2>1 DEF Complete, Cancel, Finish
    <3>2. /\ about[c] \in Active(Where(c)) /\ about[c] \in Call
          /\ award[Where(c)] = None /\ c \notin audit
      BY <3>1, FinishFacts DEF Active, Where
    <3>3. /\ c \in audit' \ audit /\ reservation'[about[c]] # "RESERVED"
          /\ op[c] = "complete" => settled'[about[c]] = amount[c]
      BY <2>1, <3>2 DEF Complete, Cancel, Inv, TypeOK
    <3>4. \A l \in Listing : listing'[l] # listing[l] => l = Where(c)
      BY <2>1, <3>2 DEF Complete, Cancel, Inv, TypeOK
    <3> QED
      BY <3>2, <3>3, <3>4
  <2>2. ASSUME NEW c \in Call, Step(c), ~Complete(c), ~Cancel(c) PROVE A
    <3>1. CASE Reserve(c)
      BY <3>1 DEF Reserve, Inv, TypeOK
    <3> QED
      BY <2>2, <3>1 DEF Step, FindListing, LockListing, FindReservation,
                        LockReservation, Audit, Schedule, rows
  <2>3. ASSUME NEW c \in Call, Begin(c) \/ Fail(c) PROVE A
    BY <2>3 DEF Begin, BeginReserve, BeginSchedule, BeginFinish, Fail, rows
  <2>4. ASSUME NEW l \in Listing, List(l) PROVE A
    BY <2>4 DEF List, Inv, TypeOK
  <2> QED
    BY <2>1, <2>2, <2>3, <2>4 DEF Next, AllDone
<1> QED
  BY <1>1, Invariance, PTL DEF Spec, OnlyTheHolderMoves
-----------------------------------------------------------------------------
(* Refinement: List, Reserve, Complete and Cancel are the steps of the     *)
(* market; every other step leaves it alone.                               *)

Made == {r \in Call : reservation[r] # "NONE"}
Holders == [l \in Listing |-> HolderOf(l)]

(* The holder of a listing depends only on its open and settled reservations. *)
LEMMA SameHolder ==
  ASSUME NEW l \in Listing, HeldAt(l)' = HeldAt(l)
  PROVE  HolderOf(l)' = HolderOf(l)
BY DEF HolderOf

(* A step that changes no row leaves the market alone. *)
LEMMA MarketStutters ==
  ASSUME UNCHANGED <<listing, reservation, award, place>>
  PROVE  UNCHANGED Shop!vars
<1>1. ASSUME NEW l \in Listing PROVE HolderOf(l)' = HolderOf(l)
  <2>1. HeldAt(l)' = HeldAt(l)
    BY DEF HeldAt, At
  <2> QED
    BY <2>1, SameHolder
<1> QED
  BY <1>1 DEF Shop!vars

(* A call gets its listing while it has made no reservation. *)
LEMMA BeginStutters == ASSUME Inv, NEW c \in Call, Begin(c) PROVE UNCHANGED Shop!vars
<1>1. /\ reservation[c] = "NONE" /\ UNCHANGED rows
      /\ \A d \in Call : d # c => place'[d] = place[d]
  BY DEF Begin, BeginReserve, BeginFinish, BeginSchedule, Inv, TypeOK, CallConsistent
<1>2. ASSUME NEW l \in Listing PROVE HolderOf(l)' = HolderOf(l)
  <2>1. HeldAt(l)' = HeldAt(l)
    BY <1>1 DEF HeldAt, At, rows
  <2> QED
    BY <2>1, SameHolder
<1> QED
  BY <1>1, <1>2 DEF Shop!vars, rows

(* In the next state only the holder of listing l has changed, to r. *)
LEMMA HolderChange ==
  ASSUME UNCHANGED place, NEW l \in Listing, NEW r,
         \A s \in Call : place[s] # l => reservation'[s] = reservation[s],
         IF r = None THEN HeldAt(l)' = {} ELSE HeldAt(l)' = {r}
  PROVE  Holders' = [Holders EXCEPT ![l] = r]
<1>1. HolderOf(l)' = r
  BY DEF HolderOf
<1>2. ASSUME NEW k \in Listing, k # l PROVE HolderOf(k)' = HolderOf(k)
  <2>1. HeldAt(k)' = HeldAt(k)
    BY <1>2 DEF HeldAt, At
  <2> QED
    BY <2>1, SameHolder
<1> QED
  BY <1>1, <1>2 DEF Holders

(* reserve holds the listing. *)
LEMMA ReserveIsMarket ==
  ASSUME Inv, NEW c \in Call, Reserve(c) PROVE Shop!Hold(place[c], c)
<1> USE NoneAssumption
<1>1. stage[c] = "insert"
  BY DEF Reserve
<1>2. /\ listing' = [listing EXCEPT ![place[c]] = "RESERVED"]
      /\ reservation' = [reservation EXCEPT ![c] = "RESERVED"]
      /\ UNCHANGED <<award, place>>
  BY <1>1, ReserveFacts DEF Reserve, call
<1>3. HeldAt(place[c])' = {c}
  BY <1>1, <1>2, ReserveFacts DEF Inv, TypeOK, HeldAt, At
<1>4. Holders' = [Holders EXCEPT ![place[c]] = c]
  <2>1. \A s \in Call : place[s] # place[c] => reservation'[s] = reservation[s]
    BY <1>2 DEF Inv, TypeOK
  <2> QED
    BY <1>1, <1>2, <1>3, <2>1, ReserveFacts, HolderChange
<1>5. Made' = Made \cup {c} /\ c \notin Made
  BY <1>1, <1>2, ReserveFacts DEF Inv, TypeOK, Made
<1> QED
  BY <1>1, <1>2, <1>4, <1>5, ReserveFacts DEF Shop!Hold, Holders, Made

(* cancel releases the listing. *)
LEMMA CancelIsMarket ==
  ASSUME Inv, NEW c \in Call, Cancel(c) PROVE Shop!Release(Where(c))
<1>1. stage[c] = "commit" /\ op[c] \in Finish
  BY DEF Cancel, Finish
<1>2. HeldAt(Where(c)) = {about[c]} /\ about[c] \in Call
  BY <1>1, FinishFacts DEF HeldAt
<1>3. /\ listing' = [listing EXCEPT ![Where(c)] = "AVAILABLE"]
      /\ reservation' = [reservation EXCEPT ![about[c]] = "CANCELLED"]
      /\ UNCHANGED <<award, place>>
  BY DEF Cancel, call
<1>4. Holders' = [Holders EXCEPT ![Where(c)] = None]
  <2> DEFINE l == Where(c)
  <2>1. ASSUME NEW k \in Listing, k = l PROVE HeldAt(k)' = {}
    BY <1>2, <1>3, <2>1 DEF Inv, TypeOK, HeldAt, At
  <2>2. \A s \in Call : place[s] # l => reservation'[s] = reservation[s]
    BY <1>2, <1>3 DEF Inv, TypeOK, Where
  <2>3. l \in Listing
    BY <1>1, FinishFacts
  <2>4. \A k \in Listing : k = l => Holders' = [Holders EXCEPT ![k] = None]
    <3> SUFFICES ASSUME NEW k \in Listing, k = l
                 PROVE  Holders' = [Holders EXCEPT ![k] = None]
      OBVIOUS
    <3>1. HeldAt(k)' = {}
      BY <2>1
    <3>2. \A s \in Call : place[s] # k => reservation'[s] = reservation[s]
      BY <2>2
    <3> QED
      BY <1>3, <3>1, <3>2, HolderChange
  <2> QED
    BY <2>3, <2>4
<1>5. Made' = Made
  BY <1>1, <1>3, FinishFacts DEF Inv, TypeOK, Made
<1> QED
  BY <1>1, <1>3, <1>4, <1>5, FinishFacts DEF Shop!Release, Holders, Made

(* complete settles the listing with the holder it has. *)
LEMMA CompleteIsMarket ==
  ASSUME Inv, NEW c \in Call, Complete(c)
  PROVE  Shop!Settle(Where(c), amount[c]) /\ amount[c] \in Amount
<1>1. stage[c] = "commit" /\ op[c] \in Finish /\ op[c] = "complete"
  BY DEF Complete, Finish
<1>2. HeldAt(Where(c)) = {about[c]} /\ about[c] \in Call
  BY <1>1, FinishFacts DEF HeldAt
<1>3. /\ listing' = [listing EXCEPT ![Where(c)] = "COMPLETED"]
      /\ reservation' = [reservation EXCEPT ![about[c]] = "COMPLETED"]
      /\ award' = [award EXCEPT ![Where(c)] = Points(amount[c])]
      /\ UNCHANGED place
  BY <1>1, FinishFacts DEF Complete, call
<1>4. ASSUME NEW l \in Listing PROVE HolderOf(l)' = HolderOf(l)
  <2>1. reservation[about[c]] = "RESERVED"
    BY <1>1, FinishFacts
  <2>2. HeldAt(l)' = HeldAt(l)
    BY <1>2, <1>3, <2>1 DEF Inv, TypeOK, HeldAt, At
  <2> QED
    BY <2>2, SameHolder
<1>5. Made' = Made
  BY <1>1, <1>3, FinishFacts DEF Inv, TypeOK, Made
<1>6. amount[c] \in Amount /\ Points(amount[c]) \in 1 .. amount[c]
      /\ Shop!Earns(Points(amount[c]), amount[c])
  BY <1>1, AmountFacts, AmountAssumption, PointsFacts
<1> QED
  BY <1>1, <1>3, <1>4, <1>5, <1>6, FinishFacts DEF Shop!Settle, Made

(* The transactions of reserve, complete and cancel act like the atomic    *)
(* steps of the market.                                                    *)
THEOREM ReservationsImplementMarket == Spec => ImplementsMarket
<1>1. Init => Shop!Init
  <2> SUFFICES ASSUME Init PROVE Shop!Init
    OBVIOUS
  <2>1. \A l \in Listing : HolderOf(l) = None
    BY DEF Init, HolderOf, HeldAt, At
  <2> QED
    BY <2>1 DEF Init, Shop!Init
<1>2. Inv /\ [Next]_vars => [Shop!Next]_(Shop!vars)
  <2> SUFFICES ASSUME Inv, [Next]_vars PROVE Shop!Next \/ UNCHANGED Shop!vars
    OBVIOUS
  <2>1. ASSUME NEW l \in Listing, List(l) PROVE Shop!List(l)
    <3>1. ASSUME NEW k \in Listing PROVE HolderOf(k)' = HolderOf(k)
      <4>1. HeldAt(k)' = HeldAt(k)
        BY <2>1 DEF List, HeldAt, At, call
      <4> QED
        BY <4>1, SameHolder
    <3> QED
      BY <2>1, <3>1 DEF List, Shop!List
  <2>2. ASSUME NEW c \in Call, Step(c) PROVE Shop!Next \/ UNCHANGED Shop!vars
    <3>1. CASE Reserve(c)
      BY <3>1, ReserveIsMarket, ReserveFacts DEF Shop!Next, Reserve
    <3>2. CASE Complete(c)
      BY <3>2, CompleteIsMarket, FinishFacts DEF Shop!Next, Complete, Finish
    <3>3. CASE Cancel(c)
      BY <3>3, CancelIsMarket, FinishFacts DEF Shop!Next, Cancel, Finish
    <3>4. CASE ~(Reserve(c) \/ Complete(c) \/ Cancel(c))
      BY <2>2, <3>4, MarketStutters
         DEF Step, FindListing, LockListing, FindReservation, LockReservation,
             Audit, Schedule, rows, call
    <3> QED
      BY <3>1, <3>2, <3>3, <3>4
  <2>3. ASSUME NEW c \in Call, Fail(c) PROVE UNCHANGED Shop!vars
    BY <2>3, MarketStutters DEF Fail, rows, call
  <2>4. CASE UNCHANGED vars
    BY <2>4, MarketStutters DEF vars, rows, call
  <2> QED
    BY <2>1, <2>2, <2>3, <2>4, BeginStutters DEF Next, Shop!Next, AllDone
<1> QED
  BY <1>1, <1>2, Invariance, PTL DEF Spec, ImplementsMarket, Shop!Spec
-----------------------------------------------------------------------------
(* The pages.  Every step of a page is a step of the server, or none.       *)
LEMMA PagesStep == [PagesNext]_all => [Next]_vars
<1> SUFFICES ASSUME [PagesNext]_all PROVE Next \/ UNCHANGED vars
  OBVIOUS
<1>1. ASSUME NEW l \in Listing, NEW c \in Call, OnReserve(l, c) PROVE Next
  BY <1>1 DEF OnReserve, Next, Begin
<1>2. ASSUME NEW r \in Call, NEW c \in Call, OnAction(r, c) PROVE Next
  BY <1>2 DEF OnAction, Next, Begin
<1>3. CASE Buyer
  BY <1>1, <1>3 DEF Buyer, OpenMarket, ListingsLoaded, LoadMore, MoreLoaded, SubscriptionLoaded,
         RefreshSubscription, Reserved, Conflicted, NotReserved, OpenAccount, HistoryLoaded,
         ViewOrder, OrderLoaded, RefreshOrder
<1>4. CASE Admin
  BY <1>2, <1>4 DEF Admin, Refresh, QueueLoaded, LoadMoreQueue, MoreQueueLoaded, ActionAnswered
<1> QED
  BY <1>3, <1>4 DEF PagesNext, all

(* Behind the pages the server does what it does without them. *)
THEOREM PagesUseReservations == PagesSpec => Spec
<1>1. PagesInit => Init
  BY DEF PagesInit
<1> QED
  BY <1>1, PagesStep, PTL DEF PagesSpec, Spec

(* So the listings that the pages move implement the market as well. *)
THEOREM PagesImplementMarket == PagesSpec => ImplementsMarket
BY PagesUseReservations, ReservationsImplementMarket

(* Listings that are finite in number have their ages. *)
LEMMA AgeOrders ==
  ASSUME IsFiniteSet(Listing)
  PROVE  /\ \A l \in Listing : Age[l] \in Int
         /\ \A k, l \in Listing : Age[k] = Age[l] => k = l
<1> DEFINE n == Cardinality(Listing)
<1>1. PICK f : f \in Bijection(1 .. n, Listing)
  BY FS_CardinalityType DEF ExistsBijection
<1>2. PICK g : g \in Bijection(Listing, 1 .. n)
  BY <1>1, Fun_BijInverse
<1>3. g \in [Listing -> 1 .. n] /\ \A k, l \in Listing : g[k] = g[l] => k = l
  <2> HIDE DEF n
  <2> QED
    BY <1>2, Fun_BijectionProperties
<1>4. Age \in [Listing -> 1 .. n] /\ \A k, l \in Listing : Age[k] = Age[l] => k = l
  BY <1>3 DEF Age
<1>5. n \in Nat
  BY FS_CardinalityType
<1> QED
  <2> HIDE DEF n
  <2> QED
    BY <1>4, <1>5

(* Of finitely many things one has the least number. *)
LEMMA Least ==
  ASSUME NEW S, IsFiniteSet(S), S # {}, NEW g, \A l \in S : g[l] \in Int
  PROVE  \E l \in S : \A k \in S : g[l] <= g[k]
<1> DEFINE below(l) == {k \in S : g[k] < g[l]}
           all_below == {below(l) : l \in S}
<1>1. all_below \subseteq SUBSET S /\ all_below # {}
  OBVIOUS
<1>2. IsWellFoundedOn(StrictSubsetOrdering(S), SUBSET S)
  BY FS_StrictSubsetOrderingWellFounded, FS_FiniteSubsetsOfFinite
<1>3. PICK b \in all_below : \A d \in all_below : ~ (<<d, b>> \in StrictSubsetOrdering(S))
  <2> HIDE DEF all_below
  <2> QED
    BY <1>1, <1>2, WFMin
<1>4. PICK l \in S : b = below(l)
  BY <1>3
<1>5. ASSUME NEW k \in S, ~(g[l] <= g[k]) PROVE FALSE
  <2>1. below(k) \subseteq below(l) /\ below(k) # below(l)
    <3>1. k \in below(l) /\ k \notin below(k)
      BY <1>5
    <3>2. below(k) \subseteq below(l)
      BY <1>5
    <3> QED
      BY <3>1, <3>2
  <2>2. below(k) \in all_below /\ below(k) \in SUBSET S /\ below(l) \in SUBSET S
    OBVIOUS
  <2> HIDE DEF below
  <2>3. <<below(k), below(l)>> \in StrictSubsetOrdering(S)
    BY <2>1, <2>2 DEF StrictSubsetOrdering
  <2> QED
    BY <1>3, <1>4, <2>2, <2>3
<1> QED
  BY <1>5

(* Of some listings one is the oldest, and one the newest. *)
LEMMA Extremes ==
  ASSUME IsFiniteSet(Listing), NEW S \in SUBSET Listing, S # {}
  PROVE  /\ \E l \in S : \A k \in S : Age[k] <= Age[l]
         /\ \E l \in S : \A k \in S : Age[l] <= Age[k]
<1> DEFINE minus == [l \in S |-> 0 - Age[l]]
<1>1. \A l \in S : Age[l] \in Int /\ minus[l] \in Int
  <2>1. ASSUME NEW l \in S PROVE Age[l] \in Int
    BY AgeOrders
  <2>2. ASSUME NEW i \in Int PROVE 0 - i \in Int
    OBVIOUS
  <2>3. ASSUME NEW l \in S PROVE minus[l] \in Int
    <3>1. minus[l] = 0 - Age[l]
      OBVIOUS
    <3> QED
      BY <2>1, <2>2, <3>1
  <2> QED
    BY <2>1, <2>3
<1>2. IsFiniteSet(S)
  BY FS_Subset
<1>3. \E l \in S : \A k \in S : Age[l] <= Age[k]
  BY <1>1, <1>2, Least
<1>4. \E l \in S : \A k \in S : minus[l] <= minus[k]
  <2> HIDE DEF minus
  <2> QED
    BY <1>1, <1>2, Least
<1> QED
  BY <1>1, <1>3, <1>4

(* A page shows some of the listings, and its cursor is a listing. *)
LEMMA PageOfType ==
  ASSUME IsFiniteSet(Listing), PageSize \in Nat \ {0}, NEW listings \in SUBSET Listing, NEW after
  PROVE  PageOf(listings, after)
           \in [is : {"ready"}, rows : SUBSET listings, next : Listing \cup {None}]
<1>0. \A k \in Listing : Age[k] \in Int
  BY AgeOrders
<1> DEFINE rest == {l \in listings : after = None \/ Age[l] > Age[after]}
           older(l) == {k \in rest : Age[k] <= Age[l]}
           first == {l \in rest : Cardinality(older(l)) <= PageSize}
           last == CHOOSE l \in first : \A k \in first : Age[k] <= Age[l]
<1>1. ASSUME rest # {} PROVE first # {}
  <2>1. PICK l \in rest : \A k \in rest : Age[l] <= Age[k]
    <3>1. rest \in SUBSET Listing
      OBVIOUS
    <3> HIDE DEF rest
    <3> QED
      BY <1>1, <3>1, Extremes
  <2>2. older(l) = {l}
    <3>2. l \in older(l)
      BY <1>0
    <3>3. ASSUME NEW k \in older(l) PROVE k = l
      <4>1. k \in Listing /\ l \in Listing /\ Age[k] <= Age[l] /\ Age[l] <= Age[k]
        BY <2>1, <3>3
      <4>2. Age[k] = Age[l]
        BY <1>0, <4>1
      <4> QED
        BY <4>1, <4>2, AgeOrders
    <3> HIDE DEF older
    <3> QED
      BY <3>2, <3>3
  <2>3. Cardinality(older(l)) <= PageSize
    <3> HIDE DEF older
    <3>1. Cardinality(older(l)) = 1
      BY <2>2, FS_Singleton
    <3> QED
      BY <3>1
  <2> QED
    BY <2>3
<1>2. first # rest => last \in Listing
  <2> SUFFICES ASSUME first # rest PROVE last \in Listing
    OBVIOUS
  <2>1. rest # {}
    OBVIOUS
  <2>2. \E l \in first : \A k \in first : Age[k] <= Age[l]
    <3> HIDE DEF first
    <3>1. first # {} /\ first \in SUBSET Listing
      BY <1>1, <2>1 DEF first
    <3> QED
      BY <3>1, Extremes
  <2> QED
    BY <2>2
<1>3. PageOf(listings, after)
        = [is |-> "ready", rows |-> first, next |-> IF first = rest THEN None ELSE last]
  BY DEF PageOf
<1> QED
  <2> HIDE DEF first, last, rest
  <2>1. first \in SUBSET listings
    BY DEF first, rest
  <2> QED
    BY <1>2, <1>3, <2>1

(* A call to reserve stays one, a reservation that was made stays made, and *)
(* one that is closed stays as it was closed.                               *)
LEMMA RowsKept ==
  ASSUME Inv, Inv', MoneyWithCompletion, [Next]_vars
  PROVE  /\ MoneyWithCompletion'
         /\ \A r \in Call : op[r] = "reserve" => op'[r] = "reserve"
         /\ \A r \in Call : reservation[r] # "NONE" => reservation'[r] # "NONE"
         /\ \A r \in Call : reservation[r] \in {"COMPLETED", "CANCELLED"} =>
              reservation'[r] = reservation[r] /\ settled'[r] = settled[r]
<1> USE DEF MoneyWithCompletion
<1>1. ASSUME NEW r \in Call, op[r] = "reserve" PROVE op'[r] = "reserve"
  <2>1. ASSUME NEW c \in Call, Begin(c) PROVE c # r /\ op'[r] = op[r]
    BY <1>1, <2>1 DEF Begin, BeginReserve, BeginFinish, BeginSchedule, Inv, TypeOK, CallConsistent
  <2>2. ASSUME NEW c \in Call, Step(c) \/ Fail(c) PROVE op' = op
    BY <2>2 DEF Step, Fail, FindListing, LockListing, FindReservation, LockReservation, Reserve,
           Audit, Complete, Cancel, Schedule, call
  <2> QED
    BY <1>1, <2>1, <2>2 DEF Next, List, AllDone, vars, call
<1>2. CASE UNCHANGED <<reservation, settled>>
  BY <1>1, <1>2
<1>3. ASSUME NEW c \in Call, Reserve(c) \/ Complete(c) \/ Cancel(c)
      PROVE  /\ MoneyWithCompletion'
             /\ \A r \in Call : reservation[r] # "NONE" => reservation'[r] # "NONE"
             /\ \A r \in Call : reservation[r] \in {"COMPLETED", "CANCELLED"} =>
                  reservation'[r] = reservation[r] /\ settled'[r] = settled[r]
  <2>1. CASE Reserve(c)
    <3>1. reservation[c] = "NONE"
      BY <2>1, CallFacts DEF Reserve, InTransaction
    <3> QED
      BY <2>1, <3>1 DEF Reserve, Return, Inv, TypeOK
  <2>2. CASE Complete(c)
    <3>1. reservation[about[c]] = "RESERVED" /\ about[c] \in Call
      BY <2>2, FinishFacts DEF Complete, Finish
    <3> QED
      BY <2>2, <3>1 DEF Complete, Inv, TypeOK
  <2>3. CASE Cancel(c)
    <3>1. reservation[about[c]] = "RESERVED" /\ about[c] \in Call
      BY <2>3, FinishFacts DEF Cancel, Finish
    <3> QED
      BY <2>3, <3>1 DEF Cancel, Inv, TypeOK
  <2> QED
    BY <1>3, <2>1, <2>2, <2>3
<1>4. ASSUME NEW c \in Call, Step(c), ~(Reserve(c) \/ Complete(c) \/ Cancel(c))
      PROVE  UNCHANGED <<reservation, settled>>
  BY <1>4 DEF Step, FindListing, LockListing, FindReservation, LockReservation, Audit, Schedule, rows
<1>5. ASSUME NEW c \in Call, Begin(c) \/ Fail(c) PROVE UNCHANGED <<reservation, settled>>
  BY <1>5 DEF Begin, BeginReserve, BeginFinish, BeginSchedule, Fail, rows
<1> QED
  BY <1>1, <1>2, <1>3, <1>4, <1>5 DEF Next, List, AllDone, vars, rows

(* What the details say of an order when they are read. *)
LEMMA SummaryFacts ==
  ASSUME Inv, MoneyWithCompletion, NEW r \in Call, reservation[r] # "NONE"
  PROVE  /\ Summary(r) \in [status : ReservationStatus \ {"NONE"}, step : 0 .. 2,
                             received : Amount \cup {None}]
         /\ Summary(r).received # None <=> Summary(r).status = "COMPLETED"
         /\ Summary(r).status = "COMPLETED" => Summary(r).step = 2
         /\ Summary(r).status = reservation[r] /\ Summary(r).received = settled[r]
<1> USE DEF Inv, TypeOK
<1>1. reservation[r] = "COMPLETED" => settled[r] # None
  <2> SUFFICES ASSUME reservation[r] = "COMPLETED" PROVE settled[r] # None
    OBVIOUS
  <2>1. place[r] \in Listing
    BY DEF CallConsistent
  <2>2. r \in At(place[r], "COMPLETED")
    BY DEF At
  <2> QED
    BY <2>1, <2>2 DEF ListingsAgree, ListingAgrees
<1> QED
  BY <1>1 DEF Summary, MoneyWithCompletion

(* The pages start with nothing to show but what they load. *)
LEMMA PagesInitInv == ASSUME MaxLoad \in Nat \ {0}, PagesInit PROVE PagesInv
<1> USE DEF PagesInit
<1>1. Inv
  BY InitInv
<1>2. PagesTypeOK
  BY <1>1 DEF Inv, PagesTypeOK, MarketTypeOK, AccountTypeOK, AdminTypeOK, Unmounted
<1> QED
  BY <1>1, <1>2 DEF PagesInv, MoneyWithCompletion, ListedWasReserved, OrderTruthful, Orders, Queued, Init

(* The steps of the market page. *)
LEMMA MarketStep ==
  ASSUME IsFiniteSet(Listing), MaxLoad \in Nat \ {0}, PageSize \in Nat \ {0}, PagesInv, [PagesNext]_all
  PROVE  MarketTypeOK'
<1> USE DEF PagesInv, PagesTypeOK, MarketTypeOK, Unmounted
<1>1. CASE UNCHANGED marketPage
  BY <1>1 DEF marketPage
<1>2. CASE OpenMarket
  BY <1>2 DEF OpenMarket, LoadListings
<1>3. CASE ListingsLoaded
  <2>1. CASE market' = [is |-> "error"] /\ card' = Unmounted /\ failed' = {}
    BY <1>3, <2>1 DEF ListingsLoaded
  <2>2. CASE LET page == PageOf(Available, None) IN
               /\ market' = page
               /\ card' = [l \in Listing |-> IF l \in page.rows THEN card[l] ELSE None]
               /\ failed' = failed \cap page.rows
    <3>1. market' \in [is : {"ready"}, rows : SUBSET Listing, next : Listing \cup {None}]
      <4>1. Available \in SUBSET Listing
        BY DEF Available
      <4> QED
        BY <2>2, <4>1, PageOfType
    <3>2. card' \in [Listing -> Call \cup {None}] /\ failed' \subseteq {l \in Listing : card'[l] # None}
      BY <2>2
    <3> QED
      BY <1>3, <3>1, <3>2 DEF ListingsLoaded
  <2> QED
    BY <1>3, <2>1, <2>2 DEF ListingsLoaded
<1>4. CASE LoadMore
  BY <1>4 DEF LoadMore, MoreButton
<1>5. CASE MoreLoaded
  <2>1. ASSUME market.is = "ready", market.next = marketMore,
               market' = [PageOf(Available, marketMore) EXCEPT !.rows = @ \cup market.rows]
        PROVE  market' \in [is : {"ready"}, rows : SUBSET Listing, next : Listing \cup {None}]
    <3>1. Available \in SUBSET Listing
      BY DEF Available
    <3>2. PageOf(Available, marketMore)
            \in [is : {"ready"}, rows : SUBSET Available, next : Listing \cup {None}]
      BY <3>1, PageOfType
    <3> QED
      BY <2>1, <3>1, <3>2
  <2> QED
    BY <1>5, <2>1 DEF MoreLoaded
<1>6. CASE SubscriptionLoaded \/ RefreshSubscription
  BY <1>6 DEF SubscriptionLoaded, RefreshSubscription
<1>7. ASSUME NEW l \in Listing, NEW c \in Call, OnReserve(l, c) PROVE MarketTypeOK'
  <2>1. card' \in [Listing -> Call \cup {None}] /\ failed' \subseteq {k \in Listing : card'[k] # None}
    BY <1>7 DEF OnReserve
  <2> QED
    BY <1>7, <2>1 DEF OnReserve
<1>8. ASSUME NEW c \in Call, Reserved(c) PROVE MarketTypeOK'
  BY <1>8 DEF Reserved, GoToAccount
<1>9. ASSUME NEW c \in Call, Conflicted(c) PROVE MarketTypeOK'
  BY <1>9 DEF Conflicted, LoadListings
<1>10. ASSUME NEW c \in Call, NotReserved(c) PROVE MarketTypeOK'
  BY <1>10, NoneAssumption DEF NotReserved
<1>11. CASE OpenAccount
  BY <1>11 DEF OpenAccount, GoToAccount
<1>12. CASE Buyer
  BY <1>1, <1>2, <1>3, <1>4, <1>5, <1>6, <1>7, <1>8, <1>9, <1>10, <1>11, <1>12
     DEF Buyer, HistoryLoaded, ViewOrder, OrderLoaded, RefreshOrder
<1>13. CASE Admin
  BY <1>1, <1>13 DEF Admin, Refresh, QueueLoaded, LoadMoreQueue, MoreQueueLoaded, OnAction, ActionAnswered
<1> QED
  BY <1>1, <1>12, <1>13 DEF PagesNext, all

(* The calls of this buyer are calls to reserve. *)
LEMMA MineStep ==
  ASSUME Inv', PagesInv, [PagesNext]_all
  PROVE  mine \subseteq mine' /\ \A c \in mine' : op'[c] = "reserve"
<1> USE DEF PagesInv, PagesTypeOK, MarketTypeOK, ListedWasReserved
<1>1. \A c \in mine : op'[c] = "reserve"
  BY PagesStep, RowsKept
<1>2. ASSUME NEW l \in Listing, NEW c \in Call, OnReserve(l, c)
      PROVE  mine' = mine \cup {c} /\ op'[c] = "reserve"
  BY <1>2 DEF OnReserve, BeginReserve, Inv, TypeOK
<1>3. CASE Buyer
  BY <1>1, <1>2, <1>3
     DEF Buyer, OpenMarket, ListingsLoaded, LoadMore, MoreLoaded, SubscriptionLoaded,
         RefreshSubscription, Reserved, Conflicted, NotReserved, OpenAccount, HistoryLoaded,
         ViewOrder, OrderLoaded, RefreshOrder, marketPage
<1>4. CASE Admin
  BY <1>1, <1>4
     DEF Admin, Refresh, QueueLoaded, LoadMoreQueue, MoreQueueLoaded, OnAction, ActionAnswered, marketPage
<1> QED
  BY <1>1, <1>3, <1>4 DEF PagesNext, all, marketPage

(* What the account page says of this buyer's orders. *)
AccountInv ==
  /\ AccountTypeOK
  /\ \A r \in Orders : reservation[r] # "NONE"
  /\ order.is # "none" => order.id \in mine /\ reservation[order.id] # "NONE"
  /\ OrderTruthful

(* A server's step, or another page's, leaves it true. *)
LEMMA AccountKept ==
  ASSUME Inv', PagesInv, [PagesNext]_all, UNCHANGED accountPage
  PROVE  AccountInv'
<1> USE DEF PagesInv, PagesTypeOK, MarketTypeOK, AccountTypeOK, ListedWasReserved
<1>1. mine \subseteq mine' /\ UNCHANGED <<history, order>>
  BY MineStep DEF accountPage
<1>2. AccountTypeOK'
  BY <1>1
<1>3. (\A r \in Orders : reservation[r] # "NONE")'
  <2>1. Orders' = Orders /\ Orders \subseteq Call
    BY <1>1 DEF Orders
  <2> QED
    BY <2>1, PagesStep, RowsKept
<1>4. (order.is # "none" => order.id \in mine /\ reservation[order.id] # "NONE")'
  BY <1>1, PagesStep, RowsKept
<1>5. OrderTruthful'
  <2> SUFFICES ASSUME order.is = "ready" PROVE OrderTruthful'
    BY <1>1 DEF OrderTruthful
  <2>1. order.id \in Call /\ order.says.status \in ReservationStatus \ {"NONE"}
    BY DEF OrderTruthful
  <2>2. order.says.status # "RESERVED" =>
          reservation'[order.id] = order.says.status /\ settled'[order.id] = order.says.received
    BY <2>1, PagesStep, RowsKept DEF OrderTruthful, ReservationStatus
  <2> QED
    BY <1>1, <2>1, <2>2 DEF OrderTruthful
<1> QED
  BY <1>2, <1>3, <1>4, <1>5 DEF AccountInv

LEMMA AccountStep ==
  ASSUME Inv', PagesInv, [PagesNext]_all
  PROVE  AccountInv'
<1> USE DEF PagesInv, PagesTypeOK, MarketTypeOK, AccountTypeOK, ListedWasReserved
<1>1. CASE UNCHANGED accountPage
  BY <1>1, AccountKept
<1>2. CASE OpenMarket \/ OpenAccount
  BY <1>2 DEF OpenMarket, OpenAccount, GoToAccount, AccountInv, Orders, OrderTruthful
<1>3. ASSUME NEW c \in Call, Reserved(c) PROVE AccountInv'
  <2>1. c \in mine /\ op[c] = "reserve" /\ outcome[c] = "ok"
    BY <1>3 DEF Reserved
  <2>2. reservation[c] # "NONE"
    BY <2>1 DEF Inv, CallConsistent
  <2>3. /\ order' = [is |-> "loading", id |-> c]
        /\ history' = [is |-> "loading"] \/ history' = history
        /\ UNCHANGED <<reservation, settled, mine>>
    BY <1>3 DEF Reserved, GoToAccount, vars, rows
  <2>4. \A r \in Orders' : reservation'[r] # "NONE"
    BY <2>3 DEF Orders
  <2> QED
    BY <2>1, <2>2, <2>3, <2>4 DEF AccountInv, OrderTruthful
<1>4. CASE HistoryLoaded
  <2>1. order' = order /\ UNCHANGED <<reservation, settled, mine>>
    BY <1>4 DEF HistoryLoaded, vars, rows, marketPage
  <2>2. OrderTruthful'
    BY <2>1 DEF OrderTruthful
  <2>3. \A r \in Orders' : reservation'[r] # "NONE"
    BY <1>4, <2>1 DEF HistoryLoaded, Orders
  <2> QED
    BY <1>4, <2>1, <2>2, <2>3 DEF AccountInv, HistoryLoaded
<1>5. CASE ViewOrder
  <2>1. PICK r \in Orders : order' = [is |-> "loading", id |-> r]
    BY <1>5 DEF ViewOrder
  <2>2. UNCHANGED <<reservation, settled, mine, history>>
    BY <1>5 DEF ViewOrder, vars, rows, marketPage
  <2>3. r \in mine /\ Orders' = Orders
    BY <2>1, <2>2 DEF Orders
  <2> QED
    BY <2>1, <2>2, <2>3 DEF AccountInv, OrderTruthful
<1>6. CASE OrderLoaded
  <2>1. order.id \in mine /\ order.id \in Call /\ reservation[order.id] # "NONE"
    BY <1>6 DEF OrderLoaded
  <2>2. UNCHANGED <<reservation, settled, mine, history>>
    BY <1>6 DEF OrderLoaded, vars, rows, marketPage
  <2>3. Orders' = Orders
    BY <2>2 DEF Orders
  <2>4. CASE order' = [is |-> "ready", id |-> order.id, says |-> Summary(order.id)]
    <3> DEFINE says == Summary(order.id)
    <3>1. /\ says \in [status : ReservationStatus \ {"NONE"}, step : 0 .. 2,
                       received : Amount \cup {None}]
          /\ says.received # None <=> says.status = "COMPLETED"
          /\ says.status = "COMPLETED" => says.step = 2
          /\ says.status = reservation[order.id] /\ says.received = settled[order.id]
      BY <2>1, SummaryFacts
    <3> HIDE DEF says
    <3>2. order' = [is |-> "ready", id |-> order.id, says |-> says]
      BY <2>4 DEF says
    <3>3. AccountTypeOK'
      BY <2>1, <2>2, <3>1, <3>2
    <3>4. OrderTruthful'
      BY <2>1, <2>2, <3>1, <3>2 DEF OrderTruthful
    <3> QED
      BY <2>1, <2>2, <2>3, <3>2, <3>3, <3>4 DEF AccountInv
  <2>5. CASE order' = [order EXCEPT !.is = "error"]
    <3>1. order' \in [is : {"error"}, id : Call] /\ order'.id = order.id /\ order'.is = "error"
      BY <1>6, <2>5 DEF OrderLoaded
    <3> QED
      BY <2>1, <2>2, <2>3, <3>1 DEF AccountInv, OrderTruthful
  <2> QED
    BY <1>6, <2>4, <2>5 DEF OrderLoaded
<1>7. CASE RefreshOrder
  <2>1. order.id \in mine /\ order.id \in Call /\ reservation[order.id] # "NONE"
    BY <1>7 DEF RefreshOrder
  <2>2. /\ order' = [is |-> "loading", id |-> order.id]
        /\ UNCHANGED <<reservation, settled, mine, history>>
    BY <1>7 DEF RefreshOrder, vars, rows, marketPage
  <2>3. Orders' = Orders
    BY <2>2 DEF Orders
  <2> QED
    BY <2>1, <2>2, <2>3 DEF AccountInv, OrderTruthful
<1>8. CASE Buyer
  BY <1>1, <1>2, <1>3, <1>4, <1>5, <1>6, <1>7, <1>8
     DEF Buyer, ListingsLoaded, LoadMore, MoreLoaded, SubscriptionLoaded, RefreshSubscription,
         OnReserve, Conflicted, NotReserved
<1>9. CASE Admin
  BY <1>1, <1>9 DEF Admin, Refresh, QueueLoaded, LoadMoreQueue, MoreQueueLoaded, OnAction, ActionAnswered
<1> QED
  BY <1>1, <1>8, <1>9 DEF PagesNext, all

(* The steps of the administrator's page.  A reservation that its queue     *)
(* lists was made, whatever has become of it.                               *)
LEMMA DueType ==
  ASSUME IsFiniteSet(Listing), PageSize \in Nat \ {0}, Inv, NEW after
  PROVE  /\ Due(after) \in [is : {"ready"}, rows : SUBSET Call, next : Listing \cup {None}]
         /\ \A r \in Due(after).rows : reservation[r] # "NONE"
<1> DEFINE page == PageOf({l \in Listing : listing[l] = "RESERVED"}, after)
           due == {r \in Call : reservation[r] = "RESERVED" /\ place[r] \in page.rows}
<1>1. page \in [is : {"ready"}, rows : SUBSET {l \in Listing : listing[l] = "RESERVED"},
                next : Listing \cup {None}]
  BY PageOfType
<1>2. Due(after) = [page EXCEPT !.rows = due]
  BY DEF Due
<1>3. due \in SUBSET Call /\ \A r \in due : reservation[r] # "NONE"
  OBVIOUS
<1> HIDE DEF page, due
<1>4. Due(after).rows = due
  BY <1>1, <1>2
<1> QED
  BY <1>1, <1>2, <1>3, <1>4

AdminInv == AdminTypeOK /\ \A r \in Queued : reservation[r] # "NONE"

LEMMA AdminKept ==
  ASSUME Inv', PagesInv, [PagesNext]_all, UNCHANGED adminPage
  PROVE  AdminInv'
<1> USE DEF PagesInv, PagesTypeOK, AdminTypeOK, ListedWasReserved
<1>1. UNCHANGED <<queue, queueLoads, queueMore, acting, row>>
  BY DEF adminPage
<1>2. Queued' = Queued /\ Queued \subseteq Call
  BY <1>1 DEF Queued
<1> QED
  BY <1>1, <1>2, PagesStep, RowsKept DEF AdminInv

LEMMA AdminStep ==
  ASSUME IsFiniteSet(Listing), MaxLoad \in Nat \ {0}, PageSize \in Nat \ {0},
         Inv', PagesInv, [PagesNext]_all
  PROVE  AdminInv'
<1> USE DEF PagesInv, PagesTypeOK, AdminTypeOK, ListedWasReserved, Unmounted
<1>1. CASE UNCHANGED adminPage
  BY <1>1, AdminKept
<1>2. CASE Refresh
  BY <1>2 DEF Refresh, LoadQueue, AdminInv, Queued
<1>3. CASE QueueLoaded
  <2>1. CASE queue' = [is |-> "error"] /\ row' = Unmounted
    BY <1>3, <2>1 DEF QueueLoaded, AdminInv, Queued
  <2>2. CASE /\ queue' = Due(None)
             /\ row' = [l \in Listing |->
                          IF \E r \in Due(None).rows : place[r] = l THEN row[l] ELSE None]
    <3>1. row' \in [Listing -> acting \cup {None}]
      BY <2>2
    <3>2. /\ queue' \in [is : {"ready"}, rows : SUBSET Call, next : Listing \cup {None}]
          /\ \A r \in queue'.rows : reservation[r] # "NONE"
      BY <2>2, DueType
    <3>3. queueLoads' \in 0 .. MaxLoad /\ UNCHANGED <<queueMore, acting, reservation>>
      BY <1>3 DEF QueueLoaded, vars, rows
    <3> QED
      BY <3>1, <3>2, <3>3 DEF AdminInv, Queued
  <2> QED
    BY <1>3, <2>1, <2>2 DEF QueueLoaded
<1>4. CASE LoadMoreQueue
  BY <1>4 DEF LoadMoreQueue, QueueMoreButton, AdminInv, Queued, vars, rows
<1>5. CASE MoreQueueLoaded
  <2>1. CASE UNCHANGED queue
    BY <1>5, <2>1 DEF MoreQueueLoaded, AdminInv, Queued, vars, rows
  <2>2. CASE /\ queue.is = "ready"
             /\ queue' = [Due(queueMore) EXCEPT !.rows = @ \cup queue.rows]
    <3>1. /\ Due(queueMore) \in [is : {"ready"}, rows : SUBSET Call, next : Listing \cup {None}]
          /\ \A r \in Due(queueMore).rows : reservation[r] # "NONE"
      BY DueType
    <3>2. queue.rows \in SUBSET Call /\ \A r \in queue.rows : reservation[r] # "NONE"
      BY <2>2 DEF Queued
    <3>3. queue' \in [is : {"ready"}, rows : SUBSET Call, next : Listing \cup {None}]
          /\ queue'.rows = Due(queueMore).rows \cup queue.rows
      BY <2>2, <3>1, <3>2
    <3>4. UNCHANGED <<queueLoads, acting, row, reservation>> /\ queueMore' = None
      BY <1>5 DEF MoreQueueLoaded, vars, rows
    <3> QED
      BY <3>1, <3>2, <3>3, <3>4 DEF AdminInv, Queued
  <2> QED
    BY <1>5, <2>1, <2>2 DEF MoreQueueLoaded
<1>6. ASSUME NEW r \in Call, NEW c \in Call, OnAction(r, c) PROVE AdminInv'
  <2>1. /\ row' = [row EXCEPT ![place[r]] = c] /\ acting' = acting \cup {c}
        /\ UNCHANGED <<queue, queueLoads, queueMore, reservation>>
    BY <1>6 DEF OnAction, BeginSchedule, BeginFinish, rows
  <2>2. row' \in [Listing -> acting' \cup {None}]
    BY <2>1
  <2> QED
    BY <2>1, <2>2 DEF AdminInv, Queued
<1>7. ASSUME NEW c \in Call, ActionAnswered(c) PROVE AdminInv'
  <2>1. CASE stage[c] = "done" /\ outcome[c] = "ok" /\ LoadQueue
    BY <1>7, <2>1 DEF ActionAnswered, LoadQueue, AdminInv, Queued
  <2>2. CASE row' = [l \in Listing |-> IF row[l] = c THEN None ELSE row[l]] /\ UNCHANGED <<queue, queueLoads>>
    <3>1. row' \in [Listing -> acting' \cup {None}] /\ acting' \subseteq Call
      BY <1>7, <2>2 DEF ActionAnswered
    <3> QED
      BY <1>7, <2>2, <3>1 DEF ActionAnswered, AdminInv, Queued, vars, rows
  <2> QED
    BY <1>7, <2>1, <2>2 DEF ActionAnswered
<1>8. CASE Admin
  BY <1>2, <1>3, <1>4, <1>5, <1>6, <1>7, <1>8 DEF Admin
<1>9. CASE Buyer
  BY <1>1, <1>9
     DEF Buyer, OpenMarket, ListingsLoaded, LoadMore, MoreLoaded, SubscriptionLoaded,
         RefreshSubscription, OnReserve, Reserved, Conflicted, NotReserved, OpenAccount,
         HistoryLoaded, ViewOrder, OrderLoaded, RefreshOrder
<1> QED
  BY <1>1, <1>8, <1>9 DEF PagesNext, all

LEMMA PagesStepInv ==
  ASSUME IsFiniteSet(Listing), MaxLoad \in Nat \ {0}, PageSize \in Nat \ {0}, PagesInv, [PagesNext]_all
  PROVE  PagesInv'
<1>1. Inv'
  BY PagesStep, NextInv DEF PagesInv
<1>2. MoneyWithCompletion'
  BY <1>1, PagesStep, RowsKept DEF PagesInv
<1>3. MarketTypeOK' /\ AccountInv' /\ AdminInv'
  BY <1>1, MarketStep, AccountStep, AdminStep
<1>4. (\A c \in mine : op[c] = "reserve")'
  BY <1>1, MineStep
<1> QED
  BY <1>1, <1>2, <1>3, <1>4
     DEF PagesInv, PagesTypeOK, ListedWasReserved, AccountInv, AdminInv, Inv

(* What the pages show is at all times of its type and was once so, for     *)
(* pages of any size and any number of overlapping loads.                   *)
THEOREM PagesInvariance ==
  ASSUME IsFiniteSet(Listing), MaxLoad \in Nat \ {0}, PageSize \in Nat \ {0}
  PROVE  PagesSpec => []PagesInv
<1>1. PagesInit => PagesInv
  BY PagesInitInv
<1>2. PagesInv /\ [PagesNext]_all => PagesInv'
  BY PagesStepInv
<1> QED
  BY <1>1, <1>2, PTL DEF PagesSpec

(* What the details of an order say: the order is this buyer's, its money   *)
(* comes exactly with its completion, and what they show as closed is still *)
(* closed, with the same money, however old the answer is.                  *)
THEOREM OrdersAreTruthful ==
  ASSUME IsFiniteSet(Listing), MaxLoad \in Nat \ {0}, PageSize \in Nat \ {0}
  PROVE  PagesSpec => []OrderTruthful
<1>1. PagesInv => OrderTruthful
  BY DEF PagesInv
<1> QED
  BY <1>1, PagesInvariance, PTL
=============================================================================
