---------------------------- MODULE PassesProofs ----------------------------
(***************************************************************************)
(* The safety properties of Passes, for any users, orders, calls, bank     *)
(* references and lengths of a pass, and then those of the page on top of  *)
(* it that gives passes away.                                              *)
(***************************************************************************)
EXTENDS GrantPage, TLAPS

(* Nothing has been sold and no call has begun. *)
LEMMA InitInv == Init => Inv
<1> SUFFICES ASSUME Init PROVE Inv
  OBVIOUS
<1> USE NoneAssumption, TimeAssumption DEF Init
<1>1. TypeOK
  BY DEF TypeOK, Stage, Outcome, Note
<1>2. LocksConsistent
  BY DEF LocksConsistent, HoldsOrder, HoldsRef
<1>3. ASSUME NEW c \in Call PROVE CallConsistent(c)
  BY DEF CallConsistent, InTransaction, Passes
<1>4. PaidOnce /\ PaidWindowsDisjoint /\ NeverShutOut /\ AcknowledgedIsActivated
  BY DEF PaidOnce, PaidWindowsDisjoint, NeverShutOut, AcknowledgedIsActivated,
         ActivatedBy, Paid, Passes
<1> QED
  BY <1>1, <1>2, <1>3, <1>4 DEF Inv

(* A step that makes no pass and settles no order leaves alone what is     *)
(* said of passes.                                                         *)
LEMMA PassesKept ==
  ASSUME Inv,
         UNCHANGED <<bank, from, to>>,
         \A o \in Order : pay'[o] = "PAID" <=> pay[o] = "PAID",
         \A c \in Passes : /\ op'[c] = op[c] /\ order'[c] = order[c]
                           /\ note'[c] = note[c] /\ ref'[c] = ref[c]
                           /\ user'[c] = user[c] /\ born'[c] = born[c]
  PROVE  /\ Passes' = Passes
         /\ PaidOnce' /\ PaidWindowsDisjoint' /\ NeverShutOut'
<1>1. Passes' = Passes
  BY DEF Passes
<1>2. Paid' = Paid
  BY <1>1 DEF Paid
<1>3. \A c \in Passes : Holder(c)' = Holder(c)
  BY DEF Holder
<1>4. \A o \in Order : ActivatedBy(o)' = ActivatedBy(o)
  BY <1>2 DEF ActivatedBy, Paid
<1>5. PaidOnce'
  BY <1>2, <1>4 DEF Inv, PaidOnce, ActivatedBy, Paid
<1>6. PaidWindowsDisjoint'
  BY <1>2, <1>3 DEF Inv, PaidWindowsDisjoint, Paid
<1>7. ASSUME NEW c \in Passes, NEW t \in born[c] .. to[c] - 1
      PROVE  ActiveAt(Holder(c), t)' = ActiveAt(Holder(c), t)
  BY <1>1, <1>3 DEF ActiveAt, PassesOf
<1>8. NeverShutOut'
  BY <1>1, <1>7 DEF Inv, NeverShutOut
<1> QED
  BY <1>1, <1>5, <1>6, <1>8

(* Time passes. *)
LEMMA TickInv == ASSUME Inv, Tick PROVE Inv'
<1> USE DEF Inv, Tick, rows, call
<1>1. TypeOK'
  BY DEF TypeOK
<1>2. LocksConsistent'
  BY DEF LocksConsistent, HoldsOrder, HoldsRef, RefUsed
<1>3. Passes' = Passes /\ PaidOnce' /\ PaidWindowsDisjoint' /\ NeverShutOut'
  BY PassesKept
<1>4. ASSUME NEW d \in Call PROVE CallConsistent(d)'
  BY <1>3 DEF CallConsistent, TypeOK
<1>5. AcknowledgedIsActivated'
  BY DEF AcknowledgedIsActivated, RefUsed
<1> QED
  BY <1>1, <1>2, <1>3, <1>4, <1>5

(* An order is placed before anything is told of it. *)
LEMMA PlaceInv == ASSUME Inv, NEW o \in Order, Place(o) PROVE Inv'
<1> USE DEF Inv, Place, call
<1>1. TypeOK'
  BY DEF TypeOK
<1>2. LocksConsistent'
  BY DEF TypeOK, LocksConsistent, HoldsOrder, HoldsRef, RefUsed
<1>3. Passes' = Passes /\ PaidOnce' /\ PaidWindowsDisjoint' /\ NeverShutOut'
  BY PassesKept DEF TypeOK
<1>4. ASSUME NEW d \in Call PROVE CallConsistent(d)'
  BY <1>3 DEF CallConsistent, TypeOK
<1>5. AcknowledgedIsActivated'
  BY DEF TypeOK, AcknowledgedIsActivated, RefUsed
<1> QED
  BY <1>1, <1>2, <1>3, <1>4, <1>5

(* A write of the checkout only makes snapshots stale, none of them of a   *)
(* webhook that has locked the row.                                        *)
LEMMA TouchInv == ASSUME Inv, NEW o \in Order, Touch(o) PROVE Inv'
<1> USE DEF Inv, Touch, rows, call
<1>1. TypeOK'
  BY DEF TypeOK
<1>2. LocksConsistent'
  BY DEF LocksConsistent, HoldsOrder, HoldsRef, RefUsed
<1>3. Passes' = Passes /\ PaidOnce' /\ PaidWindowsDisjoint' /\ NeverShutOut'
  BY PassesKept
<1>4. ASSUME NEW d \in Call PROVE CallConsistent(d)'
  BY <1>3 DEF CallConsistent
<1>5. AcknowledgedIsActivated'
  BY DEF AcknowledgedIsActivated, RefUsed
<1> QED
  BY <1>1, <1>2, <1>3, <1>4, <1>5

(* What a call's return assigns keeps its type. *)
LEMMA ReturnTyped ==
  ASSUME TypeOK, NEW c \in Call, NEW how \in Outcome, Return(c, how)
  PROVE  /\ stage' \in [Call -> Stage]
         /\ outcome' \in [Call -> Outcome]
         /\ snap' \in [Call -> SUBSET Call]
         /\ tries' \in [Call -> 0 .. MaxAttempts]
<1>1. stage' = [stage EXCEPT ![c] = "done"] /\ "done" \in Stage
  BY DEF Return, Stage
<1>2. outcome' = [outcome EXCEPT ![c] = how]
  BY DEF Return
<1>3. snap' = [snap EXCEPT ![c] = {}]
  BY DEF Return
<1>4. tries' = [tries EXCEPT ![c] = 0] /\ 0 \in 0 .. MaxAttempts
  BY TimeAssumption DEF Return
<1> QED
  BY <1>1, <1>2, <1>3, <1>4 DEF TypeOK

(* A delivery begins while no pass has its name. *)
LEMMA BeginDeliveryInv ==
  ASSUME Inv, NEW c \in Call, NEW o \in Order, NEW n \in Note, NEW r \in Ref,
         BeginDelivery(c, o, n, r)
  PROVE  Inv'
<1> USE NoneAssumption, TimeAssumption DEF Inv, BeginDelivery, rows
<1>1. TypeOK'
  BY DEF TypeOK, Stage, InTransaction, Note
<1>2. to[c] = 0 /\ outcome[c] = "none"
  BY DEF CallConsistent
<1>3. LocksConsistent'
  BY DEF TypeOK, LocksConsistent, HoldsOrder, HoldsRef, RefUsed
<1>4. Passes' = Passes /\ PaidOnce' /\ PaidWindowsDisjoint' /\ NeverShutOut'
  BY <1>2, PassesKept DEF TypeOK, Passes
<1>5. ASSUME NEW d \in Call PROVE CallConsistent(d)'
  <2>1. CASE d = c
    BY <1>2, <1>4, <2>1 DEF CallConsistent, TypeOK, InTransaction, Note
  <2>2. CASE d # c
    BY <1>4, <2>2 DEF CallConsistent, TypeOK
  <2> QED
    BY <2>1, <2>2
<1>6. AcknowledgedIsActivated'
  BY <1>2 DEF TypeOK, AcknowledgedIsActivated, RefUsed
<1> QED
  BY <1>1, <1>3, <1>4, <1>5, <1>6

(* A notification that has changed nothing comes again. *)
LEMMA RedeliverInv == ASSUME Inv, NEW c \in Call, Redeliver(c) PROVE Inv'
<1> USE NoneAssumption, TimeAssumption DEF Inv, Redeliver, rows, call
<1>1. TypeOK'
  BY DEF TypeOK, Stage, InTransaction, Outcome
<1>2. LocksConsistent'
  BY DEF TypeOK, LocksConsistent, HoldsOrder, HoldsRef, RefUsed
<1>3. Passes' = Passes /\ PaidOnce' /\ PaidWindowsDisjoint' /\ NeverShutOut'
  BY PassesKept
<1>4. ASSUME NEW d \in Call PROVE CallConsistent(d)'
  <2>1. CASE d = c
    BY <1>3, <2>1 DEF CallConsistent, TypeOK, InTransaction
  <2>2. CASE d # c
    BY <1>3, <2>2 DEF CallConsistent, TypeOK
  <2> QED
    BY <2>1, <2>2
<1>5. AcknowledgedIsActivated'
  BY DEF TypeOK, AcknowledgedIsActivated, RefUsed
<1> QED
  BY <1>1, <1>2, <1>3, <1>4, <1>5

(* The snapshot is of now, and an answer without a transaction is given to *)
(* a mismatch or about an order that is PAID already.                      *)
LEMMA ReadInv == ASSUME Inv, NEW c \in Call, Read(c) PROVE Inv'
<1>1. TypeOK'
  <2>1. TypeOK /\ UNCHANGED <<clock, rows, audit, call, born, stale>>
    BY DEF Inv, Read
  <2>2. /\ stage' \in [Call -> Stage] /\ outcome' \in [Call -> Outcome]
        /\ snap' \in [Call -> SUBSET Call] /\ tries' \in [Call -> 0 .. MaxAttempts]
    <3>1. CASE Return(c, "ignored") \/ Return(c, "duplicate")
      BY <2>1, <3>1, ReturnTyped DEF Outcome
    <3>2. CASE /\ snap' = [snap EXCEPT ![c] = Passes]
               /\ stage' = [stage EXCEPT ![c] = "claim"]
               /\ UNCHANGED <<tries, outcome>>
      BY <2>1, <3>2 DEF TypeOK, Stage, InTransaction, Passes
    <3> QED
      BY <3>1, <3>2 DEF Read
  <2> QED
    BY <2>1, <2>2 DEF TypeOK, rows, call
<1> USE NoneAssumption, TimeAssumption DEF Inv, Read, Return, rows, call
<1>2. LocksConsistent'
  <2>1. \A d \in Call : HoldsOrder(d)' => HoldsOrder(d)
    BY DEF TypeOK, HoldsOrder
  <2> QED
    BY <2>1 DEF LocksConsistent, HoldsRef, RefUsed
<1>3. Passes' = Passes /\ PaidOnce' /\ PaidWindowsDisjoint' /\ NeverShutOut'
  BY PassesKept
<1>4. ASSUME NEW d \in Call PROVE CallConsistent(d)'
  <2>1. CASE d = c
    BY <1>3, <2>1 DEF CallConsistent, TypeOK, InTransaction
  <2>2. CASE d # c
    BY <1>3, <2>2 DEF CallConsistent, TypeOK
  <2> QED
    BY <2>1, <2>2
<1>5. AcknowledgedIsActivated'
  BY DEF TypeOK, AcknowledgedIsActivated, RefUsed, CallConsistent, InTransaction
<1> QED
  BY <1>1, <1>2, <1>3, <1>4, <1>5

(* A transaction that is given up frees its locks; the call tries again or *)
(* answers with an error.                                                  *)
LEMMA ConflictInv ==
  ASSUME Inv, NEW c \in Call, stage[c] \in {"claim", "commit"}, Conflict(c)
  PROVE  Inv'
<1> USE NoneAssumption, TimeAssumption DEF Inv, Conflict, Retry, Return, rows, call
<1>1. TypeOK'
  BY DEF TypeOK, Stage, InTransaction, Outcome
<1>2. to[c] = 0 /\ op[c] = "deliver"
  BY DEF CallConsistent, InTransaction
<1>3. LocksConsistent'
  <2>1. \A d \in Call : HoldsOrder(d)' => HoldsOrder(d) /\ d # c
    BY DEF TypeOK, HoldsOrder
  <2> QED
    BY <2>1 DEF LocksConsistent, HoldsRef, RefUsed
<1>4. Passes' = Passes /\ PaidOnce' /\ PaidWindowsDisjoint' /\ NeverShutOut'
  BY <1>2, PassesKept DEF TypeOK, Passes
<1>5. ASSUME NEW d \in Call PROVE CallConsistent(d)'
  <2>1. CASE d = c
    BY <1>2, <1>4, <2>1 DEF CallConsistent, TypeOK, InTransaction
  <2>2. CASE d # c
    BY <1>2, <1>4, <2>2 DEF CallConsistent, TypeOK, Passes
  <2> QED
    BY <2>1, <2>2
<1>6. AcknowledgedIsActivated'
  BY DEF TypeOK, AcknowledgedIsActivated, RefUsed
<1> QED
  BY <1>1, <1>3, <1>4, <1>5, <1>6

(* The same for a failure, which may also hit a grant that is not made yet. *)
LEMMA FailInv == ASSUME Inv, NEW c \in Call, Fail(c) PROVE Inv'
<1> USE NoneAssumption, TimeAssumption DEF Inv, Fail, Return, rows, call
<1>1. TypeOK'
  BY DEF TypeOK, Stage, InTransaction, Outcome
<1>2. to[c] = 0 /\ op[c] # "none"
  BY DEF CallConsistent, InTransaction
<1>3. LocksConsistent'
  <2>1. \A d \in Call : HoldsOrder(d)' => HoldsOrder(d) /\ d # c
    BY DEF TypeOK, HoldsOrder
  <2> QED
    BY <2>1 DEF LocksConsistent, HoldsRef, RefUsed
<1>4. Passes' = Passes /\ PaidOnce' /\ PaidWindowsDisjoint' /\ NeverShutOut'
  BY <1>2, PassesKept DEF TypeOK, Passes
<1>5. ASSUME NEW d \in Call PROVE CallConsistent(d)'
  <2>1. CASE d = c
    BY <1>2, <1>4, <2>1 DEF CallConsistent, TypeOK, InTransaction
  <2>2. CASE d # c
    BY <1>2, <1>4, <2>2 DEF CallConsistent, TypeOK, Passes
  <2> QED
    BY <2>1, <2>2
<1>6. AcknowledgedIsActivated'
  BY DEF TypeOK, AcknowledgedIsActivated, RefUsed
<1> QED
  BY <1>1, <1>3, <1>4, <1>5, <1>6

(* A claim takes an order that nobody else holds and that is still PENDING. *)
LEMMA ClaimInv == ASSUME Inv, NEW c \in Call, Claim(c) PROVE Inv'
<1> USE NoneAssumption, TimeAssumption DEF Inv, Claim, Return, Goto, rows, call
<1>1. TypeOK'
  BY DEF TypeOK, Stage, InTransaction, Outcome
<1>2. pay[order[c]] = "PENDING" /\ op[c] = "deliver" /\ to[c] = 0
  BY DEF CallConsistent, InTransaction
<1>3. stage'[c] \in {"window", "commit"} /\ note[c] = "paid" => ~RefUsed(c)
  BY DEF TypeOK
<1>4. LocksConsistent'
  <2>1. \A d \in Call \ {c} : HoldsOrder(d)' <=> HoldsOrder(d)
    BY DEF TypeOK, HoldsOrder
  <2>2. \A d \in Call : HoldsOrder(d)' => d \notin stale /\ pay[order[d]] = "PENDING"
    BY <1>2, <2>1 DEF LocksConsistent
  <2>3. \A d \in Call : HoldsRef(d)' => ~RefUsed(d)'
    BY <1>3, <2>1 DEF LocksConsistent, HoldsRef, HoldsOrder, RefUsed
  <2>4. \A d, e \in Call :
          d # e /\ HoldsOrder(d)' /\ HoldsOrder(e)' => order[d] # order[e]
    BY <2>1 DEF LocksConsistent, OrderFree
  <2>5. \A d, e \in Call : d # e /\ HoldsRef(d)' /\ HoldsRef(e)' => ref[d] # ref[e]
    BY <2>1 DEF LocksConsistent, HoldsRef, RefFree
  <2> QED
    BY <2>2, <2>3, <2>4, <2>5 DEF LocksConsistent
<1>5. Passes' = Passes /\ PaidOnce' /\ PaidWindowsDisjoint' /\ NeverShutOut'
  BY PassesKept
<1>6. ASSUME NEW d \in Call PROVE CallConsistent(d)'
  <2>1. CASE d = c
    BY <1>2, <1>5, <2>1 DEF CallConsistent, TypeOK, InTransaction, Note
  <2>2. CASE d # c
    BY <1>5, <2>2 DEF CallConsistent, TypeOK
  <2> QED
    BY <2>1, <2>2
<1>7. AcknowledgedIsActivated'
  BY DEF TypeOK, AcknowledgedIsActivated, RefUsed
<1> QED
  BY <1>1, <1>4, <1>5, <1>6, <1>7

(* The now of a webhook is later than every pass it has read. *)
LEMMA WindowInv == ASSUME Inv, NEW c \in Call, Window(c) PROVE Inv'
<1> USE NoneAssumption, TimeAssumption DEF Inv, Window, Goto, rows, call
<1>1. TypeOK'
  BY DEF TypeOK, Stage, InTransaction
<1>2. to[c] = 0 /\ op[c] = "deliver" /\ note[c] = "paid"
  BY DEF CallConsistent, InTransaction
<1>3. LocksConsistent'
  <2>1. \A d \in Call : HoldsOrder(d)' <=> HoldsOrder(d)
    BY DEF TypeOK, HoldsOrder
  <2> QED
    BY <2>1 DEF LocksConsistent, HoldsRef, RefUsed
<1>4. Passes' = Passes /\ PaidOnce' /\ PaidWindowsDisjoint' /\ NeverShutOut'
  BY <1>2, PassesKept DEF TypeOK, Passes
<1>5. ASSUME NEW d \in Call PROVE CallConsistent(d)'
  <2>1. \A e \in snap[d] : e \in Call /\ e # c /\ born[e] <= clock
    BY <1>2 DEF CallConsistent, Passes
  <2>2. CASE d = c
    BY <1>2, <1>4, <2>1, <2>2 DEF CallConsistent, TypeOK, InTransaction
  <2>3. CASE d # c
    BY <1>4, <2>1, <2>3 DEF CallConsistent, TypeOK
  <2> QED
    BY <2>2, <2>3
<1>6. AcknowledgedIsActivated'
  BY DEF TypeOK, AcknowledgedIsActivated, RefUsed
<1> QED
  BY <1>1, <1>3, <1>4, <1>5, <1>6

(* Another code than success commits nothing but a newer row. *)
LEMMA RecordInv == ASSUME Inv, NEW c \in Call, Record(c) PROVE Inv'
<1>1. TypeOK'
  <2>1. /\ TypeOK /\ UNCHANGED <<clock, rows, audit, call, born>>
        /\ Return(c, "pending") \/ Return(c, "error")
    BY DEF Inv, Record
  <2>2. /\ stage' \in [Call -> Stage] /\ outcome' \in [Call -> Outcome]
        /\ snap' \in [Call -> SUBSET Call] /\ tries' \in [Call -> 0 .. MaxAttempts]
    BY <2>1, ReturnTyped DEF Outcome
  <2>3. stale' \subseteq Call
    BY DEF Inv, TypeOK, Record, StaleBy
  <2> QED
    BY <2>1, <2>2, <2>3 DEF TypeOK, rows, call
<1> USE NoneAssumption, TimeAssumption DEF Inv, Record, Return, rows, call
<1>2. to[c] = 0 /\ op[c] = "deliver"
  BY DEF CallConsistent, InTransaction
<1>3. LocksConsistent'
  <2>1. \A d \in Call : HoldsOrder(d)' => HoldsOrder(d) /\ (d \in stale' => d \in stale)
    BY DEF TypeOK, HoldsOrder, StaleBy
  <2> QED
    BY <2>1 DEF LocksConsistent, HoldsRef, RefUsed
<1>4. Passes' = Passes /\ PaidOnce' /\ PaidWindowsDisjoint' /\ NeverShutOut'
  BY PassesKept
<1>5. ASSUME NEW d \in Call PROVE CallConsistent(d)'
  <2>1. CASE d = c
    BY <1>2, <1>4, <2>1 DEF CallConsistent, TypeOK, InTransaction
  <2>2. CASE d # c
    BY <1>4, <2>2 DEF CallConsistent, TypeOK, StaleBy
  <2> QED
    BY <2>1, <2>2
<1>6. AcknowledgedIsActivated'
  BY DEF TypeOK, AcknowledgedIsActivated, RefUsed
<1> QED
  BY <1>1, <1>3, <1>4, <1>5, <1>6

(* A new pass leaves what there was as it is: users stay covered. *)
LEMMA StaysCovered ==
  ASSUME Inv, NEW c \in Call, to[c] = 0,
         UNCHANGED <<op, order, user, born>>,
         \A d \in Call \ {c} : from'[d] = from[d] /\ to'[d] = to[d],
         NEW d \in Passes, NEW t \in born[d] .. to[d] - 1
  PROVE  ActiveAt(Holder(d), t)' # {}
<1>1. PICK e \in ActiveAt(Holder(d), t) : TRUE
  BY DEF Inv, NeverShutOut
<1>2. e \in Call /\ e # c /\ Holder(e) = Holder(d) /\ from[e] <= t /\ t < to[e] /\ to[e] # 0
  BY <1>1 DEF ActiveAt, PassesOf, Passes
<1>3. Holder(e)' = Holder(e) /\ Holder(d)' = Holder(d)
  BY DEF Holder
<1> QED
  BY <1>2, <1>3 DEF ActiveAt, PassesOf, Passes

(* A grant that is refused or looks for a pass has made none. *)
LEMMA BeginGrantInv ==
  ASSUME Inv, NEW c \in Call, NEW u \in User, NEW n \in GrantDays,
         BeginGrant(c, u, n)
  PROVE  Inv'
<1> USE NoneAssumption, TimeAssumption DEF Inv, BeginGrant, Goto, Return, rows
<1>1. TypeOK'
  BY DEF TypeOK, Stage, InTransaction, Outcome
<1>2. to[c] = 0 /\ op[c] = "none"
  BY DEF CallConsistent
<1>3. LocksConsistent'
  <2>1. \A d \in Call : HoldsOrder(d)' <=> HoldsOrder(d)
    BY DEF TypeOK, HoldsOrder
  <2> QED
    BY <2>1 DEF LocksConsistent, HoldsRef, RefUsed
<1>4. Passes' = Passes /\ PaidOnce' /\ PaidWindowsDisjoint' /\ NeverShutOut'
  BY <1>2, PassesKept DEF TypeOK, Passes
<1>5. ASSUME NEW d \in Call PROVE CallConsistent(d)'
  <2>1. \A e \in snap[d] : e # c /\ born'[e] = born[e]
    BY <1>2 DEF CallConsistent, Passes, TypeOK
  <2>2. CASE d = c
    BY <1>2, <1>4, <2>2 DEF CallConsistent, TypeOK, InTransaction
  <2>3. CASE d # c
    <3>1. snap'[d] = snap[d] /\ stage'[d] = stage[d] /\ outcome'[d] = outcome[d]
      BY <2>3 DEF TypeOK
    <3>2. op'[d] = op[d] /\ user'[d] = user[d] /\ days'[d] = days[d] /\ born'[d] = born[d]
      BY <2>3 DEF TypeOK
    <3> QED
      BY <1>4, <2>1, <2>3, <3>1, <3>2 DEF CallConsistent
  <2> QED
    BY <2>2, <2>3
<1>6. AcknowledgedIsActivated'
  BY DEF TypeOK, AcknowledgedIsActivated, RefUsed
<1> QED
  BY <1>1, <1>3, <1>4, <1>5, <1>6

(* The pass of a grant covers its user from the now of its check. *)
LEMMA CreateInv == ASSUME Inv, NEW c \in Call, Create(c) PROVE Inv'
<1> USE NoneAssumption, TimeAssumption DEF Inv, Create, Goto, call
<1>1. to[c] = 0 /\ op[c] = "grant" /\ days[c] \in Nat \ {0} /\ born[c] \in Nat
  BY DEF CallConsistent, TypeOK
<1>2. TypeOK'
  BY <1>1 DEF TypeOK, Stage
<1>3. /\ from'[c] = born[c] /\ to'[c] = born[c] + days[c] /\ to'[c] # 0
      /\ \A d \in Call \ {c} : from'[d] = from[d] /\ to'[d] = to[d]
  BY <1>1 DEF TypeOK
<1>4. Passes' = Passes \cup {c} /\ c \notin Passes /\ Paid' = Paid
  BY <1>1, <1>3 DEF Passes, Paid
<1>5. LocksConsistent'
  <2>1. \A d \in Call : HoldsOrder(d)' <=> HoldsOrder(d)
    BY DEF TypeOK, HoldsOrder
  <2> QED
    BY <2>1 DEF LocksConsistent, HoldsRef, RefUsed
<1>6. ASSUME NEW d \in Call PROVE CallConsistent(d)'
  <2>1. CASE d = c
    BY <1>1, <1>3, <1>4, <2>1 DEF CallConsistent, TypeOK, InTransaction
  <2>2. CASE d # c
    BY <1>3, <1>4, <2>2 DEF CallConsistent, TypeOK
  <2> QED
    BY <2>1, <2>2
<1>7. PaidOnce'
  BY <1>4 DEF PaidOnce, ActivatedBy
<1>8. PaidWindowsDisjoint'
  <2>1. \A d \in Paid : d \in Call \ {c} /\ Holder(d)' = Holder(d)
    BY <1>1 DEF Paid, Passes, Holder
  <2> QED
    BY <1>3, <1>4, <2>1 DEF PaidWindowsDisjoint
<1>9. NeverShutOut'
  <2> SUFFICES ASSUME NEW d \in Passes', NEW t \in (born[d] .. to[d] - 1)'
               PROVE  ActiveAt(Holder(d), t)' # {}
    BY DEF NeverShutOut
  <2>1. CASE d = c
    <3>1. c \in ActiveAt(Holder(c), t)'
      BY <1>1, <1>3, <1>4, <2>1 DEF ActiveAt, PassesOf
    <3> QED
      BY <2>1, <3>1
  <2>2. CASE d # c
    <3>1. d \in Passes /\ t \in born[d] .. to[d] - 1
      BY <1>3, <1>4, <2>2 DEF Passes
    <3> QED
      BY <1>1, <1>3, <3>1, StaysCovered
  <2> QED
    BY <2>1, <2>2
<1>10. AcknowledgedIsActivated'
  BY DEF AcknowledgedIsActivated, RefUsed
<1> QED
  BY <1>2, <1>5, <1>6, <1>7, <1>8, <1>9, <1>10

(* The audit entry of a grant follows its pass. *)
LEMMA AuditInv == ASSUME Inv, NEW c \in Call, Audit(c) PROVE Inv'
<1> USE NoneAssumption, TimeAssumption DEF Inv, Audit, Return, rows, call
<1>1. TypeOK'
  BY DEF TypeOK, Stage, Outcome
<1>2. to[c] # 0 /\ op[c] = "grant"
  BY DEF CallConsistent
<1>3. LocksConsistent'
  <2>1. \A d \in Call : HoldsOrder(d)' <=> HoldsOrder(d)
    BY DEF TypeOK, HoldsOrder
  <2> QED
    BY <2>1 DEF LocksConsistent, HoldsRef, RefUsed
<1>4. Passes' = Passes /\ PaidOnce' /\ PaidWindowsDisjoint' /\ NeverShutOut'
  BY PassesKept
<1>5. ASSUME NEW d \in Call PROVE CallConsistent(d)'
  <2>1. CASE d = c
    BY <1>2, <1>4, <2>1 DEF CallConsistent, TypeOK, InTransaction
  <2>2. CASE d # c
    BY <1>4, <2>2 DEF CallConsistent, TypeOK
  <2> QED
    BY <2>1, <2>2
<1>6. AcknowledgedIsActivated'
  BY DEF TypeOK, AcknowledgedIsActivated, RefUsed
<1> QED
  BY <1>1, <1>3, <1>4, <1>5, <1>6

(* A webhook that commits has read every paid pass of its user, and starts *)
(* the new one where they have all ended.                                  *)
LEMMA StartsLast ==
  ASSUME Inv, NEW c \in Call, stage[c] = "commit", note[c] = "paid",
         ~Crossed(c), NEW s \in Starts(c)
  PROVE  /\ s \in Nat /\ born[c] <= s
         /\ \A d \in Paid : Holder(d) = Holder(c) => to[d] <= s
         /\ s = born[c] \/ \E d \in snap[c] : /\ Holder(d) = Holder(c)
                                            /\ born[d] <= born[c]
                                            /\ s = to[d]
<1> USE DEF Inv
<1>1. born[c] \in Nat /\ snap[c] \subseteq Passes /\ snap[c] \subseteq Call
  BY DEF TypeOK, CallConsistent
<1>2. \A e \in Ends(c) : e \in Nat /\ born[c] < e
  BY <1>1 DEF Ends, TypeOK
<1>3. s \in Nat /\ born[c] <= s /\ \A e \in Ends(c) : e <= s
  BY <1>1, <1>2 DEF Starts
<1>4. ASSUME NEW d \in Paid, Holder(d) = Holder(c) PROVE to[d] <= s
  <2>1. d \in snap[c] /\ to[d] \in Nat
    BY <1>4 DEF Crossed, TypeOK, Paid, Passes
  <2>2. CASE to[d] > born[c]
    BY <1>3, <1>4, <2>1, <2>2 DEF Ends
  <2>3. CASE ~(to[d] > born[c])
    BY <1>1, <1>3, <2>1, <2>3
  <2> QED
    BY <2>2, <2>3
<1>5. s = born[c] \/ s \in Ends(c)
  BY DEF Starts
<1>6. ASSUME s \in Ends(c)
      PROVE  \E d \in snap[c] : Holder(d) = Holder(c) /\ born[d] <= born[c] /\ s = to[d]
  BY <1>6 DEF Ends, CallConsistent
<1> QED
  BY <1>3, <1>4, <1>5, <1>6

(* The pass of a webhook is the last of its user's, and the order and the   *)
(* reference it settles are nobody else's.                                 *)
LEMMA ActivateInv == ASSUME Inv, NEW c \in Call, Activate(c) PROVE Inv'
<1>0. /\ stage' \in [Call -> Stage] /\ outcome' \in [Call -> Outcome]
      /\ snap' \in [Call -> SUBSET Call] /\ tries' \in [Call -> 0 .. MaxAttempts]
  <2>1. TypeOK /\ (Return(c, "activated") \/ Return(c, "error"))
    BY DEF Inv, Activate
  <2> QED
    BY <2>1, ReturnTyped DEF Outcome
<1> USE NoneAssumption, TimeAssumption, OwnerAssumption DEF Inv, Activate, Return, call
<1>1. /\ to[c] = 0 /\ op[c] = "deliver" /\ order[c] \in Order /\ ref[c] \in Ref
      /\ born[c] \in Nat /\ c \notin stale /\ pay[order[c]] = "PENDING"
      /\ ~RefUsed(c) /\ HoldsOrder(c) /\ HoldsRef(c)
      /\ note[c] = "paid" /\ ref[c] # None
  BY DEF CallConsistent, TypeOK, InTransaction, LocksConsistent, HoldsOrder, HoldsRef
<1>2. PICK s \in Starts(c) : /\ from' = [from EXCEPT ![c] = s]
                             /\ to' = [to EXCEPT ![c] = s + PaidDays]
  OBVIOUS
<1>3. /\ s \in Nat /\ born[c] <= s
      /\ \A d \in Paid : Holder(d) = Holder(c) => to[d] <= s
      /\ s = born[c] \/ \E d \in snap[c] : /\ Holder(d) = Holder(c)
                                         /\ born[d] <= born[c]
                                         /\ s = to[d]
  BY StartsLast
<1>4. /\ from'[c] = s /\ to'[c] = s + PaidDays /\ to'[c] # 0
      /\ \A d \in Call \ {c} : from'[d] = from[d] /\ to'[d] = to[d]
  BY <1>2, <1>3 DEF TypeOK
<1>5. /\ Passes' = Passes \cup {c} /\ c \notin Passes /\ Passes \subseteq Call
      /\ Paid' = Paid \cup {c} /\ Paid \subseteq Passes
  BY <1>1, <1>4 DEF Passes, Paid
<1>6. \A d \in Call : Holder(d)' = Holder(d)
  BY DEF Holder
<1>7. TypeOK'
  <2>1. from' \in [Call -> Nat] /\ to' \in [Call -> Nat]
    BY <1>2, <1>3 DEF TypeOK
  <2>2. /\ pay' \in [Order -> {"NONE", "PENDING", "PAID"}]
        /\ bank' \in [Order -> Ref \cup {None}]
    BY <1>1 DEF TypeOK
  <2>3. stale' \subseteq Call
    BY DEF TypeOK, StaleBy
  <2> QED
    BY <1>0, <2>1, <2>2, <2>3 DEF TypeOK
<1>8. /\ pay'[order[c]] = "PAID" /\ bank'[order[c]] = ref[c] /\ bank[order[c]] = None
      /\ \A o \in Order \ {order[c]} : pay'[o] = pay[o] /\ bank'[o] = bank[o]
  BY <1>1 DEF TypeOK, PaidOnce
<1>9. LocksConsistent'
  <2>1. \A d \in Call : HoldsOrder(d)' => HoldsOrder(d) /\ d # c /\ d \notin stale'
    BY DEF TypeOK, HoldsOrder, StaleBy, LocksConsistent
  <2>2. \A d \in Call : HoldsOrder(d)' => order[d] # order[c] /\ order[d] \in Order
    BY <1>1, <2>1 DEF LocksConsistent, TypeOK, CallConsistent, HoldsOrder, InTransaction
  <2>3. \A d \in Call : HoldsOrder(d)' => d \notin stale' /\ pay'[order[d]] = "PENDING"
    BY <1>8, <2>1, <2>2 DEF LocksConsistent
  <2>4. \A d \in Call : HoldsRef(d)' => HoldsRef(d) /\ d # c
    BY <2>1 DEF HoldsRef
  <2>5. \A d \in Call : HoldsRef(d)' => ~RefUsed(d)'
    BY <1>1, <1>8, <2>4 DEF LocksConsistent, RefUsed
  <2> QED
    BY <2>1, <2>3, <2>4, <2>5 DEF LocksConsistent
<1>10. ASSUME NEW d \in Call PROVE CallConsistent(d)'
  <2>1. CASE d = c
    BY <1>1, <1>3, <1>4, <1>5, <2>1 DEF CallConsistent, TypeOK, InTransaction
  <2>2. CASE d # c
    <3>1. stage'[d] = "claim" /\ d \notin stale' => pay'[order[d]] = "PENDING"
      <4>1. ASSUME stage'[d] = "claim", d \notin stale' PROVE order[d] # order[c] /\ d \notin stale
        BY <2>2, <4>1 DEF TypeOK, StaleBy
      <4> QED
        BY <1>8, <2>2, <4>1 DEF TypeOK, CallConsistent, InTransaction
    <3>2. op[d] = "deliver" /\ pay'[order[d]] = "NONE" => note[d] = "mismatch"
      BY <1>8 DEF TypeOK, CallConsistent
    <3> QED
      BY <1>4, <1>5, <2>2, <3>1, <3>2 DEF CallConsistent, TypeOK
  <2> QED
    BY <2>1, <2>2
<1>11. PaidOnce'
  <2>1. \A o \in Order \ {order[c]} : ActivatedBy(o)' = ActivatedBy(o)
    BY <1>5 DEF ActivatedBy
  <2>2. \A o \in Order : o = order[c] => ActivatedBy(o)' = {c}
    BY <1>1, <1>5 DEF ActivatedBy, PaidOnce
  <2>3. \A o, p \in Order : bank'[o] # None /\ bank'[o] = bank'[p] => o = p
    BY <1>1, <1>8 DEF PaidOnce, RefUsed
  <2>4. ASSUME NEW o \in Order
        PROVE  /\ pay'[o] = "PAID" <=> ActivatedBy(o)' # {}
               /\ pay'[o] = "PAID" <=> bank'[o] # None
               /\ \A d, e \in ActivatedBy(o)' : d = e
               /\ \A d \in ActivatedBy(o)' : note[d] = "paid" /\ bank'[o] = ref[d]
    <3>1. CASE o = order[c]
      <4>1. ActivatedBy(o)' = {c} /\ pay'[o] = "PAID" /\ bank'[o] = ref[c]
        BY <1>8, <2>2, <3>1
      <4> QED
        BY <1>1, <4>1
    <3>2. CASE o # order[c]
      BY <1>8, <2>1, <3>2 DEF PaidOnce
    <3> QED
      BY <3>1, <3>2
  <2> QED
    BY <2>3, <2>4 DEF PaidOnce
<1>12. PaidWindowsDisjoint'
  <2> SUFFICES ASSUME NEW d \in Paid', NEW e \in Paid', d # e, Holder(d) = Holder(e)
               PROVE  to'[d] <= from'[e] \/ to'[e] <= from'[d]
    BY <1>5, <1>6 DEF PaidWindowsDisjoint
  <2>1. CASE d = c
    BY <1>3, <1>4, <1>5, <2>1
  <2>2. CASE e = c
    BY <1>3, <1>4, <1>5, <2>2
  <2>3. CASE d # c /\ e # c
    BY <1>4, <1>5, <2>3 DEF PaidWindowsDisjoint
  <2> QED
    BY <2>1, <2>2, <2>3
<1>13. NeverShutOut'
  <2> SUFFICES ASSUME NEW d \in Passes', NEW t \in (born[d] .. to[d] - 1)'
               PROVE  ActiveAt(Holder(d), t)' # {}
    BY DEF NeverShutOut
  <2>1. CASE d = c /\ s <= t
    <3>1. c \in ActiveAt(Holder(c), t)'
      BY <1>3, <1>4, <1>5, <2>1 DEF ActiveAt, PassesOf
    <3> QED
      BY <2>1, <3>1
  <2>2. CASE d = c /\ t < s
    <3>1. born[c] <= t /\ t \in Int
      BY <1>1, <1>3, <1>4, <2>2
    <3>2. PICK e \in snap[c] : Holder(e) = Holder(c) /\ born[e] <= born[c] /\ s = to[e]
      BY <1>3, <2>2, <3>1
    <3>3. e \in Passes
      BY <3>2 DEF CallConsistent
    <3>4. t \in born[e] .. to[e] - 1
      BY <1>1, <1>3, <2>2, <3>1, <3>2, <3>3 DEF TypeOK, Passes
    <3>5. ActiveAt(Holder(e), t)' # {}
      BY <1>1, <1>4, <3>3, <3>4, StaysCovered
    <3> QED
      BY <1>5, <1>6, <2>2, <3>2, <3>3, <3>5
  <2>3. CASE d # c
    <3>1. d \in Passes /\ t \in born[d] .. to[d] - 1
      BY <1>4, <1>5, <2>3
    <3> QED
      BY <1>1, <1>4, <3>1, StaysCovered
  <2>4. CASE d = c /\ ~(s <= t) /\ ~(t < s)
    BY <1>1, <1>3, <1>4, <2>4
  <2> QED
    BY <2>1, <2>2, <2>3, <2>4
<1>14. AcknowledgedIsActivated'
  <2>1. \A d \in Call : op[d] = "deliver" /\ RefUsed(d) => RefUsed(d)'
    BY <1>8 DEF RefUsed, CallConsistent
  <2>2. \A o \in Order : pay[o] = "PAID" => pay'[o] = "PAID"
    BY <1>8
  <2>3. \A d \in Call \ {c} : outcome'[d] = outcome[d]
    BY DEF TypeOK
  <2> QED
    BY <1>1, <1>8, <2>1, <2>2, <2>3 DEF AcknowledgedIsActivated, TypeOK, CallConsistent
<1> QED
  BY <1>7, <1>9, <1>10, <1>11, <1>12, <1>13, <1>14

(* Every step keeps the invariant. *)
LEMMA NextInv == Inv /\ [Next]_vars => Inv'
<1> SUFFICES ASSUME Inv, [Next]_vars PROVE Inv'
  OBVIOUS
<1>1. CASE Tick
  BY <1>1, TickInv
<1>2. ASSUME NEW o \in Order, Place(o) PROVE Inv'
  BY <1>2, PlaceInv
<1>3. ASSUME NEW o \in Order, Touch(o) PROVE Inv'
  BY <1>3, TouchInv
<1>4. ASSUME NEW c \in Call, Begin(c) PROVE Inv'
  BY <1>4, BeginDeliveryInv, BeginGrantInv DEF Begin
<1>5. ASSUME NEW c \in Call, Step(c) PROVE Inv'
  <2>1. CASE Read(c)
    BY <2>1, ReadInv
  <2>2. CASE ClaimConflict(c)
    BY <2>2, ConflictInv DEF ClaimConflict
  <2>3. CASE Claim(c)
    BY <2>3, ClaimInv
  <2>4. CASE Window(c)
    BY <2>4, WindowInv
  <2>5. CASE Record(c)
    BY <2>5, RecordInv
  <2>6. CASE Activate(c)
    BY <2>6, ActivateInv
  <2>7. CASE CommitConflict(c)
    BY <2>7, ConflictInv DEF CommitConflict
  <2>8. CASE Create(c)
    BY <2>8, CreateInv
  <2>9. CASE Audit(c)
    BY <2>9, AuditInv
  <2> QED
    BY <1>5, <2>1, <2>2, <2>3, <2>4, <2>5, <2>6, <2>7, <2>8, <2>9 DEF Step
<1>6. ASSUME NEW c \in Call, Redeliver(c) PROVE Inv'
  BY <1>6, RedeliverInv
<1>7. ASSUME NEW c \in Call, Fail(c) PROVE Inv'
  BY <1>7, FailInv
<1>8. CASE UNCHANGED vars
  <2> USE <1>8 DEF vars, rows, call
  <2>1. TypeOK' /\ LocksConsistent' /\ AcknowledgedIsActivated'
    BY DEF Inv, TypeOK, LocksConsistent, HoldsOrder, HoldsRef, RefUsed,
           AcknowledgedIsActivated
  <2>2. Passes' = Passes /\ PaidOnce' /\ PaidWindowsDisjoint' /\ NeverShutOut'
    BY PassesKept
  <2>3. ASSUME NEW d \in Call PROVE CallConsistent(d)'
    BY <2>2 DEF Inv, CallConsistent
  <2> QED
    BY <2>1, <2>2, <2>3 DEF Inv
<1> QED
  BY <1>1, <1>2, <1>3, <1>4, <1>5, <1>6, <1>7, <1>8 DEF Next, AllDone
-----------------------------------------------------------------------------
(* For any users, orders and calls, the inductive invariant of Passes. *)
THEOREM Invariance == Spec => []Inv
  BY InitInv, NextInv, PTL DEF Spec

(* The rows and the calls have the types that Passes declares. *)
THEOREM TypeCorrect == Spec => []TypeOK
<1>1. Inv => TypeOK
  BY DEF Inv
<1> QED
  BY <1>1, Invariance, PTL

(* However often a payment is delivered, retried and raced, its order has  *)
(* one pass and its reference one order.                                   *)
THEOREM PaidIsOnce == Spec => []PaidOnce
<1>1. Inv => PaidOnce
  BY DEF Inv
<1> QED
  BY <1>1, Invariance, PTL

(* Of two paid passes of a user, one ends before the other starts. *)
THEOREM PaidWindowsAreDisjoint == Spec => []PaidWindowsDisjoint
<1>1. Inv => PaidWindowsDisjoint
  BY DEF Inv
<1> QED
  BY <1>1, Invariance, PTL

(* A user with a pass that has not ended has an active one. *)
THEOREM NobodyIsShutOut == Spec => []NeverShutOut
<1>1. Inv => NeverShutOut
  BY DEF Inv
<1> QED
  BY <1>1, Invariance, PTL

(* No payment is acknowledged to payOS that has not been applied. *)
THEOREM AcknowledgedAreActivated == Spec => []AcknowledgedIsActivated
<1>1. Inv => AcknowledgedIsActivated
  BY DEF Inv
<1> QED
  BY <1>1, Invariance, PTL
-----------------------------------------------------------------------------
(* The refinement.  A step that leaves the passes of the orders alone is a *)
(* stutter of the ledger.                                                  *)
LEMMA LedgerStutters ==
  ASSUME Paid' = Paid, \A c \in Paid : order'[c] = order[c] /\ from'[c] = from[c]
  PROVE  \A o \in Order : StartOf(o)' = StartOf(o)
<1> SUFFICES ASSUME NEW o \in Order PROVE StartOf(o)' = StartOf(o)
  OBVIOUS
<1>1. ActivatedBy(o)' = ActivatedBy(o) /\ ActivatedBy(o) \subseteq Paid
  BY DEF ActivatedBy
<1>2. CASE ActivatedBy(o) = {}
  BY <1>1, <1>2 DEF StartOf
<1>3. CASE ActivatedBy(o) # {}
  <2>1. (CHOOSE c \in ActivatedBy(o) : TRUE) \in ActivatedBy(o)
    BY <1>3
  <2> QED
    BY <1>1, <1>3, <2>1 DEF StartOf
<1> QED
  BY <1>2, <1>3

(* What a ledger entry says: the start of the order's one pass. *)
LEMMA StartFacts ==
  ASSUME Inv, NEW o \in Order
  PROVE  /\ pay[o] # "PAID" => StartOf(o) = None
         /\ \A c \in ActivatedBy(o) : StartOf(o) = from[c]
         /\ StartOf(o) # None => ActivatedBy(o) # {}
<1>1. ASSUME NEW c \in ActivatedBy(o) PROVE StartOf(o) = from[c]
  BY <1>1 DEF Inv, PaidOnce, StartOf
<1>2. pay[o] # "PAID" => StartOf(o) = None
  BY DEF Inv, PaidOnce, StartOf
<1> QED
  BY <1>1, <1>2 DEF StartOf

(* The commit of a webhook is the ledger's step for its order. *)
LEMMA ActivateIsLedger ==
  ASSUME Inv, Inv', NEW c \in Call, Activate(c) PROVE Ledger!Activate(order[c])
<1> DEFINE entry == [o \in Order |-> StartOf(o)]
<1> USE NoneAssumption, TimeAssumption, OwnerAssumption
<1>1. /\ to[c] = 0 /\ op[c] = "deliver" /\ order[c] \in Order
      /\ born[c] \in Nat /\ pay[order[c]] = "PENDING"
      /\ stage[c] = "commit" /\ note[c] = "paid" /\ ~Crossed(c)
  BY DEF Inv, Activate, CallConsistent, TypeOK, InTransaction, LocksConsistent, HoldsOrder
<1>2. PICK s \in Starts(c) : /\ from' = [from EXCEPT ![c] = s]
                             /\ to' = [to EXCEPT ![c] = s + PaidDays]
  BY DEF Activate
<1>3. s \in Nat /\ \A d \in Paid : Holder(d) = Holder(c) => to[d] <= s
  BY <1>1, StartsLast
<1>4. /\ from'[c] = s /\ to'[c] # 0
      /\ \A d \in Call \ {c} : from'[d] = from[d] /\ to'[d] = to[d]
  BY <1>2, <1>3 DEF Inv, TypeOK
<1>5. Paid' = Paid \cup {c} /\ c \notin Paid /\ UNCHANGED order
  BY <1>1, <1>4 DEF Activate, call, Paid, Passes
<1>6. c \in ActivatedBy(order[c])'
  BY <1>5 DEF ActivatedBy
<1>7. entry[order[c]] = None /\ entry'[order[c]] = s
  <2>1. StartOf(order[c]) = None
    BY <1>1, StartFacts
  <2>2. ASSUME NEW o \in Order, o = order[c] PROVE StartOf(o)' = s
    <3>1. ActivatedBy(o)' = {c}
      BY <1>1, <1>5, <2>2 DEF Inv, PaidOnce, ActivatedBy
    <3> QED
      BY <1>4, <3>1 DEF StartOf
  <2> QED
    BY <1>1, <2>1, <2>2
<1>8. ASSUME NEW o \in Order, o # order[c] PROVE StartOf(o)' = StartOf(o)
  <2>1. ActivatedBy(o)' = ActivatedBy(o) /\ c \notin ActivatedBy(o)
    BY <1>5, <1>8 DEF ActivatedBy
  <2>2. CASE ActivatedBy(o) = {}
    BY <2>1, <2>2 DEF StartOf
  <2>3. CASE ActivatedBy(o) # {}
    <3>1. (CHOOSE d \in ActivatedBy(o) : TRUE) \in ActivatedBy(o)
      BY <2>3
    <3>2. \A d \in ActivatedBy(o) : from'[d] = from[d]
      BY <1>4, <2>1 DEF ActivatedBy, Paid, Passes
    <3> QED
      BY <2>1, <2>3, <3>1, <3>2 DEF StartOf
  <2> QED
    BY <2>2, <2>3
<1>9. entry' = [entry EXCEPT ![order[c]] = entry'[order[c]]]
  BY <1>1, <1>8
<1>10. ASSUME NEW p \in Order, Owner[p] = Owner[order[c]], entry[p] # None
       PROVE  entry[p] + PaidDays <= s
  <2>1. PICK d \in ActivatedBy(p) : TRUE
    BY <1>10, StartFacts
  <2>2. d \in Paid /\ d \in Call /\ order[d] = p /\ op[d] = "deliver" /\ to[d] # 0
    BY <2>1 DEF ActivatedBy, Paid, Passes
  <2>3. Holder(d) = Holder(c)
    BY <1>1, <1>10, <2>2 DEF Holder
  <2>4. to[d] = from[d] + PaidDays /\ entry[p] = from[d]
    BY <2>1, <2>2, StartFacts DEF Inv, CallConsistent
  <2> QED
    BY <1>3, <2>2, <2>3, <2>4
<1> QED
  BY <1>1, <1>3, <1>7, <1>9, <1>10 DEF Ledger!Activate, Ledger!Bought

(* No other step makes or changes a paid pass. *)
LEMMA PaidKept ==
  ASSUME Inv, [Next]_vars, \A c \in Call : ~Activate(c)
  PROVE  Paid' = Paid /\ \A c \in Paid : order'[c] = order[c] /\ from'[c] = from[c]
<1> DEFINE Kept == UNCHANGED <<from, to, order>> /\ UNCHANGED op
<1> DEFINE Goal == /\ Paid' = Paid
                   /\ \A c \in Paid : order'[c] = order[c] /\ from'[c] = from[c]
<1>1. Kept => Goal
  BY DEF Paid, Passes
<1>2. ASSUME NEW c \in Call, Begin(c) PROVE Goal
  <2>1. stage[c] = "idle"
    BY <1>2 DEF Begin, BeginDelivery, BeginGrant
  <2>2. to[c] = 0
    BY <2>1 DEF Inv, CallConsistent
  <2>3. /\ UNCHANGED <<from, to>>
        /\ \A d \in Call \ {c} : op'[d] = op[d] /\ order'[d] = order[d]
    BY <1>2 DEF Begin, BeginDelivery, BeginGrant, rows, Inv, TypeOK
  <2> QED
    BY <2>2, <2>3 DEF Paid, Passes
<1>3. ASSUME NEW c \in Call, Create(c) PROVE Goal
  <2>1. op[c] = "grant" /\ UNCHANGED call
    BY <1>3 DEF Inv, CallConsistent, Create
  <2>2. \A d \in Call \ {c} : from'[d] = from[d] /\ to'[d] = to[d]
    BY <1>3 DEF Create, Inv, TypeOK
  <2> QED
    BY <2>1, <2>2 DEF call, Paid, Passes
<1>4. ASSUME NEW c \in Call, Step(c), ~Create(c) PROVE Kept
  BY <1>4 DEF Step, Read, ClaimConflict, Claim, Window, Record, CommitConflict,
              Conflict, Audit, rows, call
<1>5. ASSUME NEW c \in Call, Redeliver(c) \/ Fail(c) PROVE Kept
  BY <1>5 DEF Redeliver, Fail, rows, call
<1>6. ASSUME NEW o \in Order, Place(o) \/ Touch(o) PROVE Kept
  BY <1>6 DEF Place, Touch, rows, call
<1>7. CASE Tick \/ AllDone \/ UNCHANGED vars
  <2>1. Kept
    BY <1>7 DEF Tick, AllDone, vars, rows, call
  <2> QED
    BY <1>1, <2>1
<1> QED
  BY <1>1, <1>2, <1>3, <1>4, <1>5, <1>6, <1>7 DEF Next

(* The webhooks, with their snapshots, conflicts, retries and repeated     *)
(* deliveries, act like the ledger.                                        *)
THEOREM PassesImplementLedger == Spec => ImplementsLedger
<1> DEFINE entry == [o \in Order |-> StartOf(o)]
<1>1. Init => Ledger!Init
  BY DEF Init, Ledger!Init, StartOf, ActivatedBy, Paid, Passes
<1>2. Inv /\ Inv' /\ [Next]_vars => [Ledger!Next]_entry
  <2> SUFFICES ASSUME Inv, Inv', [Next]_vars PROVE Ledger!Next \/ entry' = entry
    OBVIOUS
  <2>1. ASSUME NEW c \in Call, Activate(c) PROVE Ledger!Next
    <3>1. order[c] \in Order
      BY <2>1 DEF Inv, Activate, CallConsistent, TypeOK, InTransaction
    <3> QED
      BY <2>1, <3>1, ActivateIsLedger DEF Ledger!Next
  <2>2. CASE \A c \in Call : ~Activate(c)
    <3>1. Paid' = Paid /\ \A c \in Paid : order'[c] = order[c] /\ from'[c] = from[c]
      BY <2>2, PaidKept
    <3> QED
      BY <3>1, LedgerStutters
  <2> QED
    BY <2>1, <2>2
<1> QED
  BY <1>1, <1>2, Invariance, PTL DEF Spec, ImplementsLedger, Ledger!Spec
-----------------------------------------------------------------------------
(* The page.  Every step of it is a step of Passes, or none.                *)
LEMMA PageStep ==
  ASSUME PageTypeOK, [Page \/ Rest]_all
  PROVE  [Next]_vars
<1>1. ASSUME NEW c \in Call, OnSubmit(c) PROVE Next
  <2>1. email \in User /\ durationDays \in GrantDays
    BY <1>1 DEF OnSubmit, PageTypeOK
  <2> QED
    BY <1>1, <2>1 DEF OnSubmit, Next, Begin
<1>2. CASE Page
  BY <1>1, <1>2 DEF Page, Fill, Granted, NotGranted, Mount
<1>3. CASE Rest
  BY <1>3 DEF Rest, Next, Begin
<1> QED
  BY <1>2, <1>3 DEF all

(* A grant that has begun stays one, for the same user; a pass that was     *)
(* made is there for good.                                                  *)
LEMMA GrantsKept ==
  ASSUME Inv, GrantedHasPass, [Next]_vars
  PROVE  /\ \A c \in Call : op[c] = "grant" => op'[c] = "grant" /\ user'[c] = user[c]
         /\ \A c \in Call : to[c] # 0 => to'[c] # 0
         /\ GrantedHasPass'
<1> USE DEF GrantedHasPass
<1>1. ASSUME NEW d \in Call, Begin(d)
      PROVE  \A c \in Call : op[c] # "none" => c # d /\ op'[c] = op[c] /\ user'[c] = user[c]
  BY <1>1 DEF Begin, BeginDelivery, BeginGrant, Goto, Return, Inv, TypeOK, CallConsistent
<1>2. ASSUME NEW d \in Call, Step(d) \/ Redeliver(d) \/ Fail(d) PROVE UNCHANGED <<op, user>>
  BY <1>2 DEF Step, Read, ClaimConflict, Claim, Window, Record, Activate, CommitConflict, Create,
         Audit, Redeliver, Fail, Conflict, call
<1>3. \A c \in Call : op[c] = "grant" => op'[c] = "grant" /\ user'[c] = user[c]
  BY <1>1, <1>2 DEF Next, Tick, Place, Touch, AllDone, vars, call
<1>4. ASSUME NEW d \in Call, Activate(d) \/ Create(d) PROVE \A c \in Call : to[c] # 0 => to'[c] # 0
  <2>1. to[d] = 0
    BY <1>4 DEF Activate, Create, Inv, CallConsistent, InTransaction
  <2>2. \A c \in Call : c # d => to'[c] = to[c]
    BY <1>4 DEF Activate, Create, Inv, TypeOK
  <2> QED
    BY <2>1, <2>2
<1>5. ASSUME NEW d \in Call, Begin(d) \/ Redeliver(d) \/ Fail(d) PROVE UNCHANGED to
  BY <1>5 DEF Begin, BeginDelivery, BeginGrant, Redeliver, Fail, rows
<1>6. ASSUME NEW d \in Call, Step(d), ~(Activate(d) \/ Create(d)) PROVE UNCHANGED to
  BY <1>6 DEF Step, Read, ClaimConflict, Claim, Window, Record, CommitConflict, Audit, Conflict, rows
<1>7. \A c \in Call : to[c] # 0 => to'[c] # 0
  BY <1>4, <1>5, <1>6 DEF Next, Tick, Place, Touch, AllDone, vars, rows
<1>8. ASSUME NEW c \in Call, outcome'[c] = "granted", outcome[c] # "granted"
      PROVE  op[c] = "grant" /\ to[c] # 0
  <2>1. ASSUME NEW d \in Call, Audit(d) PROVE op[c] = "grant" /\ to[c] # 0
    BY <1>8, <2>1 DEF Audit, Return, Inv, TypeOK, CallConsistent
  <2>2. ASSUME NEW d \in Call, Begin(d) \/ Redeliver(d) \/ Fail(d) PROVE FALSE
    BY <1>8, <2>2 DEF Begin, BeginDelivery, BeginGrant, Redeliver, Fail, Return, Goto, Inv, TypeOK
  <2>3. ASSUME NEW d \in Call, Read(d) \/ ClaimConflict(d) \/ Claim(d) \/ CommitConflict(d) PROVE FALSE
    BY <1>8, <2>3 DEF Read, ClaimConflict, Claim, CommitConflict, Conflict, Retry, Return, Goto, Inv, TypeOK
  <2>4. ASSUME NEW d \in Call, Window(d) \/ Record(d) \/ Activate(d) \/ Create(d) PROVE FALSE
    BY <1>8, <2>4 DEF Window, Record, Activate, Create, Return, Goto, Inv, TypeOK
  <2> QED
    BY <1>8, <2>1, <2>2, <2>3, <2>4 DEF Next, Step, Tick, Place, Touch, AllDone, vars
<1>9. ASSUME NEW c \in Call, outcome'[c] = "granted" PROVE op'[c] = "grant" /\ to'[c] # 0
  BY <1>3, <1>7, <1>8, <1>9
<1> QED
  BY <1>3, <1>7, <1>9

(* The page, whose form may hold any user and any length of a pass. *)
LEMMA PageStepInv ==
  ASSUME {"nothing", "error"} \cap User = {}, PageInv, [Page \/ Rest]_all
  PROVE  PageInv'
<1> USE DEF PageInv
<1>1. Inv' /\ TypeOK'
  BY PageStep, NextInv DEF Inv
<1>2. GrantedHasPass'
  BY PageStep, GrantsKept
<1>3. PageTypeOK'
  <2> USE DEF PageTypeOK
  <2>1. ASSUME NEW c \in Call, Granted(c) PROVE PageTypeOK'
    <3>1. user[c] \in User
      BY <2>1 DEF Granted, GrantedHasPass, Inv, TypeOK, CallConsistent
    <3> QED
      BY <1>1, <2>1, <3>1 DEF Granted
  <2> QED
    BY <1>1, <2>1 DEF Page, Fill, OnSubmit, NotGranted, Mount, Rest, page, all
<1>4. (submitting # None => op[submitting] = "grant")'
  <2> SUFFICES ASSUME submitting' # None PROVE op'[submitting'] = "grant"
    OBVIOUS
  <2>1. CASE submitting' = submitting
    BY <2>1, PageStep, GrantsKept DEF PageTypeOK
  <2>2. ASSUME NEW c \in Call, OnSubmit(c) PROVE op'[submitting'] = "grant"
    BY <2>2 DEF OnSubmit, BeginGrant, Inv, TypeOK
  <2> QED
    BY <2>1, <2>2 DEF Page, Fill, Granted, NotGranted, Mount, Rest, page, all
<1>5. SaidIsGranted'
  <2> USE DEF SaidIsGranted
  <2> SUFFICES ASSUME said' \in User PROVE \E c \in Passes' : op'[c] = "grant" /\ user'[c] = said'
    OBVIOUS
  <2>1. CASE said' = said
    <3>1. PICK c \in Passes : op[c] = "grant" /\ user[c] = said
      BY <2>1
    <3> QED
      BY <2>1, <3>1, PageStep, GrantsKept DEF Passes
  <2>2. ASSUME NEW c \in Call, Granted(c) PROVE \E d \in Passes' : op'[d] = "grant" /\ user'[d] = said'
    <3>1. c \in Passes /\ op[c] = "grant" /\ said' = user[c]
      BY <2>2 DEF Granted, GrantedHasPass, Passes
    <3> QED
      BY <3>1, PageStep, GrantsKept DEF Passes
  <2>3. said' \notin {"nothing", "error"}
    OBVIOUS
  <2> QED
    BY <2>1, <2>2, <2>3 DEF Page, Fill, OnSubmit, NotGranted, Mount, Rest, page, all
<1> QED
  BY <1>1, <1>2, <1>3, <1>4, <1>5

(* For any users, calls and lengths of a pass: the page waits for a grant   *)
(* or for nothing, and its invariant holds.                                 *)
THEOREM PageInvariance ==
  ASSUME {"nothing", "error"} \cap User = {}
  PROVE  PageSpec => []PageInv
<1>1. PageInit => PageInv
  <2> SUFFICES ASSUME PageInit PROVE PageInv
    OBVIOUS
  <2>1. Inv
    BY InitInv DEF PageInit
  <2> QED
    BY <2>1 DEF PageInit, PageInv, PageTypeOK, GrantedHasPass, SaidIsGranted, Init, Inv
<1>2. PageInv /\ [Page \/ Rest]_all => PageInv'
  BY PageStepInv
<1> QED
  BY <1>1, <1>2, PTL DEF PageSpec

(* When the page names a user as granted, that user has a pass which was    *)
(* given away, whatever was typed, lost or loaded anew meanwhile.           *)
THEOREM WhatItSaysWasGranted ==
  ASSUME {"nothing", "error"} \cap User = {}
  PROVE  PageSpec => []SaidIsGranted
<1>1. PageInv => SaidIsGranted
  BY DEF PageInv
<1> QED
  BY <1>1, PageInvariance, PTL

(* Behind the page the server does what it does without it, so that what    *)
(* is proved of paid orders, their passes and their windows holds there.    *)
THEOREM PageUsesPasses ==
  ASSUME {"nothing", "error"} \cap User = {}
  PROVE  PageSpec => Spec
<1>1. PageInit => Init
  BY DEF PageInit
<1>2. PageInv /\ [Page \/ Rest]_all => [Next]_vars
  BY PageStep DEF PageInv
<1> QED
  BY <1>1, <1>2, PageInvariance, PTL DEF PageSpec, Spec
=============================================================================
