------------------------------- MODULE Passes -------------------------------
(***************************************************************************)
(* Buyer passes: the payOS webhook of apps/api/src/payment/                *)
(* payment.service.ts, which turns a paid order into a window of time, and *)
(* grantByAdmin of apps/api/src/marketplace/subscription.service.ts, which *)
(* gives one away.                                                         *)
(*                                                                         *)
(* A webhook runs at SERIALIZABLE: it reads everything in one snapshot,    *)
(* and PostgreSQL aborts it when the order's row was written since, or     *)
(* when another webhook that read the same passes has committed one.  It   *)
(* then starts again, a few times, and at last gives up; payOS delivers a  *)
(* notification again until it is answered with success.  A grant runs     *)
(* outside of any transaction: it looks for an active pass and then        *)
(* inserts one.                                                            *)
(*                                                                         *)
(* The FAILED status of an order is the business of its checkout and of    *)
(* orders that payOS has refused, for which it sends no notification.      *)
(***************************************************************************)
EXTENDS Integers

CONSTANTS
  User,
  Order,        \* SubscriptionPayment rows
  Owner,        \* the user of an order
  Call,         \* deliveries and grants; a pass is named by its call
  Ref,          \* bank references
  None,
  PaidDays,     \* SubscriptionPayment.durationDays
  GrantDays,    \* what an administrator may enter as durationDays
  MaxAttempts,  \* runs of one webhook's transaction
  MaxClock      \* bound of the clock, in days

ASSUME OwnerAssumption == Owner \in [Order -> User]
ASSUME NoneAssumption == None \notin Ref \cup Order \cup User \cup Nat
ASSUME TimeAssumption == /\ PaidDays \in Nat \ {0} /\ GrantDays \subseteq Nat \ {0}
                         /\ MaxAttempts \in Nat \ {0} /\ MaxClock \in Nat

VARIABLES
  clock,
  pay,       \* SubscriptionPayment.status, "NONE" before the row exists
  bank,      \* SubscriptionPayment.providerTransactionId
  from,      \* Subscription.startsAt of a call's pass
  to,        \* Subscription.expiresAt of a call's pass, 0 before it exists
  audit,     \* the grants that have an audit entry
  op,        \* what a call does
  order,     \* the order a delivery is about
  note,      \* what a delivery says of it: paid, another code, or no match
  ref,       \* the bank reference it carries
  user,      \* the user a grant is for
  days,      \* the days it is for
  born,      \* the `now` of a call
  snap,      \* the passes in the snapshot of a webhook's transaction
  stale,     \* the webhooks whose order was written after their snapshot
  tries,     \* how many times its transaction has been run
  stage,     \* the statement a call is at
  outcome

rows == <<pay, bank, from, to>>
call == <<op, order, note, ref, user, days>>
vars == <<clock, rows, audit, call, born, snap, stale, tries, stage, outcome>>

Note == {"paid", "unpaid", "mismatch"}
InTransaction == {"read", "claim", "window", "commit"}
Stage == InTransaction \cup {"idle", "create", "audit", "done"}
Outcome == {"none", "activated", "duplicate", "ignored", "pending", "granted",
            "refused", "error"}

TypeOK ==
  /\ clock \in Nat
  /\ pay \in [Order -> {"NONE", "PENDING", "PAID"}]
  /\ bank \in [Order -> Ref \cup {None}]
  /\ from \in [Call -> Nat] /\ to \in [Call -> Nat] /\ born \in [Call -> Nat]
  /\ audit \subseteq Call
  /\ op \in [Call -> {"none", "deliver", "grant"}]
  /\ order \in [Call -> Order \cup {None}]
  /\ note \in [Call -> Note \cup {"none"}]
  /\ ref \in [Call -> Ref \cup {None}]
  /\ user \in [Call -> User \cup {None}]
  /\ days \in [Call -> Nat]
  /\ snap \in [Call -> SUBSET Call]
  /\ stale \subseteq Call
  /\ tries \in [Call -> 0 .. MaxAttempts]
  /\ stage \in [Call -> Stage]
  /\ outcome \in [Call -> Outcome]

Init ==
  /\ clock = 0
  /\ pay = [o \in Order |-> "NONE"]
  /\ bank = [o \in Order |-> None]
  /\ from = [c \in Call |-> 0] /\ to = [c \in Call |-> 0]
  /\ born = [c \in Call |-> 0]
  /\ audit = {}
  /\ op = [c \in Call |-> "none"]
  /\ order = [c \in Call |-> None]
  /\ note = [c \in Call |-> "none"]
  /\ ref = [c \in Call |-> None]
  /\ user = [c \in Call |-> None]
  /\ days = [c \in Call |-> 0]
  /\ snap = [c \in Call |-> {}]
  /\ stale = {}
  /\ tries = [c \in Call |-> 0]
  /\ stage = [c \in Call |-> "idle"]
  /\ outcome = [c \in Call |-> "none"]
-----------------------------------------------------------------------------
(* The committed passes, and the locks on orders and references. *)

Passes == {c \in Call : to[c] # 0}
Paid == {c \in Passes : op[c] = "deliver"}
Holder(c) == IF op[c] = "grant" THEN user[c] ELSE Owner[order[c]]
PassesOf(u) == {c \in Passes : Holder(c) = u}

(* The passes of a user that are active at a moment. *)
ActiveAt(u, t) == {c \in PassesOf(u) : from[c] <= t /\ t < to[c]}

(* A webhook keeps the order locked from its UPDATE to the commit, and the *)
(* entry of its bank reference in the unique index with it.                *)
HoldsOrder(c) == stage[c] \in {"window", "commit"}
HoldsRef(c) == HoldsOrder(c) /\ note[c] = "paid"

OrderFree(c, o) == \A d \in Call \ {c} : HoldsOrder(d) => order[d] # o
RefFree(c) == \A d \in Call \ {c} : HoldsRef(d) => ref[d] # ref[c]
RefUsed(c) == \E o \in Order : bank[o] = ref[c]

(* Mutant: the transaction runs at REPEATABLE READ. *)
NeverCrossed(c) == FALSE

(* Another webhook has added a pass of the same user since the snapshot.   *)
(* Each of the two has read what the other writes: no serial order exists. *)
Crossed(c) == \E d \in Paid \ snap[c] : Holder(d) = Holder(c)

(* A write to the order's row makes every older snapshot of it stale. *)
StaleBy(c) ==
  stale \cup {d \in Call \ {c} : stage[d] = "claim" /\ order[d] = order[c]}

(* Where the passes that call c has read end, those that end after its now. *)
Ends(c) == {to[d] : d \in {e \in snap[c] : Holder(e) = Holder(c) /\ to[e] > born[c]}}

(* Mutant: a new pass starts the day after the last one. *)
StartsAfter(c) ==
  {s \in {born[c]} \cup {e + 1 : e \in Ends(c)} : \A e \in Ends(c) : e < s}

(* Where call c's pass starts: now, or where the last of those passes ends. *)
Starts(c) == {s \in {born[c]} \cup Ends(c) : \A e \in Ends(c) : e <= s}
-----------------------------------------------------------------------------
Tick ==
  /\ clock < MaxClock
  /\ clock' = clock + 1
  /\ UNCHANGED <<rows, audit, call, born, snap, stale, tries, stage, outcome>>

Goto(c, s) ==
  /\ stage' = [stage EXCEPT ![c] = s]
  /\ UNCHANGED <<outcome, snap, tries>>

(* A call that is over leaves no snapshot behind. *)
Return(c, how) ==
  /\ stage' = [stage EXCEPT ![c] = "done"]
  /\ outcome' = [outcome EXCEPT ![c] = how]
  /\ snap' = [snap EXCEPT ![c] = {}]
  /\ tries' = [tries EXCEPT ![c] = 0]

(* startCheckout inserts an order, ... *)
Place(o) ==
  /\ pay[o] = "NONE"
  /\ pay' = [pay EXCEPT ![o] = "PENDING"]
  /\ UNCHANGED <<clock, bank, from, to, audit, call, born, snap, stale, tries,
                 stage, outcome>>

(* ... and writes its link, its lease or nothing new to the row later, at   *)
(* any time.  It waits for a webhook that has the row locked.              *)
Touch(o) ==
  /\ pay[o] # "NONE"
  /\ \A d \in Call : HoldsOrder(d) => order[d] # o
  /\ stale' = stale \cup {d \in Call : stage[d] = "claim" /\ order[d] = o}
  /\ UNCHANGED <<clock, rows, audit, call, born, snap, tries, stage, outcome>>

(* payOS delivers a notification.  Only the probe of an address names an   *)
(* order that was never placed.                                            *)
BeginDelivery(c, o, n, r) ==
  /\ stage[c] = "idle"
  /\ pay[o] = "NONE" => n = "mismatch"
  /\ op' = [op EXCEPT ![c] = "deliver"]
  /\ order' = [order EXCEPT ![c] = o]
  /\ note' = [note EXCEPT ![c] = n]
  /\ ref' = [ref EXCEPT ![c] = r]
  /\ tries' = [tries EXCEPT ![c] = 1]
  /\ stage' = [stage EXCEPT ![c] = "read"]
  /\ UNCHANGED <<clock, rows, audit, user, days, born, snap, stale, outcome>>

(* A notification that met a server fault comes again.  (A call that has   *)
(* made a pass keeps its name; another call delivers its notification.)    *)
Redeliver(c) ==
  /\ outcome[c] = "error" /\ op[c] = "deliver" /\ to[c] = 0
  /\ stage' = [stage EXCEPT ![c] = "read"]
  /\ outcome' = [outcome EXCEPT ![c] = "none"]
  /\ tries' = [tries EXCEPT ![c] = 1]
  /\ UNCHANGED <<clock, rows, audit, call, born, snap, stale>>

(* The transaction begins: the snapshot, and what the order looks like. *)
Read(c) ==
  /\ stage[c] = "read"
  /\ \/ note[c] = "mismatch" /\ Return(c, "ignored")
     \/ note[c] # "mismatch" /\ pay[order[c]] # "PENDING" /\ Return(c, "duplicate")
     \/ /\ note[c] # "mismatch" /\ pay[order[c]] = "PENDING"
        /\ snap' = [snap EXCEPT ![c] = Passes]
        /\ stage' = [stage EXCEPT ![c] = "claim"]
        /\ UNCHANGED <<tries, outcome>>
  /\ UNCHANGED <<clock, rows, audit, call, born, stale>>

Retry(c) ==
  /\ tries' = [tries EXCEPT ![c] = @ + 1]
  /\ stage' = [stage EXCEPT ![c] = "read"]
  /\ snap' = [snap EXCEPT ![c] = {}]
  /\ UNCHANGED outcome

(* Mutant: a webhook that keeps conflicting is acknowledged. *)
AnswerConflict(c) ==
  /\ IF tries[c] < MaxAttempts
       THEN Retry(c)
       ELSE Return(c, "ignored")
  /\ born' = [born EXCEPT ![c] = 0]
  /\ stale' = stale \ {c}
  /\ UNCHANGED <<clock, rows, audit, call>>

(* executeWithRetry on a serialization failure (P2034). *)
Conflict(c) ==
  /\ IF tries[c] < MaxAttempts
       THEN Retry(c)
       ELSE Return(c, "error")
  /\ born' = [born EXCEPT ![c] = 0]
  /\ stale' = stale \ {c}
  /\ UNCHANGED <<clock, rows, audit, call>>

(* updateMany on SubscriptionPayment.  It waits for the row and for the    *)
(* reference in the unique index; a stale snapshot conflicts.              *)
ClaimConflict(c) ==
  /\ stage[c] = "claim" /\ OrderFree(c, order[c])
  /\ c \in stale \/ (note[c] = "paid" /\ RefFree(c) /\ RefUsed(c))
  /\ Conflict(c)

(* Mutant: an order that another webhook has in hand counts as settled. *)
ClaimNoWait(c) ==
  /\ stage[c] = "claim" /\ c \notin stale
  /\ IF ~OrderFree(c, order[c]) \/ (note[c] = "paid" /\ (~RefFree(c) \/ RefUsed(c)))
       THEN Return(c, "duplicate")
       ELSE Goto(c, IF note[c] = "paid" THEN "window" ELSE "commit")
  /\ UNCHANGED <<clock, rows, audit, call, born, stale>>

(* A reference that is recorded already (P2002) is acknowledged.  Another  *)
(* code than success leaves the order PENDING.                             *)
Claim(c) ==
  /\ stage[c] = "claim" /\ OrderFree(c, order[c]) /\ c \notin stale
  /\ note[c] = "paid" => RefFree(c)
  /\ CASE note[c] = "paid" /\ RefUsed(c) -> Return(c, "ignored")
       [] note[c] = "paid" /\ ~RefUsed(c) -> Goto(c, "window")
       [] OTHER                           -> Goto(c, "commit")
  /\ UNCHANGED <<clock, rows, audit, call, born, stale>>

(* `now` is taken after the claim, later than the snapshot. *)
Window(c) ==
  /\ stage[c] = "window"
  /\ born' = [born EXCEPT ![c] = clock]
  /\ Goto(c, "commit")
  /\ UNCHANGED <<clock, rows, audit, call, stale>>

(* The result code of an order that is not paid.  Its answer may be lost.  *)
Record(c) ==
  /\ stage[c] = "commit" /\ note[c] = "unpaid"
  /\ stale' = StaleBy(c)
  /\ Return(c, "pending") \/ Return(c, "error")
  /\ UNCHANGED <<clock, rows, audit, call, born>>

(* Mutant: the row is not marked as PAID. *)
ActivateOnly(c) ==
  /\ stage[c] = "commit" /\ note[c] = "paid" /\ ~Crossed(c)
  /\ bank' = [bank EXCEPT ![order[c]] = ref[c]]
  /\ \E s \in Starts(c) : /\ from' = [from EXCEPT ![c] = s]
                          /\ to' = [to EXCEPT ![c] = s + PaidDays]
  /\ stale' = StaleBy(c)
  /\ Return(c, "activated") \/ Return(c, "error")
  /\ UNCHANGED <<clock, pay, audit, call, born>>

(* The order is PAID and its pass exists.  The answer may be lost. *)
Activate(c) ==
  /\ stage[c] = "commit" /\ note[c] = "paid" /\ ~Crossed(c)
  /\ pay' = [pay EXCEPT ![order[c]] = "PAID"]
  /\ bank' = [bank EXCEPT ![order[c]] = ref[c]]
  /\ \E s \in Starts(c) : /\ from' = [from EXCEPT ![c] = s]
                          /\ to' = [to EXCEPT ![c] = s + PaidDays]
  /\ stale' = StaleBy(c)
  /\ Return(c, "activated") \/ Return(c, "error")
  /\ UNCHANGED <<clock, audit, call, born>>

(* Locks on index pages may make passes of other users look crossed. *)
CommitConflict(c) ==
  /\ stage[c] = "commit" /\ note[c] = "paid"
  /\ Paid \ snap[c] # {}
  /\ Conflict(c)

(* grantByAdmin: look for an active pass, ... *)
BeginGrant(c, u, n) ==
  /\ stage[c] = "idle"
  /\ op' = [op EXCEPT ![c] = "grant"]
  /\ user' = [user EXCEPT ![c] = u]
  /\ days' = [days EXCEPT ![c] = n]
  /\ IF ActiveAt(u, clock) = {}
       THEN born' = [born EXCEPT ![c] = clock] /\ Goto(c, "create")
       ELSE Return(c, "refused") /\ UNCHANGED born
  /\ UNCHANGED <<clock, rows, audit, order, note, ref, stale>>

(* ... insert one from the same now, ... *)
Create(c) ==
  /\ stage[c] = "create"
  /\ from' = [from EXCEPT ![c] = born[c]]
  /\ to' = [to EXCEPT ![c] = born[c] + days[c]]
  /\ Goto(c, "audit")
  /\ UNCHANGED <<clock, pay, bank, audit, call, born, stale>>

(* ... and record it, if the audit log can be written. *)
Audit(c) ==
  /\ stage[c] = "audit"
  /\ audit' \in {audit, audit \cup {c}}
  /\ Return(c, "granted")
  /\ UNCHANGED <<clock, rows, call, born, stale>>

(* A lost connection, a transaction timeout or a stopped process. *)
Fail(c) ==
  /\ stage[c] \in InTransaction \cup {"create"}
  /\ Return(c, "error")
  /\ born' = [born EXCEPT ![c] = 0]
  /\ stale' = stale \ {c}
  /\ UNCHANGED <<clock, rows, audit, call>>

AllDone ==
  /\ \A c \in Call : stage[c] = "done"
  /\ UNCHANGED vars

Begin(c) ==
  \/ \E o \in Order, n \in Note, r \in Ref : BeginDelivery(c, o, n, r)
  \/ \E u \in User, n \in GrantDays : BeginGrant(c, u, n)

Step(c) ==
  \/ Read(c)
  \/ ClaimConflict(c)
  \/ Claim(c)
  \/ Window(c)
  \/ Record(c)
  \/ Activate(c)
  \/ CommitConflict(c)
  \/ Create(c)
  \/ Audit(c)

Next ==
  \/ Tick
  \/ \E o \in Order : Place(o) \/ Touch(o)
  \/ \E c \in Call : Begin(c) \/ Redeliver(c) \/ Step(c) \/ Fail(c)
  \/ AllDone

Spec == Init /\ [][Next]_vars

(* The server and the database keep running the calls they have taken, and *)
(* payOS keeps delivering what it got no success for.                      *)
FairSpec == Spec /\ \A c \in Call : WF_vars(Step(c)) /\ WF_vars(Redeliver(c))
-----------------------------------------------------------------------------
(* Properties. *)

ActivatedBy(o) == {c \in Paid : order[c] = o}

(* A paid order has one pass, made by one delivery of its payment, and an   *)
(* unpaid order has none; a bank reference pays for one order at most.      *)
(* Deliveries repeat, race and are run again after a conflict.              *)
PaidOnce ==
  /\ \A o \in Order :
       /\ pay[o] = "PAID" <=> ActivatedBy(o) # {}
       /\ pay[o] = "PAID" <=> bank[o] # None
       /\ \A c, d \in ActivatedBy(o) : c = d
       /\ \A c \in ActivatedBy(o) : note[c] = "paid" /\ bank[o] = ref[c]
  /\ \A o, p \in Order : bank[o] # None /\ bank[o] = bank[p] => o = p

(* Two orders of one user paid at the same moment extend each other: no     *)
(* paid day is sold twice.                                                  *)
PaidWindowsDisjoint ==
  \A c, d \in Paid :
    c # d /\ Holder(c) = Holder(d) => to[c] <= from[d] \/ to[d] <= from[c]

(* From the moment a pass is made to its end its user is eligible, although *)
(* it may start later: the passes it waits for leave no gap, whichever      *)
(* grants and payments came between the snapshot and the commit.            *)
NeverShutOut ==
  \A c \in Passes : \A t \in born[c] .. to[c] - 1 : ActiveAt(Holder(c), t) # {}

(* payOS stops delivering a payment once it is answered with success, so    *)
(* that answer is only given when the order is PAID, or when its reference  *)
(* has paid for another one.                                                *)
AcknowledgedIsActivated ==
  \A c \in Call :
    /\ op[c] = "deliver" /\ note[c] = "paid"
    /\ outcome[c] \in {"activated", "duplicate", "ignored"}
    => pay[order[c]] = "PAID" \/ RefUsed(c)

(* Why the above hold.  A webhook that has claimed its order still finds it *)
(* PENDING and its reference unused, nobody else claims them, ...           *)
LocksConsistent ==
  /\ \A c \in Call : HoldsOrder(c) => c \notin stale /\ pay[order[c]] = "PENDING"
  /\ \A c \in Call : HoldsRef(c) => ~RefUsed(c)
  /\ \A c, d \in Call :
       c # d /\ HoldsOrder(c) /\ HoldsOrder(d) => order[c] # order[d]
  /\ \A c, d \in Call :
       c # d /\ HoldsRef(c) /\ HoldsRef(d) => ref[c] # ref[d]

(* ... its snapshot is not from the future, and how far a call has come     *)
(* tells what it knows and has done.                                        *)
CallConsistent(c) ==
  /\ stage[c] = "idle" <=> op[c] = "none"
  /\ op[c] = "deliver" => order[c] # None /\ note[c] # "none" /\ ref[c] # None
  /\ op[c] = "deliver" /\ pay[order[c]] = "NONE" => note[c] = "mismatch"
  /\ op[c] = "grant" => user[c] # None /\ days[c] # 0
  /\ stage[c] \in InTransaction => op[c] = "deliver" /\ to[c] = 0
  /\ stage[c] \in {"create", "audit"} => op[c] = "grant"
  /\ stage[c] = "create" => to[c] = 0
  /\ stage[c] = "audit" => to[c] # 0
  /\ stage[c] # "done" => outcome[c] = "none"
  /\ stage[c] \in {"claim", "window", "commit"} => note[c] # "mismatch"
  /\ stage[c] = "window" => note[c] = "paid"
  /\ stage[c] = "claim" /\ c \notin stale => pay[order[c]] = "PENDING"
  /\ born[c] <= clock
  /\ snap[c] \subseteq Passes
  /\ stage[c] = "commit" /\ note[c] = "paid" =>
       \A d \in snap[c] : born[d] <= born[c]
  /\ to[c] # 0 => /\ stage[c] \in {"audit", "done"}
                  /\ born[c] <= from[c] /\ from[c] < to[c]
                  /\ op[c] # "none"
                  /\ op[c] = "deliver" => to[c] = from[c] + PaidDays
  /\ op[c] = "none" => to[c] = 0
  /\ c \in audit => to[c] # 0 /\ op[c] = "grant"

(* The inductive invariant. *)
Inv ==
  /\ TypeOK
  /\ LocksConsistent
  /\ \A c \in Call : CallConsistent(c)
  /\ PaidOnce
  /\ PaidWindowsDisjoint
  /\ NeverShutOut
  /\ AcknowledgedIsActivated

(* What grantByAdmin says of its check: a second grant is refused while a   *)
(* pass is active.                                                          *)
SecondGrantRefused ==
  \A c, d \in Passes :
    /\ c # d /\ op[c] = "grant" /\ op[d] = "grant"
    /\ Holder(c) = Holder(d)
    => to[c] <= from[d] \/ to[d] <= from[c]

(* A payment that payOS tells of is applied in the end, unless the server   *)
(* or the order's checkout never stops: conflicts, retries that run out and *)
(* lost answers only delay it.                                              *)
PaymentApplied ==
  <>[][(\A c \in Call : ~Fail(c)) /\ (\A o \in Order : ~Touch(o))]_vars =>
    \A c \in Call :
      (op[c] = "deliver" /\ note[c] = "paid")
        ~> ((\E o \in Order : order[c] = o /\ pay[o] = "PAID") \/ RefUsed(c))

(* The delivery that has activated an order. *)
StartOf(o) == IF ActivatedBy(o) = {} THEN None
                                     ELSE from[CHOOSE c \in ActivatedBy(o) : TRUE]

Ledger == INSTANCE PassLedger WITH
            Days <- PaidDays,
            start <- [o \in Order |-> StartOf(o)]

(* The webhooks implement the ledger: snapshots, conflicts, retries and     *)
(* repeated deliveries come down to one step for each paid order.           *)
ImplementsLedger == Ledger!Spec
=============================================================================
