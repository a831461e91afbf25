------------------------------ MODULE Checkout ------------------------------
(***************************************************************************)
(* startCheckout of apps/api/src/payment/payment.service.ts and the calls  *)
(* to payOS it makes: one order for one idempotency key, although requests *)
(* with that key repeat, overlap, time out and meet a provider that may    *)
(* have accepted what it did not answer.                                   *)
(*                                                                         *)
(* An order is named after its key.  The clock counts steps of half a      *)
(* minute.  A call that has inserted the order, or has taken its lease, is *)
(* over within MaxLife (its request to payOS times out after 20 seconds),  *)
(* and payOS finds an order Lag after it accepted it; the lease is meant   *)
(* to be longer than both.  The webhook is one step here; Passes says how  *)
(* it comes about.                                                         *)
(***************************************************************************)
EXTENDS Integers

CONSTANTS
  Key,       \* idempotency keys
  Call,      \* POST /subscription-payments
  None,
  Lease,     \* the minute of claimStaleCheckout
  MaxLife,   \* how long a call works on an order it has inserted or leased
  Lag,       \* how long payOS may not find an order it has accepted
  MaxClock   \* bound of the clock

ASSUME NoneAssumption == None \notin Key \cup Call
ASSUME TimeAssumption == /\ {Lease, MaxLife, Lag, MaxClock} \subseteq Nat
                         /\ MaxLife + Lag <= Lease /\ MaxLife < Lease

VARIABLES
  clock,
  status,    \* SubscriptionPayment.status, "NONE" before the row exists
  url,       \* the orders whose providerCheckoutUrl is set
  touched,   \* SubscriptionPayment.updatedAt
  link,      \* payOS's payment link
  made,      \* when it was made
  told,      \* the paid links that payOS has got an answer about
  offered,   \* the orders whose link has been answered to a browser
  flying,    \* the calls whose request is on its way to payOS
  key,
  fresh,     \* the calls that have inserted their order
  since,     \* when a call has inserted or leased its order
  stage,
  outcome

order == <<status, url, touched>>
payos == <<link, made, told>>
vars == <<clock, order, payos, offered, flying, key, fresh, since, stage, outcome>>

Working == {"create", "await", "accepted", "rejected", "refuse", "save"}
Stage == Working \cup {"idle", "find", "insert", "recover", "recovered", "lease", "done"}
Outcome == {"none", "url", "rejected", "unavailable"}

TypeOK ==
  /\ clock \in 0 .. MaxClock
  /\ status \in [Key -> {"NONE", "PENDING", "PAID", "FAILED"}]
  /\ link \in [Key -> {"NONE", "PENDING", "PAID", "CANCELLED"}]
  /\ touched \in [Key -> Nat] /\ made \in [Key -> Nat] /\ since \in [Call -> Nat]
  /\ url \subseteq Key /\ told \subseteq Key /\ offered \subseteq Key
  /\ flying \subseteq Call /\ fresh \subseteq Call
  /\ key \in [Call -> Key \cup {None}]
  /\ stage \in [Call -> Stage]
  /\ outcome \in [Call -> Outcome]

Init ==
  /\ clock = 0
  /\ status = [k \in Key |-> "NONE"]
  /\ link = [k \in Key |-> "NONE"]
  /\ touched = [k \in Key |-> 0] /\ made = [k \in Key |-> 0]
  /\ url = {} /\ told = {} /\ offered = {}
  /\ flying = {} /\ fresh = {}
  /\ key = [c \in Call |-> None]
  /\ since = [c \in Call |-> 0]
  /\ stage = [c \in Call |-> "idle"]
  /\ outcome = [c \in Call |-> "none"]
-----------------------------------------------------------------------------
Goto(c, s) == stage' = [stage EXCEPT ![c] = s] /\ UNCHANGED <<outcome, fresh>>

Return(c, how) ==
  /\ stage' = [stage EXCEPT ![c] = "done"]
  /\ outcome' = [outcome EXCEPT ![c] = how]
  /\ fresh' = fresh \ {c}

Offer(c) == Return(c, "url") /\ offered' = offered \cup {key[c]}

Busy(c) == stage[c] \in Working \/ c \in flying

(* No work on an order outlives MaxLife. *)
Tick ==
  /\ clock < MaxClock
  /\ \A c \in Call : Busy(c) => clock < since[c] + MaxLife
  /\ clock' = clock + 1
  /\ UNCHANGED <<order, payos, offered, flying, key, fresh, since, stage, outcome>>

Begin(c, k) ==
  /\ stage[c] = "idle"
  /\ key' = [key EXCEPT ![c] = k]
  /\ Goto(c, "find")
  /\ UNCHANGED <<clock, order, payos, offered, flying, since>>

(* The order of the key, if there is one: its link, its rejection, or one  *)
(* that somebody is or was creating.                                       *)
Find(c) ==
  /\ stage[c] = "find"
  /\ \/ status[key[c]] = "NONE" /\ Goto(c, "insert") /\ UNCHANGED offered
     \/ status[key[c]] = "FAILED" /\ Return(c, "rejected") /\ UNCHANGED offered
     \/ /\ status[key[c]] \in {"PENDING", "PAID"}
        /\ IF key[c] \in url THEN Offer(c) ELSE Goto(c, "recover") /\ UNCHANGED offered
  /\ UNCHANGED <<clock, order, payos, flying, key, since>>

(* The unique key lets one insert through; the others look again. *)
Insert(c) ==
  /\ stage[c] = "insert"
  /\ IF status[key[c]] = "NONE"
       THEN /\ status' = [status EXCEPT ![key[c]] = "PENDING"]
            /\ touched' = [touched EXCEPT ![key[c]] = clock]
            /\ since' = [since EXCEPT ![c] = clock]
            /\ stage' = [stage EXCEPT ![c] = "create"]
            /\ fresh' = fresh \cup {c}
            /\ UNCHANGED outcome
       ELSE Goto(c, "find") /\ UNCHANGED <<status, touched, since>>
  /\ UNCHANGED <<clock, url, payos, offered, flying, key>>

(* What payOS may answer of an order: it may not find one it has accepted. *)
Missing(k) == link[k] = "NONE" \/ clock < made[k] + Lag

(* recoverPayosPayment, before the lease and after a rejected retry. *)
Recover(c) ==
  /\ stage[c] = "recover" \/ (stage[c] = "rejected" /\ c \notin fresh)
  /\ \/ link[key[c]] = "PENDING"
        /\ Goto(c, IF stage[c] = "recover" THEN "recovered" ELSE "save")
     \/ Missing(key[c]) /\ Goto(c, IF stage[c] = "recover" THEN "lease" ELSE "refuse")
     \/ link[key[c]] \in {"PAID", "CANCELLED"} /\ Return(c, "unavailable")
  /\ UNCHANGED <<clock, order, payos, offered, flying, key, since>>

(* Mutant: the lease is not looked at. *)
ExpiredAlways(k) == TRUE

Expired(k) == touched[k] + Lease <= clock

(* claimStaleCheckout: one retry at a time goes on to create the link. *)
Claim(c) ==
  /\ stage[c] = "lease"
  /\ IF status[key[c]] = "PENDING" /\ key[c] \notin url /\ Expired(key[c])
       THEN /\ touched' = [touched EXCEPT ![key[c]] = clock]
            /\ since' = [since EXCEPT ![c] = clock]
            /\ Goto(c, "create")
       ELSE Return(c, "unavailable") /\ UNCHANGED <<touched, since>>
  /\ UNCHANGED <<clock, status, url, payos, offered, flying, key>>

(* createPayosPayment sends its request. *)
Send(c) ==
  /\ stage[c] = "create"
  /\ flying' = flying \cup {c}
  /\ Goto(c, "await")
  /\ UNCHANGED <<clock, order, payos, offered, key, since>>

(* payOS makes one link for an order code, or refuses.  The caller may     *)
(* have stopped waiting.                                                   *)
Arrive(c) ==
  /\ c \in flying
  /\ flying' = flying \ {c}
  /\ \/ /\ link[key[c]] = "NONE"
        /\ link' = [link EXCEPT ![key[c]] = "PENDING"]
        /\ made' = [made EXCEPT ![key[c]] = clock]
        /\ IF stage[c] = "await" THEN Goto(c, "accepted") ELSE UNCHANGED <<stage, outcome, fresh>>
     \/ /\ IF stage[c] = "await" THEN Goto(c, "rejected") ELSE UNCHANGED <<stage, outcome, fresh>>
        /\ UNCHANGED <<link, made>>
  /\ UNCHANGED <<clock, order, told, offered, key, since>>

(* A request that never arrives. *)
Lose(c) ==
  /\ c \in flying
  /\ flying' = flying \ {c}
  /\ UNCHANGED <<clock, order, payos, offered, key, fresh, since, stage, outcome>>

(* The link is written and answered. *)
Save(c) ==
  /\ stage[c] \in {"accepted", "save", "recovered"}
  /\ url' = url \cup {key[c]}
  /\ touched' = [touched EXCEPT ![key[c]] = clock]
  /\ Offer(c)
  /\ UNCHANGED <<clock, status, payos, flying, key, since>>

(* Mutant: a rejected retry does not look whether its order was accepted. *)
RefuseAny(c) ==
  /\ stage[c] = "rejected"
  /\ status' = [status EXCEPT ![key[c]] = "FAILED"]
  /\ touched' = [touched EXCEPT ![key[c]] = clock]
  /\ Return(c, "rejected")
  /\ UNCHANGED <<clock, url, payos, offered, flying, key, since>>

(* An explicit rejection, written whatever the row has become. *)
Refuse(c) ==
  /\ stage[c] = "refuse" \/ (stage[c] = "rejected" /\ c \in fresh)
  /\ status' = [status EXCEPT ![key[c]] = "FAILED"]
  /\ touched' = [touched EXCEPT ![key[c]] = clock]
  /\ Return(c, "rejected")
  /\ UNCHANGED <<clock, url, payos, offered, flying, key, since>>

(* A timeout, an answer that cannot be trusted, or a fault of the server;  *)
(* a request that was sent stays on its way.                               *)
Fail(c) ==
  /\ stage[c] \notin {"idle", "done"}
  /\ Return(c, "unavailable")
  /\ UNCHANGED <<clock, order, payos, offered, flying, key, since>>

(* The payer, at payOS. *)
Pay(k) ==
  /\ k \in offered /\ link[k] = "PENDING"
  /\ link' \in {[link EXCEPT ![k] = s] : s \in {"PAID", "CANCELLED"}}
  /\ UNCHANGED <<clock, order, made, told, offered, flying, key, fresh, since,
                 stage, outcome>>

(* Mutant: a notification is acknowledged although its activation failed. *)
NotifySwallows(k) ==
  /\ link[k] = "PAID" /\ k \notin told
  /\ told' = told \cup {k}
  /\ status' \in {status, [status EXCEPT ![k] = "PAID"]}
  /\ touched' = [touched EXCEPT ![k] = clock]
  /\ UNCHANGED <<clock, url, link, made, offered, flying, key, fresh, since,
                 stage, outcome>>

(* The webhook: it activates an order that is PENDING and acknowledges the *)
(* others.                                                                 *)
Notify(k) ==
  /\ link[k] = "PAID" /\ k \notin told
  /\ told' = told \cup {k}
  /\ IF status[k] = "PENDING"
       THEN /\ status' = [status EXCEPT ![k] = "PAID"]
            /\ touched' = [touched EXCEPT ![k] = clock]
       ELSE UNCHANGED <<status, touched>>
  /\ UNCHANGED <<clock, url, link, made, offered, flying, key, fresh, since,
                 stage, outcome>>

Step(c) ==
  \/ Find(c)
  \/ Insert(c)
  \/ Recover(c)
  \/ Claim(c)
  \/ Send(c)
  \/ Save(c)
  \/ Refuse(c)
  \/ Fail(c)

World ==
  \/ Tick
  \/ \E c \in Call : Step(c) \/ Arrive(c) \/ Lose(c)
  \/ \E k \in Key : Pay(k) \/ Notify(k)

Next == World \/ \E c \in Call, k \in Key : Begin(c, k)

Spec == Init /\ [][Next]_vars
-----------------------------------------------------------------------------
(* Properties. *)

(* The lease lets one call at a time work on an order's link: no two        *)
(* requests with one key are at payOS together.                             *)
OneCreator ==
  \A c, d \in Call : c # d /\ Busy(c) /\ Busy(d) => key[c] # key[d]

(* The order that was refused is one that nobody was given a link to.       *)
RefusedUnoffered ==
  \A k \in Key : status[k] = "FAILED" => k \notin offered

(* What the row of an order tells of its link and its calls.                *)
OrderHolds(k) ==
  /\ touched[k] <= clock
  /\ k \in offered => k \in url
  /\ k \in url => link[k] # "NONE"
  /\ status[k] \in {"NONE", "FAILED"} =>
       link[k] = "NONE" /\ \A c \in Call : Busy(c) => key[c] # k
  /\ status[k] = "PAID" => link[k] = "PAID"
  /\ link[k] \in {"PAID", "CANCELLED"} => k \in offered
  /\ link[k] # "NONE" => made[k] <= touched[k] + MaxLife

(* How far a call has come tells what became of its order: its life ends    *)
(* before the lease does, and a link that was there when it took the lease  *)
(* is one that payOS finds.                                                 *)
CallHolds(c) ==
  /\ stage[c] # "idle" => key[c] \in Key
  /\ c \in flying => stage[c] \in {"await", "done"}
  /\ c \in fresh => stage[c] \in {"create", "await", "accepted", "rejected"}
  /\ Busy(c) => since[c] <= touched[key[c]] /\ clock <= since[c] + MaxLife
  /\ stage[c] \in {"create", "await", "rejected"} /\ link[key[c]] # "NONE" =>
       c \notin fresh /\ made[key[c]] + Lag <= since[c]
  /\ stage[c] = "refuse" => link[key[c]] = "NONE"
  /\ stage[c] \in {"recovered", "accepted", "save"} => link[key[c]] # "NONE"
  /\ outcome[c] = "url" => key[c] \in offered /\ stage[c] = "done"

OrderConsistent == \A k \in Key : OrderHolds(k)
CallConsistent == \A c \in Call : CallHolds(c)

CheckoutInv ==
  TypeOK /\ OrderConsistent /\ CallConsistent /\ OneCreator /\ RefusedUnoffered

(* Money that payOS has taken becomes a pass.                               *)
PaymentSettles ==
  \A k \in Key : link[k] = "PAID" ~> status[k] = "PAID"

StateOf(k) ==
  CASE status[k] = "NONE"   -> "none"
    [] status[k] = "FAILED" -> "refused"
    [] status[k] = "PAID"   -> "settled"
    [] OTHER -> IF link[k] = "PAID" THEN "charged" ELSE IF k \in offered THEN "offered" ELSE "open"

Sold == INSTANCE Sale WITH sale <- [k \in Key |-> StateOf(k)]

(* For each key one sale that never goes back, whatever is retried, times   *)
(* out or arrives late.                                                     *)
ImplementsSale == Sold!Spec
=============================================================================
