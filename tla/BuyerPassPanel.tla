--------------------------- MODULE BuyerPassPanel ---------------------------
(***************************************************************************)
(* One browser tab of one signed-in buyer on the marketplace page:         *)
(* apps/web/src/components/buyer-pass-panel.tsx, with the eligibility that *)
(* marketplace-listings.tsx loads for it, on top of Checkout.  The tab     *)
(* keeps the key of a checkout it does not know the end of, and the order  *)
(* it has sent its user to pay, in sessionStorage; both outlive a page     *)
(* load.  No pass expires within the span of the model, the storage can be *)
(* written, and the session holds.                                         *)
(***************************************************************************)
EXTENDS Checkout

CONSTANT MaxPoll      \* MAX_POLL_ATTEMPTS

ASSUME PollAssumption == MaxPoll \in Nat \ {0}

VARIABLES
  ref,       \* checkoutKeyRef
  stored,    \* PENDING_CHECKOUT_KEY
  pending,   \* PENDING_PAYMENT_KEY
  poll,      \* PollState, or "away" once the page has gone to payOS
  attempts,
  starting,  \* the call the panel on screen waits for
  waiting,   \* the calls some panel of this page, on screen or gone, waits for
  load,      \* SubscriptionLoad
  answer,    \* what the server has read for a load that has not landed
  shown      \* the orders whose payment page the tab has opened

kept == <<stored, pending>>
panel == <<ref, poll, attempts, starting>>
subscription == <<load, answer>>
tab == <<kept, panel, subscription, waiting, shown>>
all == <<vars, tab>>

PanelTypeOK ==
  /\ TypeOK
  /\ {ref, stored, pending} \subseteq Key \cup {None}
  /\ poll \in {"idle", "polling", "paid", "failed", "unconfirmed", "away"}
  /\ attempts \in 0 .. MaxPoll - 1
  /\ starting \in waiting \cup {None} /\ waiting \subseteq Call
  /\ load \in {"loading", "no", "yes", "error"}
  /\ answer \in {"none", "no", "yes"}
  /\ shown \subseteq Key

TabInit ==
  /\ Init
  /\ ref = None /\ stored = None /\ pending = None
  /\ poll = "away" /\ attempts = 0 /\ starting = None /\ waiting = {}
  /\ load = "loading" /\ answer = "none"
  /\ shown = {}
-----------------------------------------------------------------------------
StartPoll(id) ==
  /\ poll' = IF id = None THEN "idle" ELSE "polling"
  /\ attempts' = 0

Refetch == load' = "loading" /\ answer' = "none"

(* A panel appears: the page is loaded, again or on the way back from      *)
(* payOS, or the user comes back to it within the application, where the   *)
(* calls of the panel that went are still waited for.                      *)
Mount ==
  /\ ref' = None /\ starting' = None
  /\ waiting' \in {{}, waiting}
  /\ StartPoll(pending)
  /\ Refetch
  /\ UNCHANGED <<vars, kept, shown>>

(* What a signed-in buyer is shown, and with it the one button: "retry" of *)
(* the load, "recheck" of the payment, or "checkout".                      *)
SignedInBody ==
  CASE poll \in {"polling", "away"} -> poll
    [] poll = "unconfirmed" -> "recheck"
    [] OTHER -> [error |-> "retry", yes |-> "active",
                 no |-> IF poll = "paid" THEN "applying" ELSE "checkout"][load]

(* Nothing but a skeleton while the pass is looked up. *)
Body == IF load = "loading" THEN "loading" ELSE SignedInBody

(* fetchSubscriptionState: read, then answered. *)
ReadSubscription ==
  /\ poll # "away" /\ load = "loading" /\ answer = "none"
  /\ answer' = IF \E k \in Key : status[k] = "PAID" THEN "yes" ELSE "no"
  /\ UNCHANGED <<vars, kept, panel, waiting, load, shown>>

LandSubscription ==
  /\ load = "loading" /\ answer # "none"
  /\ load' \in {answer, "error"}
  /\ answer' = "none"
  /\ UNCHANGED <<vars, kept, panel, waiting, shown>>

Retry ==
  /\ Body = "retry"
  /\ Refetch
  /\ UNCHANGED <<vars, kept, panel, waiting, shown>>

NewKey == CHOOSE k \in Key : \A c \in Call : key[c] # k
NewCall == CHOOSE c \in Call : stage[c] = "idle"

(* The key of this attempt: the panel's, else the stored one, else a new one. *)
CheckoutKey ==
  IF ref # None THEN ref ELSE IF stored # None THEN stored ELSE NewKey

(* onCheckout, as far as its request. *)
OnCheckout ==
  /\ Body = "checkout" /\ starting = None
  /\ \E c \in Call : stage[c] = "idle"
  /\ (ref = None /\ stored = None) => \E k \in Key : \A c \in Call : key[c] # k
  /\ Begin(NewCall, CheckoutKey)
  /\ ref' = CheckoutKey
  /\ stored' = IF ref = None THEN CheckoutKey ELSE stored
  /\ starting' = NewCall /\ waiting' = waiting \cup {NewCall}
  /\ UNCHANGED <<pending, poll, attempts, subscription, shown>>

(* The rest of onCheckout after an answer with a link: the page goes to it *)
(* and its own state is gone.                                              *)
Leave(c) ==
  /\ c \in waiting /\ stage[c] = "done" /\ outcome[c] = "url"
  /\ pending' = key[c]
  /\ stored' = None /\ ref' = None
  /\ poll' = "away" /\ starting' = None /\ waiting' = {}
  /\ shown' = shown \cup {key[c]}
  /\ attempts' = 0 /\ Refetch
  /\ UNCHANGED vars

(* Only an explicit rejection ends an attempt. *)
Forget(how) == how = "rejected"

(* The rest of it after an error: of the server, or of the network at any  *)
(* moment of the call.  A panel that is gone clears what is stored but not *)
(* the key that another panel holds.                                       *)
CheckoutFailed(c) ==
  /\ c \in waiting
  /\ \E how \in (IF stage[c] = "done" THEN {outcome[c]} \ {"url"} ELSE {}) \cup {"network"} :
       /\ stored' = IF Forget(how) THEN None ELSE stored
       /\ ref' = IF Forget(how) /\ c = starting THEN None ELSE ref
  /\ starting' = IF c = starting THEN None ELSE starting
  /\ waiting' = waiting \ {c}
  /\ UNCHANGED <<vars, pending, poll, attempts, subscription, shown>>

(* Mutant: the attempts are compared before they are counted. *)
ExhaustedLate == attempts >= MaxPoll

(* The attempts are counted within one run of the poll. *)
Exhausted == attempts + 1 >= MaxPoll

(* Mutant: a poll that gives up forgets the payment. *)
PollForgets ==
  /\ poll = "polling"
  /\ \/ /\ status[pending] \in {"PAID", "FAILED"}
        /\ poll' = [PAID |-> "paid", FAILED |-> "failed"][status[pending]]
        /\ pending' = None
        /\ IF status[pending] = "PAID" THEN Refetch ELSE UNCHANGED subscription
        /\ attempts' = 0
     \/ /\ attempts' = IF Exhausted THEN 0 ELSE attempts + 1
        /\ poll' = IF Exhausted THEN "unconfirmed" ELSE "polling"
        /\ pending' = IF Exhausted THEN None ELSE pending
        /\ UNCHANGED subscription
  /\ UNCHANGED <<vars, stored, ref, starting, waiting, shown>>

(* One tick of the poll: an error and PENDING count alike. *)
Poll ==
  /\ poll = "polling"
  /\ \/ /\ status[pending] \in {"PAID", "FAILED"}
        /\ poll' = [PAID |-> "paid", FAILED |-> "failed"][status[pending]]
        /\ pending' = None
        /\ IF status[pending] = "PAID" THEN Refetch ELSE UNCHANGED subscription
        /\ attempts' = 0
     \/ /\ attempts' = IF Exhausted THEN 0 ELSE attempts + 1
        /\ poll' = IF Exhausted THEN "unconfirmed" ELSE "polling"
        /\ UNCHANGED <<pending, subscription>>
  /\ UNCHANGED <<vars, stored, ref, starting, waiting, shown>>

(* The button of an unconfirmed payment. *)
Recheck ==
  /\ Body = "recheck"
  /\ StartPoll(pending)
  /\ UNCHANGED <<vars, kept, ref, starting, waiting, subscription, shown>>

Panel ==
  \/ Mount
  \/ ReadSubscription
  \/ LandSubscription
  \/ Retry
  \/ OnCheckout
  \/ \E c \in Call : Leave(c) \/ CheckoutFailed(c)
  \/ Poll
  \/ Recheck

(* The user pays what the tab has shown. *)
Server ==
  /\ World
  /\ \A k \in Key : link'[k] \in {"PAID", "CANCELLED"} => k \in shown
  /\ UNCHANGED tab

TabNext == Panel \/ Server

(* payOS repeats a notification until it is answered; everything else is   *)
(* up to the user and the network.                                         *)
TabFairness == \A k \in Key : WF_all(Notify(k) /\ UNCHANGED tab)

TabSpec == TabInit /\ [][TabNext]_all /\ TabFairness
-----------------------------------------------------------------------------
(* Properties. *)

(* However often the user clicks, reloads and comes back, the tab opens no *)
(* second payment page before the pass it has shown the first of expires.  *)
OnePaymentPage == \A j, k \in shown : j = k

(* The tab forgets a payment it has sent its user to only once the order   *)
(* is PAID: until then no button offers another checkout.                  *)
ShownIsRemembered ==
  \A k \in shown : status[k] # "PAID" => pending = k

(* After a payment page nothing is waited for, and until the payment is      *)
(* forgotten the panel polls it or offers to; then the pass is there.        *)
TabConsistent ==
  /\ shown \subseteq offered
  /\ pending \in shown \cup {None}
  /\ poll \in {"polling", "unconfirmed"} => pending # None
  /\ pending # None => poll \in {"polling", "unconfirmed", "away"}
  /\ shown # {} => /\ waiting = {}
                   /\ pending = None => load # "no" /\ answer # "no"

(* The inductive invariant. *)
Inv == PanelTypeOK /\ CheckoutInv /\ TabConsistent /\ OnePaymentPage /\ ShownIsRemembered
=============================================================================
