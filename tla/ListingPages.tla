---------------------------- MODULE ListingPages ----------------------------
(***************************************************************************)
(* The pages that move listings, in apps/web/src/components, on top of     *)
(* Reservations: a buyer's market (marketplace-listings.tsx) and account   *)
(* page with orders and their details (account-dashboard.tsx and           *)
(* reservation-details.tsx), and an administrator's queue of reserved      *)
(* listings (admin-listing-queue.tsx).  Other buyers, other tabs and other *)
(* administrators call the same API.  A connection may drop at any moment  *)
(* of a request; what the server does with it goes on.  A list shows the   *)
(* rows of the moment its answer lands, and no later change; it comes in   *)
(* pages, by the age of the listings.                                      *)
(***************************************************************************)
EXTENDS Reservations, FiniteSets

CONSTANTS
  MaxLoad,   \* loads of one list that are on their way at once
  PageSize   \* PAGINATION_DEFAULT_LIMIT

VARIABLES
  market,      \* the listings shown, or how their load stands
  marketLoads, \* loads of the market on their way
  marketMore,  \* the listing whose next page the market waits for
  eligible,    \* what the market knows of the buyer's pass
  mine,        \* the reserve calls of this buyer
  waiting,     \* those that this tab waits for
  card,        \* the call that a listing's card is about
  failed,      \* the cards that show its error
  history,     \* the reservations on the account page, or how their load stands
  order,       \* the reservation whose details it shows
  queue,       \* the reservations in the administrator's queue
  queueLoads,  \* loads of the queue on their way
  queueMore,   \* the listing whose next page the queue waits for
  acting,      \* the administrator's calls that this page waits for
  row          \* the one that the row of a listing is submitting

marketPage == <<market, marketLoads, marketMore, eligible, mine, waiting, card, failed>>
accountPage == <<history, order>>
adminPage == <<queue, queueLoads, queueMore, acting, row>>
all == <<vars, marketPage, accountPage, adminPage>>

(* What the details of an order say: its status, which of the steps        *)
(* reserved, scheduled and completed it has reached, and the money.        *)
Summary(r) ==
  [status |-> reservation[r],
   step |-> CASE reservation[r] = "COMPLETED" -> 2
              [] reservation[r] # "COMPLETED" /\ planned[r] # None -> 1
              [] OTHER -> 0,
   received |-> settled[r]]

Unmounted == [l \in Listing |-> None]

(* The listings by createdAt and id, the newest first. *)
Age == CHOOSE f \in [Listing -> 1 .. Cardinality(Listing)] : \A k, l \in Listing : f[k] = f[l] => k = l

(* The first page of the listings after a cursor, and the cursor of the    *)
(* next one, if there are more.                                            *)
PageOf(listings, after) ==
  LET rest == {l \in listings : after = None \/ Age[l] > Age[after]}
      first == {l \in rest : Cardinality({k \in rest : Age[k] <= Age[l]}) <= PageSize}
  IN [is |-> "ready", rows |-> first,
      next |-> IF first = rest THEN None ELSE CHOOSE l \in first : \A k \in first : Age[k] <= Age[l]]

MarketTypeOK ==
  /\ market \in [is : {"left", "loading", "error"}] \cup [is : {"ready"}, rows : SUBSET Listing, next : Listing \cup {None}]
  /\ marketLoads \in 0 .. MaxLoad
  /\ marketMore \in Listing \cup {None}
  /\ eligible \in {"unknown", "error", "eligible", "not-eligible"}
  /\ waiting \subseteq mine /\ mine \subseteq Call
  /\ card \in [Listing -> Call \cup {None}]
  /\ failed \subseteq {l \in Listing : card[l] # None}

AccountTypeOK ==
  /\ history \in [is : {"left", "loading", "error"}] \cup [is : {"ready"}, rows : SUBSET mine]
  /\ order \in [is : {"none"}] \cup [is : {"loading", "error"}, id : Call]
                 \cup [is : {"ready"}, id : Call,
                     says : [status : ReservationStatus \ {"NONE"}, step : 0 .. 2,
                             received : Amount \cup {None}]]

AdminTypeOK ==
  /\ queue \in [is : {"loading", "error"}]
                 \cup [is : {"ready"}, rows : SUBSET Call, next : Listing \cup {None}]
  /\ queueLoads \in 0 .. MaxLoad
  /\ queueMore \in Listing \cup {None}
  /\ acting \subseteq Call
  /\ row \in [Listing -> acting \cup {None}]

PagesTypeOK == TypeOK /\ MarketTypeOK /\ AccountTypeOK /\ AdminTypeOK

PagesInit ==
  /\ Init
  /\ market = [is |-> "left"] /\ marketLoads = 0 /\ marketMore = None /\ eligible = "unknown"
  /\ mine = {} /\ waiting = {}
  /\ card = Unmounted /\ failed = {}
  /\ history = [is |-> "left"] /\ order = [is |-> "none"]
  /\ queue = [is |-> "loading"] /\ queueLoads = 1 /\ queueMore = None
  /\ acting = {} /\ row = Unmounted
-----------------------------------------------------------------------------
(* The market. *)

(* loadListings: the list goes away, and its cards with what they show. *)
LoadListings(onTheirWay) ==
  /\ onTheirWay < MaxLoad
  /\ market' = [is |-> "loading"]
  /\ marketLoads' = onTheirWay + 1
  /\ card' = Unmounted /\ failed' = {}

OpenMarket ==
  /\ LoadListings(0) /\ marketMore' = None
  /\ eligible' = "unknown"
  /\ history' = [is |-> "left"] /\ order' = [is |-> "none"]
  /\ UNCHANGED <<vars, mine, waiting, adminPage>>

(* Only AVAILABLE listings are on the market. *)
Available == {l \in Listing : listing[l] = "AVAILABLE"}

(* The cards of listings that stay are the same cards. *)
ListingsLoaded ==
  /\ marketLoads > 0 /\ market.is # "left"
  /\ \/ LET page == PageOf(Available, None) IN
          /\ market' = page
          /\ card' = [l \in Listing |-> IF l \in page.rows THEN card[l] ELSE None]
          /\ failed' = failed \cap page.rows
     \/ market' = [is |-> "error"] /\ card' = Unmounted /\ failed' = {}
  /\ marketLoads' = marketLoads - 1
  /\ UNCHANGED <<vars, marketMore, eligible, mine, waiting, accountPage, adminPage>>

OnMarket == IF market.is = "ready" THEN market.rows ELSE {}

(* The button under the list, disabled while it waits for a page. *)
MoreButton == market.is = "ready" /\ market.next # None /\ marketMore = None

LoadMore ==
  /\ MoreButton
  /\ marketMore' = market.next
  /\ UNCHANGED <<vars, market, marketLoads, eligible, mine, waiting, card, failed, accountPage, adminPage>>

(* The next page continues the list it was asked for, and no other. *)
MoreLoaded ==
  /\ marketMore # None
  /\ \/ /\ market.is = "ready" /\ market.next = marketMore
        /\ LET page == PageOf(Available, marketMore)
           IN market' = [page EXCEPT !.rows = @ \cup market.rows]
     \/ UNCHANGED market
  /\ marketMore' = None
  /\ UNCHANGED <<vars, marketLoads, eligible, mine, waiting, card, failed, accountPage, adminPage>>

(* The buyer's pass is looked up with the page, and again when the panel   *)
(* above the list has news of it.                                          *)
SubscriptionLoaded ==
  /\ market.is # "left" /\ eligible = "unknown"
  /\ eligible' \in {"error", "eligible", "not-eligible"}
  /\ UNCHANGED <<vars, market, marketLoads, marketMore, mine, waiting, card, failed, accountPage, adminPage>>

RefreshSubscription ==
  /\ market.is # "left" /\ eligible # "unknown"
  /\ eligible' = "unknown"
  /\ UNCHANGED <<vars, market, marketLoads, marketMore, mine, waiting, card, failed, accountPage, adminPage>>

(* The card's button is there for a buyer with a pass, unless the card is  *)
(* reserving.  (The buyer is signed in, and not the seller.)               *)
Offered(l) == l \in OnMarket /\ eligible = "eligible" /\ (card[l] = None \/ l \in failed)

OnReserve(l, c) ==
  /\ Offered(l)
  /\ BeginReserve(c, l)
  /\ mine' = mine \cup {c} /\ waiting' = waiting \cup {c}
  /\ card' = [card EXCEPT ![l] = c]
  /\ failed' = failed \ {l}
  /\ UNCHANGED <<market, marketLoads, marketMore, eligible, accountPage, adminPage>>

(* The account page replaces the market. *)
GoToAccount ==
  /\ market' = [is |-> "left"] /\ marketLoads' = 0 /\ marketMore' = None /\ eligible' = "unknown"
  /\ card' = Unmounted /\ failed' = {}
  /\ history' = [is |-> "loading"]

(* The rest of onReserve, whether its card is still there or not.  On      *)
(* success the tab goes to the order, ...                                  *)
Reserved(c) ==
  /\ c \in waiting /\ stage[c] = "done" /\ outcome[c] = "ok"
  /\ IF history.is = "left" THEN GoToAccount ELSE UNCHANGED <<market, marketLoads, marketMore, eligible, card, failed, history>>
  /\ order' = [is |-> "loading", id |-> c]
  /\ waiting' = waiting \ {c}
  /\ UNCHANGED <<vars, mine, adminPage>>

(* ... a 409 loads the list again, which takes the card and its message    *)
(* away before they are seen, ...                                          *)
Conflicted(c) ==
  /\ c \in waiting /\ stage[c] = "done" /\ outcome[c] \in {"refused", "duplicate"}
  /\ market.is # "left"
  /\ LoadListings(marketLoads)
  /\ waiting' = waiting \ {c}
  /\ UNCHANGED <<vars, marketMore, eligible, mine, accountPage, adminPage>>

(* ... and any other error, or a lost answer, stays on the card.           *)
NotReserved(c) ==
  /\ c \in waiting
  /\ failed' = failed \cup {l \in Listing : card[l] = c}
  /\ waiting' = waiting \ {c}
  /\ UNCHANGED <<vars, market, marketLoads, marketMore, eligible, mine, card, accountPage, adminPage>>
-----------------------------------------------------------------------------
(* The account page: its list is loaded when it is opened, an order's      *)
(* details when it is chosen and on demand.                                *)

OpenAccount ==
  /\ GoToAccount
  /\ order' = [is |-> "none"]
  /\ UNCHANGED <<vars, mine, waiting, adminPage>>

HistoryLoaded ==
  /\ history.is = "loading"
  /\ history' \in {[is |-> "ready", rows |-> {r \in mine : reservation[r] # "NONE"}],
                  [is |-> "error"]}
  /\ UNCHANGED <<vars, marketPage, order, adminPage>>

(* The orders that the page lists, each with a link to its details. *)
Orders == IF history.is = "ready" THEN history.rows ELSE {}

ViewOrder ==
  /\ order' \in {[is |-> "loading", id |-> r] : r \in Orders}
  /\ UNCHANGED <<vars, marketPage, history, adminPage>>

OrderLoaded ==
  /\ order.is = "loading"
  /\ \/ order' = [is |-> "ready", id |-> order.id, says |-> Summary(order.id)]
     \/ order' = [order EXCEPT !.is = "error"]
  /\ UNCHANGED <<vars, marketPage, history, adminPage>>

RefreshOrder ==
  /\ order.is \in {"ready", "error"}
  /\ order' = [is |-> "loading", id |-> order.id]
  /\ UNCHANGED <<vars, marketPage, history, adminPage>>
-----------------------------------------------------------------------------
(* The administrator's queue. *)

LoadQueue ==
  /\ queueLoads < MaxLoad
  /\ queue' = [is |-> "loading"]
  /\ queueLoads' = queueLoads + 1
  /\ row' = Unmounted

Refresh ==
  /\ queue.is # "loading"
  /\ LoadQueue
  /\ UNCHANGED <<vars, queueMore, acting, marketPage, accountPage>>

(* adminList of the RESERVED listings, each with its one RESERVED row. *)
Due(after) ==
  LET page == PageOf({l \in Listing : listing[l] = "RESERVED"}, after)
  IN [page EXCEPT !.rows = {r \in Call : reservation[r] = "RESERVED" /\ place[r] \in page.rows}]

(* A listing that stays keeps its row, whichever reservation it shows. *)
QueueLoaded ==
  /\ queueLoads > 0
  /\ \/ /\ queue' = Due(None)
        /\ row' = [l \in Listing |-> IF \E r \in Due(None).rows : place[r] = l THEN row[l] ELSE None]
     \/ queue' = [is |-> "error"] /\ row' = Unmounted
  /\ queueLoads' = queueLoads - 1
  /\ UNCHANGED <<vars, queueMore, acting, marketPage, accountPage>>

QueueMoreButton == queue.is = "ready" /\ queue.next # None /\ queueMore = None

LoadMoreQueue ==
  /\ QueueMoreButton
  /\ queueMore' = queue.next
  /\ UNCHANGED <<vars, queue, queueLoads, acting, row, marketPage, accountPage>>

MoreQueueLoaded ==
  /\ queueMore # None
  /\ \/ /\ queue.is = "ready" /\ queue.next = queueMore
        /\ queue' = [Due(queueMore) EXCEPT !.rows = @ \cup queue.rows]
     \/ UNCHANGED queue
  /\ queueMore' = None
  /\ UNCHANGED <<vars, queueLoads, acting, row, marketPage, accountPage>>

Queued == IF queue.is = "ready" THEN queue.rows ELSE {}

(* A row's three forms are disabled while one of them is submitted. *)
RowOffered(r) == r \in Queued /\ row[place[r]] = None

(* One of the forms, about the reservation that the row shows. *)
OnAction(r, c) ==
  /\ RowOffered(r)
  /\ \/ BeginSchedule(c, r)
     \/ \E o \in Finish, a \in Amount : BeginFinish(c, r, o, a)
  /\ row' = [row EXCEPT ![place[r]] = c]
  /\ acting' = acting \cup {c}
  /\ UNCHANGED <<queue, queueLoads, queueMore, marketPage, accountPage>>

(* A success loads the queue again, whether or not its row is still there; *)
(* an error, or a lost answer, leaves its row ready for another try.       *)
ActionAnswered(c) ==
  /\ c \in acting
  /\ \/ stage[c] = "done" /\ outcome[c] = "ok" /\ LoadQueue
     \/ /\ row' = [l \in Listing |-> IF row[l] = c THEN None ELSE row[l]]
        /\ UNCHANGED <<queue, queueLoads>>
  /\ acting' = acting \ {c}
  /\ UNCHANGED <<vars, queueMore, marketPage, accountPage>>
-----------------------------------------------------------------------------
Buyer ==
  \/ OpenMarket
  \/ ListingsLoaded
  \/ LoadMore
  \/ MoreLoaded
  \/ SubscriptionLoaded
  \/ RefreshSubscription
  \/ \E l \in Listing, c \in Call : OnReserve(l, c)
  \/ \E c \in Call : Reserved(c) \/ Conflicted(c) \/ NotReserved(c)
  \/ OpenAccount
  \/ HistoryLoaded
  \/ ViewOrder
  \/ OrderLoaded
  \/ RefreshOrder

Admin ==
  \/ Refresh
  \/ QueueLoaded
  \/ LoadMoreQueue
  \/ MoreQueueLoaded
  \/ \E r, c \in Call : OnAction(r, c)
  \/ \E c \in Call : ActionAnswered(c)

PagesNext ==
  \/ Buyer
  \/ Admin
  \/ Next /\ UNCHANGED <<marketPage, accountPage, adminPage>>

PagesSpec == PagesInit /\ [][PagesNext]_all
-----------------------------------------------------------------------------
(* Properties. *)

(* What the browser test of this flow guards against (marketplace.spec.ts: *)
(* "a bug ... where the reservation succeeded while the row showed an      *)
(* error"): a card that shows an error tells the buyer that the            *)
(* reservation was not made.                                               *)
ErrorMeansNotReserved ==
  \A l \in failed : reservation[card[l]] # "RESERVED"

(* The buyer is led to orders of their own, and an answer that is old only  *)
(* withholds: money is shown exactly with a completed order, and an order   *)
(* that is shown as closed is closed for good, with that money.             *)
OrderTruthful ==
  order.is = "ready" =>
    LET says == order.says
    IN /\ order.id \in mine
       /\ says.received # None <=> says.status = "COMPLETED"
       /\ says.status = "COMPLETED" => says.step = 2
       /\ says.status # "RESERVED" =>
            reservation[order.id] = says.status /\ settled[order.id] = says.received

(* Why: money comes with completion, and what a page lists was reserved, by *)
(* this buyer where it says so, whatever has become of it.                  *)
MoneyWithCompletion == \A r \in Call : settled[r] # None => reservation[r] = "COMPLETED"

ListedWasReserved ==
  /\ \A c \in mine : op[c] = "reserve"
  /\ \A r \in Orders \cup Queued : reservation[r] # "NONE"
  /\ order.is # "none" => order.id \in mine /\ reservation[order.id] # "NONE"

(* The inductive invariant of the pages. *)
PagesInv ==
  /\ Inv /\ PagesTypeOK
  /\ MoneyWithCompletion
  /\ ListedWasReserved
  /\ OrderTruthful
=============================================================================
