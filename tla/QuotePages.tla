----------------------------- MODULE QuotePages -----------------------------
(***************************************************************************)
(* The pages that quote and decide, on top of Quoting: the seller's list   *)
(* of apps/web/src/components/sell-scrap-view.tsx and the queue of         *)
(* apps/web/src/components/admin-quote-queue.tsx.  Loads are one step:     *)
(* what a page shows is what it once read, however long ago (see           *)
(* ContributionPage for loads that overtake each other).  A connection may *)
(* drop while a call goes on.                                              *)
(***************************************************************************)
EXTENDS Quoting

CONSTANT Admin          \* administrators, with a page each

VARIABLES
  view,       \* the seller's list: "loading", "error" or "ready"
  shown,      \* the activeQuote it shows of a request, if PENDING
  rowAction,  \* the decision that disables the buttons of a request
  waiting,    \* the calls some page waits for
  queue,      \* the requests an administrator is shown
  submitting, \* the quote that disables an administrator's form
  confirmed   \* history: the quote whose price an accept was confirmed for

seller == <<view, shown, rowAction, confirmed>>
admins == <<queue, submitting>>
pages == <<seller, waiting, admins>>
all == <<vars, pages>>

PagesTypeOK ==
  /\ TypeOK
  /\ view \in {"loading", "error", "ready"}
  /\ shown \in [Request -> Call \cup {None}]
  /\ rowAction \in [Request -> Call \cup {None}]
  /\ waiting \subseteq Call
  /\ queue \in [Admin -> SUBSET Request]
  /\ submitting \in [Admin -> [Request -> Call \cup {None}]]
  /\ confirmed \in [Call -> Call \cup {None}]

Nothing == [r \in Request |-> None]

PagesInit ==
  /\ Init
  /\ view = "loading" /\ shown = Nothing /\ rowAction = Nothing
  /\ waiting = {}
  /\ queue = [a \in Admin |-> {}]
  /\ submitting = [a \in Admin |-> Nothing]
  /\ confirmed = [c \in Call |-> None]
-----------------------------------------------------------------------------
(* The seller. *)

Load ==
  /\ view = "loading"
  /\ \/ view' = "ready" /\ shown' = [r \in Request |-> OfferOf(r)]
     \/ view' = "error" /\ UNCHANGED shown
  /\ UNCHANGED <<vars, rowAction, confirmed, waiting, admins>>

(* The page is loaded anew; it waits for nothing. *)
Mount ==
  /\ view' = "loading" /\ rowAction' = Nothing
  /\ waiting' = waiting \cap {c \in Call : op[c] = "quote"}
  /\ UNCHANGED <<vars, shown, confirmed, admins>>

(* The buttons of a request that shows a quote, disabled by the first click. *)
Offered(r) == view = "ready" /\ shown[r] # None /\ rowAction[r] = None

Decide(c, r, o) ==
  /\ Offered(r)
  /\ BeginDecision(c, r, o)
  /\ rowAction' = [rowAction EXCEPT ![r] = c]
  /\ waiting' = waiting \cup {c}
  /\ UNCHANGED <<view, shown, admins>>

(* The seller confirms the price that is shown. *)
OnAccept(c, r) ==
  /\ Decide(c, r, "accept")
  /\ confirmed' = [confirmed EXCEPT ![c] = shown[r]]

OnReject(c, r) == Decide(c, r, "reject") /\ UNCHANGED confirmed

(* After a success the list is loaded again, and the buttons stay as they  *)
(* are; after an error, or a dropped connection, they come back.           *)
Decided(c) ==
  /\ c \in waiting /\ op[c] \in Decision
  /\ \/ /\ stage[c] = "done" /\ outcome[c] = "ok"
        /\ view' = "loading" /\ UNCHANGED rowAction
     \/ /\ rowAction' = [rowAction EXCEPT ![req[c]] = None]
        /\ UNCHANGED view
  /\ waiting' = waiting \ {c}
  /\ UNCHANGED <<vars, shown, confirmed, admins>>
-----------------------------------------------------------------------------
(* The administrators. *)

(* The queue lists what is SUBMITTED. *)
LoadQueue(a) ==
  /\ queue' = [queue EXCEPT ![a] = {r \in Request : status[r] = "SUBMITTED"}]
  /\ submitting' = [submitting EXCEPT ![a] = Nothing]
  /\ UNCHANGED <<vars, seller, waiting>>

(* The form of a row, disabled while it waits. *)
FormOffered(a, r) == r \in queue[a] /\ submitting[a][r] = None

(* The form checks the price band before it sends. *)
InBand(p) == p \in MinPrice .. MaxPrice

OnQuote(a, c, r, p) ==
  /\ FormOffered(a, r) /\ InBand(p)
  /\ BeginQuote(c, r, p)
  /\ submitting' = [submitting EXCEPT ![a][r] = c]
  /\ waiting' = waiting \cup {c}
  /\ UNCHANGED <<seller, queue>>

(* An error gives the form back; a success empties the queue and loads it, *)
(* as does the success of a form that is gone (LoadQueue).                 *)
Quoted(a, c) ==
  /\ c \in waiting /\ op[c] = "quote" /\ submitting[a][req[c]] = c
  /\ \/ /\ stage[c] = "done" /\ outcome[c] = "ok"
        /\ queue' = [queue EXCEPT ![a] = {}]
        /\ submitting' = [submitting EXCEPT ![a] = Nothing]
     \/ submitting' = [submitting EXCEPT ![a][req[c]] = None] /\ UNCHANGED queue
  /\ waiting' = waiting \ {c}
  /\ UNCHANGED <<vars, seller>>

Pages ==
  \/ Load
  \/ Mount
  \/ \E c \in Call, r \in Request :
       \/ OnAccept(c, r)
       \/ OnReject(c, r)
       \/ \E a \in Admin, p \in Price : OnQuote(a, c, r, p)
  \/ \E c \in Call : Decided(c) \/ \E a \in Admin : Quoted(a, c)
  \/ \E a \in Admin : LoadQueue(a)

Server ==
  /\ \/ \E r \in Request : Submit(r)
     \/ \E c \in Call : Step(c) \/ Fail(c)
  /\ UNCHANGED pages

PagesSpec == PagesInit /\ [][Pages \/ Server]_all
-----------------------------------------------------------------------------
(* Properties. *)

(* "Confirm accepting quote {price}/kg?": a request is accepted at the      *)
(* price that the seller has confirmed.                                     *)
AcceptedAsConfirmed ==
  \A c \in Call :
    op[c] = "accept" /\ outcome[c] = "ok"
      => price[listing[req[c]]] = price[confirmed[c]]

(* What the code does promise: the quote that a seller confirmed is a quote *)
(* of that request, and the one it is sold for unless an administrator had  *)
(* replaced it; a quote that stands is never passed over.                   *)
ConfirmedOrReplaced ==
  \A c \in Call :
    op[c] = "accept" /\ outcome[c] = "ok" =>
      /\ confirmed[c] \in Call /\ req[confirmed[c]] = req[c]
      /\ listing[req[c]] = confirmed[c] \/ quote[confirmed[c]] = "SUPERSEDED"

(* The seller's page waits for one decision of a request at a time, however *)
(* often its buttons are clicked, its list is loaded and its answers are    *)
(* lost.                                                                    *)
OneDecisionWaiting ==
  \A c, d \in waiting :
    op[c] \in Decision /\ op[d] \in Decision /\ req[c] = req[d] => c = d

(* Why: what a page shows of a request is a quote of it, now or once, ...   *)
QuoteOf(q, r) == q \in Call /\ quote[q] # "NONE" /\ req[q] = r

(* ... and what it waits for has disabled the buttons it was sent with.     *)
PagesInv ==
  /\ Inv /\ PagesTypeOK
  /\ \A r \in Request : shown[r] # None => QuoteOf(shown[r], r)
  /\ \A c \in Call : op[c] = "accept" => QuoteOf(confirmed[c], req[c])
  /\ \A c \in waiting :
       /\ stage[c] # "idle"
       /\ op[c] \in Decision => rowAction[req[c]] = c
  /\ \A a \in Admin, r \in Request :
       LET c == submitting[a][r]
       IN c # None => stage[c] # "idle" /\ op[c] = "quote" /\ req[c] = r
=============================================================================
