------------------------------ MODULE Quoting ------------------------------
(***************************************************************************)
(* Scrap requests and their quotes: apps/api/src/marketplace/              *)
(* scrap-request.service.ts on PostgreSQL.                                 *)
(*                                                                         *)
(* A seller submits a scrap request backed by one photo, an administrator  *)
(* quotes a price, possibly several times, and the seller accepts or       *)
(* rejects the quote that is pending.  Each HTTP call runs one transaction *)
(* at READ COMMITTED.  Every UPDATE of the code is two steps here, because *)
(* PostgreSQL runs it as two: the WHERE clause selects rows in a snapshot  *)
(* (Find), then each row is locked, waiting for its current writer, and    *)
(* the WHERE clause is evaluated again on the row's newest version (Lock). *)
(* Writes stay private until the commit, so a call keeps only its locks    *)
(* until then and status, quote and listing are the committed rows.        *)
(*                                                                         *)
(* accept and reject write the request row and then the quote row; an      *)
(* administrator's quote writes the quote row first.  Two calls can        *)
(* therefore wait for each other, and the database aborts one of them.     *)
(***************************************************************************)
EXTENDS Integers

CONSTANTS
  Request,    \* scrap requests, each named by the photo that backs it
  Call,       \* HTTP calls; a quote row is named by the call that created it
  None,       \* no row
  Price,      \* the prices an administrator may type
  MinPrice,   \* the published band of the category
  MaxPrice

ASSUME NoneAssumption == None \notin Call \cup Request \cup Price
ASSUME BandAssumption == /\ MinPrice \in Int /\ MaxPrice \in Int
                         /\ Price \subseteq Int

VARIABLES
  status,     \* ScrapRequest.status, "NONE" before the row exists
  quote,      \* Quote.status, "NONE" before the row exists
  listing,    \* MarketplaceListing.quoteId of a request's listing, or None
  audit,      \* audit log entries <<call, action>>
  op,         \* what a call does
  req,        \* the request in its path
  price,      \* the price in its body
  stage,      \* the statement a call is at
  target,     \* the quote row its UPDATE selected
  held,       \* the quote row it wrote and keeps locked
  outcome     \* how its transaction ended

rows == <<status, quote, listing>>
call == <<op, req, price>>
vars == <<status, quote, listing, audit, op, req, price, stage, target,
          held, outcome>>

RequestStatus == {"NONE", "SUBMITTED", "QUOTED", "ACCEPTED", "REJECTED"}
QuoteStatus == {"NONE", "PENDING", "ACCEPTED", "REJECTED", "SUPERSEDED"}
Quotable == {"SUBMITTED", "QUOTED"}
Decision == {"accept", "reject"}

InTransaction == {"findRequest", "lockRequest", "findQuote", "lockQuote",
                  "insert", "commit"}
Stage == InTransaction \cup {"idle", "audit", "done"}
Outcome == {"none", "ok", "refused", "noQuote", "error"}

TypeOK ==
  /\ status \in [Request -> RequestStatus]
  /\ quote \in [Call -> QuoteStatus]
  /\ listing \in [Request -> Call \cup {None}]
  /\ audit \subseteq Call \X {"quote.accept", "listing.create",
                              "quote.reject", "quote.create"}
  /\ op \in [Call -> Decision \cup {"none", "quote"}]
  /\ req \in [Call -> Request \cup {None}]
  /\ price \in [Call -> Price \cup {None}]
  /\ stage \in [Call -> Stage]
  /\ target \in [Call -> Call \cup {None}]
  /\ held \in [Call -> Call \cup {None}]
  /\ outcome \in [Call -> Outcome]

Init ==
  /\ status = [r \in Request |-> "NONE"]
  /\ quote = [q \in Call |-> "NONE"]
  /\ listing = [r \in Request |-> None]
  /\ audit = {}
  /\ op = [c \in Call |-> "none"]
  /\ req = [c \in Call |-> None]
  /\ price = [c \in Call |-> None]
  /\ stage = [c \in Call |-> "idle"]
  /\ target = [c \in Call |-> None]
  /\ held = [c \in Call |-> None]
  /\ outcome = [c \in Call |-> "none"]
-----------------------------------------------------------------------------
(* The committed rows and the locks on them. *)

PendingOf(r) == {q \in Call : quote[q] = "PENDING" /\ req[q] = r}

(* The request row is locked from the UPDATE that wrote it to the commit. *)
HoldsRequest(c) ==
  IF op[c] = "quote" THEN stage[c] = "insert"
                     ELSE stage[c] \in {"findQuote", "lockQuote", "commit"}

RequestFree(c) == \A d \in Call \ {c} : HoldsRequest(d) => req[d] # req[c]
QuoteFree(c, q) == \A d \in Call \ {c} : held[d] # q

(* The rows the partial unique index on PENDING sees beside call c's own. *)
Clash(c) == PendingOf(req[c]) \ {held[c]}

(* Mutant: adminQuote's UPDATE of the request forgets its status guard. *)
FromAny(o) == IF o = "quote" THEN RequestStatus ELSE {"QUOTED"}

(* The status a call's UPDATE of the request row asks for. *)
From(o) == IF o = "quote" THEN Quotable ELSE {"QUOTED"}

(* Call c waits for a row that call d has locked. *)
WaitsFor(c, d) ==
  /\ c # d
  /\ \/ /\ stage[c] = "lockRequest"
        /\ HoldsRequest(d)
        /\ req[d] = req[c]
     \/ stage[c] = "lockQuote" /\ held[d] = target[c]
     \/ stage[c] = "insert" /\ held[d] \in Clash(c)
-----------------------------------------------------------------------------
(* The steps of a call. *)

(* Mutant: reject ignores the counts of its updates and answers success. *)
RollbackUnchecked(c, how) ==
  /\ stage' = [stage EXCEPT ![c] = "done"]
  /\ target' = [target EXCEPT ![c] = None]
  /\ held' = [held EXCEPT ![c] = None]
  /\ outcome' = [outcome EXCEPT ![c] = IF op[c] = "reject" /\ how # "error"
                                         THEN "ok" ELSE how]

(* A call that answers without a commit rolls back and frees its locks. *)
Rollback(c, how) ==
  /\ stage' = [stage EXCEPT ![c] = "done"]
  /\ target' = [target EXCEPT ![c] = None]
  /\ held' = [held EXCEPT ![c] = None]
  /\ outcome' = [outcome EXCEPT ![c] = how]

Goto(c, s) ==
  /\ stage' = [stage EXCEPT ![c] = s]
  /\ UNCHANGED <<target, held, outcome>>

Committed(c) ==
  /\ stage' = [stage EXCEPT ![c] = "audit"]
  /\ target' = [target EXCEPT ![c] = None]
  /\ held' = [held EXCEPT ![c] = None]
  /\ outcome' = [outcome EXCEPT ![c] = "ok"]

(* submit: one INSERT, and the unique photo admits one request per photo. *)
Submit(r) ==
  /\ status[r] = "NONE"
  /\ status' = [status EXCEPT ![r] = "SUBMITTED"]
  /\ UNCHANGED <<quote, listing, audit, call, stage, target, held, outcome>>

(* accept and reject read the request outside the transaction (findOwned). *)
BeginDecision(c, r, o) ==
  /\ stage[c] = "idle"
  /\ status[r] # "NONE"
  /\ op' = [op EXCEPT ![c] = o]
  /\ req' = [req EXCEPT ![c] = r]
  /\ Goto(c, "findRequest")
  /\ UNCHANGED <<rows, audit, price>>

(* adminQuote reads the request and checks its status and the price band   *)
(* outside the transaction.                                                *)
BeginQuote(c, r, p) ==
  /\ stage[c] = "idle"
  /\ status[r] # "NONE"
  /\ op' = [op EXCEPT ![c] = "quote"]
  /\ req' = [req EXCEPT ![c] = r]
  /\ price' = [price EXCEPT ![c] = p]
  /\ IF status[r] \in Quotable /\ p \in MinPrice .. MaxPrice
       THEN Goto(c, "findQuote")
       ELSE Rollback(c, "refused")
  /\ UNCHANGED <<rows, audit>>

(* updateMany on ScrapRequest: select by id and status, ... *)
FindRequest(c) ==
  /\ stage[c] = "findRequest"
  /\ IF status[req[c]] \in From(op[c])
       THEN Goto(c, "lockRequest")
       ELSE Rollback(c, "refused")
  /\ UNCHANGED <<rows, audit, call>>

(* ... then lock the row and look at its status again. *)
LockRequest(c) ==
  /\ stage[c] = "lockRequest"
  /\ RequestFree(c)
  /\ IF status[req[c]] \in From(op[c])
       THEN Goto(c, IF op[c] = "quote" THEN "insert" ELSE "findQuote")
       ELSE Rollback(c, "refused")
  /\ UNCHANGED <<rows, audit, call>>

(* Mutant: adminQuote looks again until there is a quote to supersede. *)
RetryNoQuote(c) ==
  IF op[c] = "quote" THEN Goto(c, "findQuote") ELSE Rollback(c, "noQuote")

(* An UPDATE of the PENDING quote that hit no row.  adminQuote ignores the *)
(* count; a decision answers QUOTE_NOT_PENDING.                            *)
NoQuoteUpdated(c) ==
  IF op[c] = "quote"
    THEN /\ stage' = [stage EXCEPT ![c] = "findRequest"]
         /\ target' = [target EXCEPT ![c] = None]
         /\ UNCHANGED <<held, outcome>>
    ELSE Rollback(c, "noQuote")

(* updateMany on Quote: select the request's PENDING rows, ... *)
FindQuote(c) ==
  /\ stage[c] = "findQuote"
  /\ \/ /\ PendingOf(req[c]) = {}
        /\ NoQuoteUpdated(c)
     \/ \E q \in PendingOf(req[c]) :
          /\ target' = [target EXCEPT ![c] = q]
          /\ stage' = [stage EXCEPT ![c] = "lockQuote"]
          /\ UNCHANGED <<held, outcome>>
  /\ UNCHANGED <<rows, audit, call>>

(* ... then lock the row, which must still be PENDING. *)
LockQuote(c) ==
  /\ stage[c] = "lockQuote"
  /\ QuoteFree(c, target[c])
  /\ IF quote[target[c]] = "PENDING"
       THEN /\ held' = [held EXCEPT ![c] = target[c]]
            /\ target' = [target EXCEPT ![c] = None]
            /\ stage' = [stage EXCEPT ![c] = IF op[c] = "quote"
                                               THEN "findRequest"
                                               ELSE "commit"]
            /\ UNCHANGED outcome
       ELSE NoQuoteUpdated(c)
  /\ UNCHANGED <<rows, audit, call>>

(* accept: read the accepted quote, insert the listing, commit. *)
Accept(c) ==
  /\ stage[c] = "commit" /\ op[c] = "accept"
  /\ status' = [status EXCEPT ![req[c]] = "ACCEPTED"]
  /\ quote' = [quote EXCEPT ![held[c]] = "ACCEPTED"]
  /\ listing' = [listing EXCEPT ![req[c]] = held[c]]
  /\ Committed(c)
  /\ UNCHANGED <<audit, call>>

(* reject: commit. *)
Reject(c) ==
  /\ stage[c] = "commit" /\ op[c] = "reject"
  /\ status' = [status EXCEPT ![req[c]] = "REJECTED"]
  /\ quote' = [quote EXCEPT ![held[c]] = "REJECTED"]
  /\ Committed(c)
  /\ UNCHANGED <<listing, audit, call>>

(* Mutant: without the partial unique index. *)
PublishUnchecked(c) ==
  /\ stage[c] = "insert"
  /\ status' = [status EXCEPT ![req[c]] = "QUOTED"]
  /\ quote' = [q \in Call |-> IF q = c THEN "PENDING"
                              ELSE IF q = held[c] THEN "SUPERSEDED"
                              ELSE quote[q]]
  /\ Committed(c)
  /\ UNCHANGED <<listing, audit, call>>

(* Mutant: the uniqueness conflict is swallowed and audited as a quote. *)
PublishAuditsConflict(c) ==
  /\ stage[c] = "insert"
  /\ \A q \in Clash(c) : QuoteFree(c, q)
  /\ IF Clash(c) = {}
       THEN /\ status' = [status EXCEPT ![req[c]] = "QUOTED"]
            /\ quote' = [q \in Call |-> IF q = c THEN "PENDING"
                                        ELSE IF q = held[c] THEN "SUPERSEDED"
                                        ELSE quote[q]]
       ELSE UNCHANGED <<status, quote>>
  /\ Committed(c)
  /\ UNCHANGED <<listing, audit, call>>

(* adminQuote: insert the new PENDING row and commit.  The insert waits    *)
(* for a call that is changing a clashing row, and then fails on a row     *)
(* that is still PENDING (PENDING_QUOTE_EXISTS).                           *)
Publish(c) ==
  /\ stage[c] = "insert"
  /\ \A q \in Clash(c) : QuoteFree(c, q)
  /\ IF Clash(c) = {}
       THEN /\ status' = [status EXCEPT ![req[c]] = "QUOTED"]
            /\ quote' = [q \in Call |-> IF q = c THEN "PENDING"
                                        ELSE IF q = held[c] THEN "SUPERSEDED"
                                        ELSE quote[q]]
            /\ Committed(c)
       ELSE Rollback(c, "refused") /\ UNCHANGED <<status, quote>>
  /\ UNCHANGED <<listing, audit, call>>

(* The audit records are written after the commit.  AuditService.record    *)
(* swallows its errors and the process may stop between two of them.       *)
Records(o) ==
  CASE o = "accept" -> {"quote.accept", "listing.create"}
    [] o = "reject" -> {"quote.reject"}
    [] OTHER        -> {"quote.create"}

Audit(c) ==
  /\ stage[c] = "audit"
  /\ \E S \in SUBSET Records(op[c]) : audit' = audit \cup ({c} \X S)
  /\ stage' = [stage EXCEPT ![c] = "done"]
  /\ UNCHANGED <<rows, call, target, held, outcome>>

(* PostgreSQL aborts one of two transactions that wait for each other.     *)
(* Only two rows of a request are ever waited for, its own and its PENDING *)
(* quote's, so longer cycles cannot form.                                  *)
DeadlockVictim(c) ==
  /\ \E d \in Call : WaitsFor(c, d) /\ WaitsFor(d, c)
  /\ Rollback(c, "error")
  /\ UNCHANGED <<rows, audit, call>>

(* A lost connection, a transaction timeout or a stopped process. *)
Fail(c) ==
  /\ stage[c] \in InTransaction
  /\ Rollback(c, "error")
  /\ UNCHANGED <<rows, audit, call>>

AllDone == (\A c \in Call : stage[c] = "done") /\ UNCHANGED vars

Begin(c) ==
  \E r \in Request :
    \/ \E o \in Decision : BeginDecision(c, r, o)
    \/ \E p \in Price : BeginQuote(c, r, p)

Step(c) ==
  \/ FindRequest(c)
  \/ LockRequest(c)
  \/ FindQuote(c)
  \/ LockQuote(c)
  \/ Accept(c)
  \/ Reject(c)
  \/ Publish(c)
  \/ Audit(c)
  \/ DeadlockVictim(c)

Next ==
  \/ \E r \in Request : Submit(r)
  \/ \E c \in Call : Begin(c) \/ Step(c) \/ Fail(c)
  \/ AllDone

Spec == Init /\ [][Next]_vars

(* The server and the database keep running the calls they have taken;     *)
(* nobody has to submit, to call or to fail.                               *)
FairSpec == Spec /\ \A c \in Call : WF_vars(Step(c))
-----------------------------------------------------------------------------
(* Properties. *)

QuotesOf(r, S) == {q \in Call : req[q] = r /\ quote[q] \in S}

(* The request row, its quotes and its listing agree whenever no            *)
(* transaction is half done: one PENDING quote exactly while the request    *)
(* is QUOTED, one ACCEPTED quote exactly when it is ACCEPTED, and then the  *)
(* listing carries that quote, whose price lies in the published band.      *)
(* accept, reject and adminQuote each write two or three of these rows.     *)
BookConsistent ==
  \A r \in Request :
    /\ \A p, q \in QuotesOf(r, {"PENDING", "ACCEPTED"}) : p = q
    /\ status[r] = "QUOTED" <=> PendingOf(r) # {}
    /\ status[r] = "ACCEPTED" <=> QuotesOf(r, {"ACCEPTED"}) # {}
    /\ status[r] = "REJECTED" <=> QuotesOf(r, {"REJECTED"}) # {}
    /\ status[r] = "ACCEPTED" <=> listing[r] # None
    /\ \A q \in QuotesOf(r, {"ACCEPTED"}) :
         listing[r] = q /\ price[q] \in MinPrice .. MaxPrice

(* The branch of accept and reject that answers QUOTE_NOT_PENDING is dead:  *)
(* once a decision holds a QUOTED request, its quote cannot go away, even   *)
(* when an administrator is superseding it.                                 *)
QuotePendingAtDecision == \A c \in Call : outcome[c] # "noQuote"

(* Of all the accepts and rejects of one request, one at most succeeds, in  *)
(* whatever order the calls, the quotes and the aborts fall.                *)
SoleDecision ==
  \A c, d \in Call :
    /\ op[c] \in Decision /\ op[d] \in Decision
    /\ req[c] = req[d]
    /\ outcome[c] = "ok" /\ outcome[d] = "ok"
    => c = d

(* The audit log may miss an entry but never tells of a decision or a       *)
(* quote that was rolled back.                                              *)
AuditTruthful ==
  \A c \in Call :
    /\ <<c, "quote.accept">> \in audit \/ <<c, "listing.create">> \in audit
         => listing[req[c]] # None
    /\ <<c, "quote.reject">> \in audit => status[req[c]] = "REJECTED"
    /\ <<c, "quote.create">> \in audit => quote[c] # "NONE"

(* Why the above hold.  A row that a call has locked is still what the call *)
(* found when it locked it, no two calls lock the same row, ...             *)
LocksConsistent ==
  /\ \A c \in Call : HoldsRequest(c) => status[req[c]] \in From(op[c])
  /\ \A c, d \in Call :
       c # d /\ HoldsRequest(c) /\ HoldsRequest(d) => req[c] # req[d]
  /\ \A c \in Call :
       held[c] # None => quote[held[c]] = "PENDING" /\ req[held[c]] = req[c]
  /\ \A c, d \in Call : c # d /\ held[c] # None => held[c] # held[d]

(* ... and how far a call has come tells what it holds and what it has done. *)
CallConsistent(c) ==
  /\ stage[c] = "idle" => op[c] = "none" /\ req[c] = None
  /\ stage[c] # "idle" => op[c] # "none" /\ req[c] \in Request
  /\ stage[c] = "insert" => op[c] = "quote"
  /\ stage[c] = "commit" => op[c] \in Decision /\ held[c] # None
  /\ held[c] # None => stage[c] \in IF op[c] = "quote"
                                      THEN {"findRequest", "lockRequest", "insert"}
                                      ELSE {"commit"}
  /\ stage[c] = "lockQuote" =>
       /\ target[c] # None
       /\ req[target[c]] = req[c]
       /\ op[c] \in Decision => quote[target[c]] = "PENDING"
  /\ stage[c] \in InTransaction /\ op[c] = "quote" =>
       price[c] \in MinPrice .. MaxPrice
  /\ quote[c] # "NONE" => /\ op[c] = "quote" /\ outcome[c] = "ok"
                           /\ price[c] \in MinPrice .. MaxPrice
  /\ outcome[c] = "ok" =>
       /\ stage[c] \in {"audit", "done"}
       /\ op[c] = "accept" => status[req[c]] = "ACCEPTED"
       /\ op[c] = "reject" => status[req[c]] = "REJECTED"
       /\ op[c] = "quote"  => quote[c] # "NONE"
  /\ stage[c] = "audit" => outcome[c] = "ok"
  /\ \A e \in audit : e[1] = c => outcome[c] = "ok" /\ e[2] \in Records(op[c])

(* The inductive invariant. *)
Inv ==
  /\ TypeOK
  /\ LocksConsistent
  /\ \A c \in Call : CallConsistent(c)
  /\ BookConsistent
  /\ QuotePendingAtDecision
  /\ SoleDecision

(* Every call is answered: a deadlock between a decision and a new quote    *)
(* never leaves both hanging.                                               *)
EveryCallAnswered ==
  \A c \in Call : stage[c] # "idle" ~> stage[c] = "done"

(* The PENDING quote of a request. *)
OfferOf(r) == IF PendingOf(r) = {} THEN None
                                   ELSE CHOOSE q \in PendingOf(r) : TRUE

Book == INSTANCE QuoteBook WITH
          Quote <- Call,
          offer <- [r \in Request |-> OfferOf(r)],
          sold <- listing,
          past <- {q \in Call : quote[q] # "NONE"}

(* The rows implement the abstract quote book: what accept, reject and      *)
(* adminQuote do in several statements, it does in one step.                *)
ImplementsBook == Book!Spec
=============================================================================
