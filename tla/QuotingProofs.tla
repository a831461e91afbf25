--------------------------- MODULE QuotingProofs ---------------------------
(***************************************************************************)
(* The safety properties of Quoting, for any number of requests, calls and *)
(* prices, and of the pages on top of it, for any number of administrators. *)
(***************************************************************************)
EXTENDS QuotePages, TLAPS

(* No row exists and no call has begun. *)
LEMMA InitInv == Init => Inv
<1> SUFFICES ASSUME Init PROVE Inv
  OBVIOUS
<1> USE NoneAssumption DEF Init
<1>1. TypeOK
  BY DEF TypeOK, RequestStatus, QuoteStatus, Stage, Outcome
<1>2. LocksConsistent
  BY DEF LocksConsistent, HoldsRequest
<1>3. ASSUME NEW c \in Call PROVE CallConsistent(c)
  BY DEF CallConsistent, InTransaction
<1>4. BookConsistent /\ QuotePendingAtDecision /\ SoleDecision
  BY DEF BookConsistent, QuotesOf, PendingOf, QuotePendingAtDecision, SoleDecision
<1> QED
  BY <1>1, <1>2, <1>3, <1>4 DEF Inv

(* A rolled back call changes no row and frees what it held. *)
LEMMA RollbackInv ==
  ASSUME Inv, NEW c \in Call, NEW how \in {"refused", "error"},
         stage[c] \in InTransaction, Rollback(c, how),
         UNCHANGED <<rows, audit, call>>
  PROVE  Inv'
<1> USE DEF Inv, rows, call, Rollback
<1>1. TypeOK'
  BY DEF TypeOK, Stage, Outcome
<1>2. LocksConsistent'
  BY DEF TypeOK, LocksConsistent, HoldsRequest
<1>3. ASSUME NEW d \in Call PROVE CallConsistent(d)'
  <2>1. CASE d = c
    BY <2>1 DEF TypeOK, CallConsistent, InTransaction
  <2>2. CASE d # c
    BY <2>2 DEF TypeOK, CallConsistent
  <2> QED
    BY <2>1, <2>2
<1>4. BookConsistent'
  BY DEF BookConsistent, QuotesOf, PendingOf
<1>5. QuotePendingAtDecision' /\ SoleDecision'
  BY DEF TypeOK, QuotePendingAtDecision, SoleDecision
<1> QED
  BY <1>1, <1>2, <1>3, <1>4, <1>5

(* Reading a request, selecting rows and locking rows commit nothing: the  *)
(* rows and what other calls hold stay as they are.                        *)
LEMMA SubmitInv == ASSUME Inv, NEW r \in Request, Submit(r) PROVE Inv'
<1> USE DEF Inv, Submit, call
<1>1. TypeOK'
  BY DEF TypeOK, RequestStatus
<1>2. LocksConsistent'
  BY DEF TypeOK, LocksConsistent, HoldsRequest, From, Quotable
<1>3. ASSUME NEW d \in Call PROVE CallConsistent(d)'
  BY DEF TypeOK, CallConsistent
<1>4. BookConsistent'
  BY DEF TypeOK, BookConsistent, QuotesOf, PendingOf
<1>5. QuotePendingAtDecision' /\ SoleDecision'
  BY DEF QuotePendingAtDecision, SoleDecision
<1> QED
  BY <1>1, <1>2, <1>3, <1>4, <1>5

(* A decision gets its request while nothing is done in its name. *)
LEMMA BeginDecisionInv ==
  ASSUME Inv, NEW c \in Call, NEW r \in Request, NEW o \in Decision,
         BeginDecision(c, r, o)
  PROVE  Inv'
<1> USE NoneAssumption DEF Inv, BeginDecision, Goto, rows, Decision
<1>1. TypeOK'
  BY DEF TypeOK, PendingOf, Stage, InTransaction
<1>2. quote[c] = "NONE" /\ outcome[c] # "ok" /\ held[c] = None
  BY DEF TypeOK, CallConsistent, InTransaction
<1>3. LocksConsistent'
  BY <1>2 DEF TypeOK, LocksConsistent, HoldsRequest, From
<1>4. ASSUME NEW d \in Call PROVE CallConsistent(d)'
  <2>1. CASE d = c
    BY <1>2, <2>1 DEF TypeOK, CallConsistent, InTransaction
  <2>2. CASE d # c
    BY <1>2, <2>2 DEF TypeOK, CallConsistent
  <2> QED
    BY <2>1, <2>2
<1>5. BookConsistent'
  BY <1>2 DEF TypeOK, BookConsistent, QuotesOf, PendingOf
<1>6. QuotePendingAtDecision' /\ SoleDecision'
  BY <1>2 DEF TypeOK, QuotePendingAtDecision, SoleDecision
<1> QED
  BY <1>1, <1>3, <1>4, <1>5, <1>6

(* A quote call checks its price before its transaction begins. *)
LEMMA BeginQuoteInv ==
  ASSUME Inv, NEW c \in Call, NEW r \in Request, NEW p \in Price,
         BeginQuote(c, r, p)
  PROVE  Inv'
<1> USE NoneAssumption DEF Inv, BeginQuote, Goto, Rollback, rows
<1>1. TypeOK'
  BY DEF TypeOK, Stage, InTransaction, Outcome
<1>2. quote[c] = "NONE" /\ outcome[c] # "ok" /\ held[c] = None
  BY DEF TypeOK, CallConsistent, InTransaction
<1>3. LocksConsistent'
  BY <1>2 DEF TypeOK, LocksConsistent, HoldsRequest, From
<1>4. ASSUME NEW d \in Call PROVE CallConsistent(d)'
  <2>1. CASE d = c
    BY <1>2, <2>1 DEF TypeOK, CallConsistent, InTransaction, Decision
  <2>2. CASE d # c
    BY <1>2, <2>2 DEF TypeOK, CallConsistent
  <2> QED
    BY <2>1, <2>2
<1>5. BookConsistent'
  BY <1>2 DEF TypeOK, BookConsistent, QuotesOf, PendingOf
<1>6. QuotePendingAtDecision' /\ SoleDecision'
  BY <1>2 DEF TypeOK, QuotePendingAtDecision, SoleDecision
<1> QED
  BY <1>1, <1>3, <1>4, <1>5, <1>6

(* Selecting the request row locks nothing. *)
LEMMA FindRequestInv == ASSUME Inv, NEW c \in Call, FindRequest(c) PROVE Inv'
<1>1. CASE status[req[c]] \notin From(op[c])
  BY <1>1, RollbackInv DEF FindRequest, InTransaction
<1>2. CASE status[req[c]] \in From(op[c])
  <2> USE <1>2 DEF Inv, FindRequest, Goto, rows, call
  <2>1. TypeOK'
    BY DEF TypeOK, Stage, InTransaction
  <2>2. LocksConsistent'
    BY DEF TypeOK, LocksConsistent, HoldsRequest
  <2>3. ASSUME NEW d \in Call PROVE CallConsistent(d)'
    BY DEF TypeOK, CallConsistent, InTransaction
  <2>4. BookConsistent' /\ QuotePendingAtDecision' /\ SoleDecision'
    BY DEF BookConsistent, QuotesOf, PendingOf, QuotePendingAtDecision, SoleDecision
  <2> QED
    BY <2>1, <2>2, <2>3, <2>4
<1> QED
  BY <1>1, <1>2

(* The request row is locked in a status that was asked for. *)
LEMMA LockRequestInv == ASSUME Inv, NEW c \in Call, LockRequest(c) PROVE Inv'
<1>1. CASE status[req[c]] \notin From(op[c])
  BY <1>1, RollbackInv DEF LockRequest, InTransaction
<1>2. CASE status[req[c]] \in From(op[c])
  <2> USE <1>2 DEF Inv, LockRequest, Goto, rows, call
  <2>1. TypeOK'
    BY DEF TypeOK, Stage, InTransaction
  <2>2. LocksConsistent'
    BY DEF TypeOK, LocksConsistent, HoldsRequest, RequestFree
  <2>3. ASSUME NEW d \in Call PROVE CallConsistent(d)'
    BY DEF TypeOK, CallConsistent, InTransaction
  <2>4. BookConsistent' /\ QuotePendingAtDecision' /\ SoleDecision'
    BY DEF BookConsistent, QuotesOf, PendingOf, QuotePendingAtDecision, SoleDecision
  <2> QED
    BY <2>1, <2>2, <2>3, <2>4
<1> QED
  BY <1>1, <1>2

(* A decision that holds its request finds the quote PENDING, so an UPDATE  *)
(* that hits no quote belongs to an administrator's quote.                 *)
LEMMA MissIsQuote ==
  ASSUME Inv, NEW c \in Call,
         \/ stage[c] = "findQuote" /\ PendingOf(req[c]) = {}
         \/ stage[c] = "lockQuote" /\ quote[target[c]] # "PENDING"
  PROVE  op[c] = "quote"
<1> SUFFICES ASSUME op[c] # "quote" PROVE FALSE
  OBVIOUS
<1>1. op[c] \in Decision /\ req[c] \in Request
  BY DEF Inv, TypeOK, CallConsistent, Decision
<1>2. stage[c] = "findQuote"
  BY <1>1 DEF Inv, CallConsistent
<1>3. status[req[c]] = "QUOTED"
  BY <1>1, <1>2 DEF Inv, LocksConsistent, HoldsRequest, From
<1> QED
  BY <1>1, <1>2, <1>3 DEF Inv, BookConsistent

(* A quote call that finds nothing to supersede goes on. *)
LEMMA MissInv ==
  ASSUME Inv, NEW c \in Call, op[c] = "quote",
         stage[c] \in {"findQuote", "lockQuote"},
         NoQuoteUpdated(c), UNCHANGED <<rows, audit, call>>
  PROVE  Inv'
<1> USE DEF Inv, NoQuoteUpdated, rows, call
<1>1. TypeOK'
  BY DEF TypeOK, Stage, InTransaction
<1>2. LocksConsistent'
  BY DEF TypeOK, LocksConsistent, HoldsRequest
<1>3. ASSUME NEW d \in Call PROVE CallConsistent(d)'
  BY DEF TypeOK, CallConsistent, InTransaction, Decision
<1>4. BookConsistent' /\ QuotePendingAtDecision' /\ SoleDecision'
  BY DEF BookConsistent, QuotesOf, PendingOf, QuotePendingAtDecision, SoleDecision
<1> QED
  BY <1>1, <1>2, <1>3, <1>4

(* The selected quote is the request's and PENDING. *)
LEMMA FindQuoteInv == ASSUME Inv, NEW c \in Call, FindQuote(c) PROVE Inv'
<1>1. CASE PendingOf(req[c]) = {}
  BY <1>1, MissIsQuote, MissInv DEF FindQuote
<1>2. CASE PendingOf(req[c]) # {}
  <2> PICK q \in PendingOf(req[c]) :
        /\ target' = [target EXCEPT ![c] = q]
        /\ stage' = [stage EXCEPT ![c] = "lockQuote"]
        /\ UNCHANGED <<held, outcome>>
    BY <1>2 DEF FindQuote
  <2> USE NoneAssumption DEF Inv, FindQuote, rows, call, PendingOf
  <2>1. TypeOK'
    BY DEF TypeOK, Stage, InTransaction
  <2>2. LocksConsistent'
    BY DEF TypeOK, LocksConsistent, HoldsRequest
  <2>3. ASSUME NEW d \in Call PROVE CallConsistent(d)'
    BY DEF TypeOK, CallConsistent, InTransaction
  <2>4. BookConsistent' /\ QuotePendingAtDecision' /\ SoleDecision'
    BY DEF BookConsistent, QuotesOf, QuotePendingAtDecision, SoleDecision
  <2> QED
    BY <2>1, <2>2, <2>3, <2>4
<1> QED
  BY <1>1, <1>2

(* The quote is locked while it is PENDING; a decision never misses. *)
LEMMA LockQuoteInv == ASSUME Inv, NEW c \in Call, LockQuote(c) PROVE Inv'
<1>1. CASE quote[target[c]] # "PENDING"
  BY <1>1, MissIsQuote, MissInv DEF LockQuote
<1>2. CASE quote[target[c]] = "PENDING"
  <2> USE <1>2, NoneAssumption DEF Inv, LockQuote, rows, call
  <2>1. TypeOK'
    BY DEF TypeOK, Stage, InTransaction
  <2>2. LocksConsistent'
    <3>1. target[c] \in Call /\ req[target[c]] = req[c]
      BY DEF TypeOK, CallConsistent
    <3>2. \A d \in Call : held'[d] = IF d = c THEN target[c] ELSE held[d]
      BY DEF TypeOK
    <3>3. \A d \in Call : HoldsRequest(d)' <=> HoldsRequest(d)
      BY DEF TypeOK, HoldsRequest
    <3> QED
      BY <3>1, <3>2, <3>3 DEF LocksConsistent, QuoteFree
  <2>3. ASSUME NEW d \in Call PROVE CallConsistent(d)'
    BY DEF TypeOK, CallConsistent, InTransaction, Decision
  <2>4. BookConsistent' /\ QuotePendingAtDecision' /\ SoleDecision'
    BY DEF BookConsistent, QuotesOf, PendingOf, QuotePendingAtDecision, SoleDecision
  <2> QED
    BY <2>1, <2>2, <2>3, <2>4
<1> QED
  BY <1>1, <1>2

(* The three commits.  The row that the call has locked is the only one of *)
(* its request that is PENDING, and no other call has either row locked.   *)
LEMMA DecisionFacts ==
  ASSUME Inv, NEW c \in Call, stage[c] = "commit"
  PROVE  /\ op[c] \in Decision
         /\ req[c] \in Request /\ status[req[c]] = "QUOTED"
         /\ held[c] \in Call /\ quote[held[c]] = "PENDING"
         /\ req[held[c]] = req[c]
         /\ \A q \in QuotesOf(req[c], {"PENDING", "ACCEPTED"}) : q = held[c]
         /\ \A d \in Call \ {c} :
              HoldsRequest(d) \/ held[d] # None => req[d] # req[c]
<1>1. op[c] \in Decision /\ req[c] \in Request /\ held[c] \in Call
  BY DEF Inv, TypeOK, CallConsistent
<1>2. HoldsRequest(c)
  BY <1>1 DEF HoldsRequest, Decision
<1>3. status[req[c]] = "QUOTED"
  BY <1>1, <1>2 DEF Inv, LocksConsistent, From, Decision
<1>4. quote[held[c]] = "PENDING" /\ req[held[c]] = req[c]
  BY <1>1, NoneAssumption DEF Inv, LocksConsistent
<1>5. \A q \in QuotesOf(req[c], {"PENDING", "ACCEPTED"}) : q = held[c]
  BY <1>1, <1>4 DEF Inv, BookConsistent, QuotesOf
<1>6. ASSUME NEW d \in Call \ {c}, HoldsRequest(d) PROVE req[d] # req[c]
  BY <1>2, <1>6 DEF Inv, LocksConsistent
<1>7. ASSUME NEW d \in Call \ {c}, held[d] # None PROVE req[d] # req[c]
  <2>1. held[d] \in Call /\ quote[held[d]] = "PENDING" /\ req[held[d]] = req[d]
    BY <1>7 DEF Inv, TypeOK, LocksConsistent
  <2>2. held[d] # held[c]
    BY <1>7 DEF Inv, LocksConsistent
  <2> QED
    BY <1>5, <2>1, <2>2 DEF QuotesOf
<1> QED
  BY <1>1, <1>3, <1>4, <1>5, <1>6, <1>7

(* The request, its quote and its listing are accepted together. *)
LEMMA AcceptInv == ASSUME Inv, NEW c \in Call, Accept(c) PROVE Inv'
<1> USE NoneAssumption DEF Inv, Accept, Committed, call
<1>1. TypeOK'
  BY DecisionFacts DEF TypeOK, RequestStatus, QuoteStatus, Stage, Outcome
<1>2. LocksConsistent'
  BY DecisionFacts DEF TypeOK, LocksConsistent, HoldsRequest
<1>3. ASSUME NEW d \in Call PROVE CallConsistent(d)'
  <2>1. CASE d = c
    BY <2>1, DecisionFacts DEF TypeOK, CallConsistent, InTransaction, Decision
  <2>2. CASE d # c
    BY <2>2, DecisionFacts DEF TypeOK, CallConsistent, HoldsRequest, Decision
  <2> QED
    BY <2>1, <2>2
<1>4. BookConsistent'
  BY DecisionFacts DEF TypeOK, BookConsistent, QuotesOf, PendingOf, CallConsistent
<1>5. QuotePendingAtDecision' /\ SoleDecision'
  BY DecisionFacts
     DEF TypeOK, QuotePendingAtDecision, SoleDecision, CallConsistent, Decision
<1> QED
  BY <1>1, <1>2, <1>3, <1>4, <1>5

(* The request and its quote are rejected together. *)
LEMMA RejectInv == ASSUME Inv, NEW c \in Call, Reject(c) PROVE Inv'
<1> USE NoneAssumption DEF Inv, Reject, Committed, call
<1>1. TypeOK'
  BY DecisionFacts DEF TypeOK, RequestStatus, QuoteStatus, Stage, Outcome
<1>2. LocksConsistent'
  BY DecisionFacts DEF TypeOK, LocksConsistent, HoldsRequest
<1>3. ASSUME NEW d \in Call PROVE CallConsistent(d)'
  <2>1. CASE d = c
    BY <2>1, DecisionFacts DEF TypeOK, CallConsistent, InTransaction, Decision
  <2>2. CASE d # c
    BY <2>2, DecisionFacts DEF TypeOK, CallConsistent, HoldsRequest, Decision
  <2> QED
    BY <2>1, <2>2
<1>4. BookConsistent'
  BY DecisionFacts DEF TypeOK, BookConsistent, QuotesOf, PendingOf, CallConsistent
<1>5. QuotePendingAtDecision' /\ SoleDecision'
  BY DecisionFacts
     DEF TypeOK, QuotePendingAtDecision, SoleDecision, CallConsistent, Decision
<1> QED
  BY <1>1, <1>2, <1>3, <1>4, <1>5

(* Behind the index, the superseded quote is the request's only live one. *)
LEMMA PublishFacts ==
  ASSUME Inv, NEW c \in Call, stage[c] = "insert", Clash(c) = {}
  PROVE  /\ op[c] = "quote" /\ quote[c] = "NONE"
         /\ req[c] \in Request /\ status[req[c]] \in Quotable
         /\ price[c] \in MinPrice .. MaxPrice
         /\ held[c] # None => req[held[c]] = req[c] /\ quote[held[c]] = "PENDING"
         /\ \A q \in QuotesOf(req[c], {"PENDING", "ACCEPTED", "REJECTED"}) :
              q = held[c]
         /\ \A d \in Call \ {c} :
              HoldsRequest(d) \/ held[d] # None => req[d] # req[c]
<1>1. op[c] = "quote" /\ req[c] \in Request
  BY DEF Inv, CallConsistent
<1>2. quote[c] = "NONE" /\ price[c] \in MinPrice .. MaxPrice
  BY <1>1 DEF Inv, CallConsistent, InTransaction
<1>3. HoldsRequest(c)
  BY <1>1 DEF HoldsRequest
<1>4. status[req[c]] \in Quotable
  BY <1>1, <1>3 DEF Inv, LocksConsistent, From
<1>5. held[c] # None => req[held[c]] = req[c] /\ quote[held[c]] = "PENDING"
  BY DEF Inv, LocksConsistent
<1>6. \A q \in QuotesOf(req[c], {"PENDING", "ACCEPTED", "REJECTED"}) : q = held[c]
  BY <1>1, <1>4 DEF Inv, BookConsistent, QuotesOf, PendingOf, Clash, Quotable
<1>7. ASSUME NEW d \in Call \ {c}, HoldsRequest(d) PROVE req[d] # req[c]
  BY <1>3, <1>7 DEF Inv, LocksConsistent
<1>8. ASSUME NEW d \in Call \ {c}, held[d] # None PROVE req[d] # req[c]
  <2>1. held[d] \in Call /\ quote[held[d]] = "PENDING" /\ req[held[d]] = req[d]
    BY <1>8 DEF Inv, TypeOK, LocksConsistent
  <2>2. held[d] # held[c]
    BY <1>8 DEF Inv, LocksConsistent
  <2> QED
    BY <1>6, <2>1, <2>2 DEF QuotesOf
<1> QED
  BY <1>1, <1>2, <1>4, <1>5, <1>6, <1>7, <1>8

(* The new quote takes the place of the superseded one. *)
LEMMA PublishInv == ASSUME Inv, NEW c \in Call, Publish(c) PROVE Inv'
<1>1. CASE Clash(c) # {}
  BY <1>1, RollbackInv DEF Publish, InTransaction, rows
<1>2. CASE Clash(c) = {}
  <2> USE <1>2, NoneAssumption DEF Inv, Publish, Committed, call
  <2>1. TypeOK'
    <3>1. status' \in [Request -> RequestStatus] /\ quote' \in [Call -> QuoteStatus]
      BY PublishFacts DEF TypeOK, RequestStatus, QuoteStatus
    <3>2. /\ stage' \in [Call -> Stage] /\ outcome' \in [Call -> Outcome]
          /\ target' \in [Call -> Call \cup {None}]
          /\ held' \in [Call -> Call \cup {None}]
      BY DEF TypeOK, Stage, Outcome
    <3> QED
      BY <3>1, <3>2 DEF TypeOK
  <2>2. LocksConsistent'
    <3>1. \A d \in Call \ {c} :
            HoldsRequest(d) \/ held[d] # None => req[d] # req[c]
      BY PublishFacts
    <3>2. ~HoldsRequest(c)' /\ held'[c] = None
      BY PublishFacts DEF TypeOK, HoldsRequest
    <3>3. \A d \in Call \ {c} : /\ HoldsRequest(d)' <=> HoldsRequest(d)
                                /\ held'[d] = held[d]
      BY DEF TypeOK, HoldsRequest
    <3>4. ASSUME NEW d \in Call \ {c}, HoldsRequest(d)
          PROVE  status'[req[d]] \in From(op[d])
      <4>1. req[d] \in Request /\ status[req[d]] \in From(op[d])
        BY <3>4 DEF LocksConsistent, CallConsistent, HoldsRequest
      <4> QED
        BY <3>1, <3>4, <4>1 DEF TypeOK
    <3>5. ASSUME NEW d \in Call \ {c}, held[d] # None
          PROVE  quote'[held[d]] = "PENDING" /\ req[held[d]] = req[d]
      <4>1. held[d] \in Call /\ quote[held[d]] = "PENDING" /\ req[held[d]] = req[d]
        BY <3>5 DEF TypeOK, LocksConsistent
      <4>2. held[d] # held[c] /\ held[d] # c
        BY <3>5, <4>1, PublishFacts DEF LocksConsistent
      <4> QED
        BY <4>1, <4>2
    <3> QED
      BY <3>2, <3>3, <3>4, <3>5 DEF LocksConsistent
  <2>3. ASSUME NEW d \in Call PROVE CallConsistent(d)'
    <3>1. CASE d = c
      BY <3>1, PublishFacts DEF TypeOK, CallConsistent, InTransaction, Decision
    <3>2. CASE d # c
      BY <3>2, PublishFacts DEF TypeOK, CallConsistent, HoldsRequest, Decision,
         Quotable
    <3> QED
      BY <3>1, <3>2
  <2>4. BookConsistent'
    <3>1. ASSUME NEW r \in Request, r # req[c], NEW X \in SUBSET QuoteStatus,
                 "NONE" \notin X
          PROVE  QuotesOf(r, X)' = QuotesOf(r, X) /\ status'[r] = status[r]
      BY <3>1, PublishFacts DEF TypeOK, QuotesOf, QuoteStatus
    <3>2. /\ quote'[c] = "PENDING"
          /\ \A q \in Call \ {c} :
               req[q] = req[c] =>
                 quote'[q] \notin {"PENDING", "ACCEPTED", "REJECTED"}
      BY PublishFacts DEF TypeOK, QuotesOf
    <3>3. \A r \in Request : PendingOf(r) = QuotesOf(r, {"PENDING"})
      BY DEF PendingOf, QuotesOf
    <3>4. \A r \in Request : PendingOf(r)' = QuotesOf(r, {"PENDING"})'
      BY DEF PendingOf, QuotesOf
    <3>5. listing[req[c]] = None /\ status'[req[c]] = "QUOTED"
      BY PublishFacts DEF TypeOK, BookConsistent, Quotable
    <3>6. ASSUME NEW r \in Request, r # req[c]
          PROVE  /\ QuotesOf(r, {"PENDING"})' = QuotesOf(r, {"PENDING"})
                 /\ QuotesOf(r, {"ACCEPTED"})' = QuotesOf(r, {"ACCEPTED"})
                 /\ QuotesOf(r, {"REJECTED"})' = QuotesOf(r, {"REJECTED"})
                 /\ QuotesOf(r, {"PENDING", "ACCEPTED"})'
                      = QuotesOf(r, {"PENDING", "ACCEPTED"})
                 /\ status'[r] = status[r]
      <4>1. QuotesOf(r, {"PENDING"})' = QuotesOf(r, {"PENDING"})
        BY <3>1, <3>6 DEF QuoteStatus
      <4>2. QuotesOf(r, {"ACCEPTED"})' = QuotesOf(r, {"ACCEPTED"})
        BY <3>1, <3>6 DEF QuoteStatus
      <4>3. QuotesOf(r, {"REJECTED"})' = QuotesOf(r, {"REJECTED"})
        BY <3>1, <3>6 DEF QuoteStatus
      <4>4. QuotesOf(r, {"PENDING", "ACCEPTED"})' = QuotesOf(r, {"PENDING", "ACCEPTED"})
        BY <3>1, <3>6 DEF QuoteStatus
      <4>5. status'[r] = status[r]
        BY <3>1, <3>6 DEF QuoteStatus
      <4> QED
        BY <4>1, <4>2, <4>3, <4>4, <4>5
    <3>7. /\ QuotesOf(req[c], {"PENDING"})' = {c}
          /\ QuotesOf(req[c], {"ACCEPTED"})' = {}
          /\ QuotesOf(req[c], {"REJECTED"})' = {}
          /\ QuotesOf(req[c], {"PENDING", "ACCEPTED"})' = {c}
      BY <3>2 DEF QuotesOf
    <3>8. /\ status'[req[c]] = "QUOTED" /\ listing'[req[c]] = None
          /\ UNCHANGED <<listing, price, req>>
      BY <3>5
    <3>9. BookConsistent
      OBVIOUS
    <3> HIDE DEF Inv, Publish, Committed, call
    <3> QED
      BY <3>3, <3>4, <3>6, <3>7, <3>8, <3>9 DEF BookConsistent, QuotesOf
  <2>5. QuotePendingAtDecision' /\ SoleDecision'
    BY PublishFacts DEF TypeOK, QuotePendingAtDecision, SoleDecision, Decision
  <2> QED
    BY <2>1, <2>2, <2>3, <2>4, <2>5
<1> QED
  BY <1>1, <1>2

(* An entry tells of the call that commits it. *)
LEMMA AuditInv == ASSUME Inv, NEW c \in Call, Audit(c) PROVE Inv'
<1> PICK S \in SUBSET Records(op[c]) : audit' = audit \cup ({c} \X S)
  BY DEF Audit
<1> USE DEF Inv, Audit, rows, call
<1>1. TypeOK'
  BY DEF TypeOK, Stage, Records
<1>2. LocksConsistent'
  BY DEF TypeOK, LocksConsistent, HoldsRequest
<1>3. ASSUME NEW d \in Call PROVE CallConsistent(d)'
  <2>1. CASE d = c
    BY <2>1 DEF TypeOK, CallConsistent, InTransaction
  <2>2. CASE d # c
    BY <2>2 DEF TypeOK, CallConsistent
  <2> QED
    BY <2>1, <2>2
<1>4. BookConsistent' /\ QuotePendingAtDecision' /\ SoleDecision'
  BY DEF BookConsistent, QuotesOf, PendingOf, QuotePendingAtDecision, SoleDecision
<1> QED
  BY <1>1, <1>2, <1>3, <1>4

(* Every step preserves the invariant. *)
LEMMA NextInv == Inv /\ [Next]_vars => Inv'
<1> SUFFICES ASSUME Inv, [Next]_vars PROVE Inv'
  OBVIOUS
<1>1. ASSUME NEW r \in Request, Submit(r) PROVE Inv'
  BY <1>1, SubmitInv
<1>2. ASSUME NEW c \in Call, Begin(c) PROVE Inv'
  BY <1>2, BeginDecisionInv, BeginQuoteInv DEF Begin
<1>3. ASSUME NEW c \in Call, Fail(c) PROVE Inv'
  BY <1>3, RollbackInv DEF Fail
<1>4. ASSUME NEW c \in Call, DeadlockVictim(c) PROVE Inv'
  <2>1. stage[c] \in InTransaction
    BY <1>4 DEF DeadlockVictim, WaitsFor, InTransaction
  <2> QED
    BY <1>4, <2>1, RollbackInv DEF DeadlockVictim
<1>5. ASSUME NEW c \in Call, Step(c) PROVE Inv'
  BY <1>4, <1>5, FindRequestInv, LockRequestInv, FindQuoteInv, LockQuoteInv,
     AcceptInv, RejectInv, PublishInv, AuditInv DEF Step
<1>6. CASE UNCHANGED vars
  BY <1>6 DEF vars, Inv, TypeOK, LocksConsistent, HoldsRequest, CallConsistent,
     BookConsistent, QuotesOf, PendingOf, QuotePendingAtDecision, SoleDecision
<1> QED
  BY <1>1, <1>2, <1>3, <1>5, <1>6 DEF Next, AllDone

(* The inductive invariant holds throughout. *)
THEOREM Invariance == Spec => []Inv
BY InitInv, NextInv, PTL DEF Spec
-----------------------------------------------------------------------------
(* Every variable keeps its type: no call leaves a row or its own progress *)
(* outside the values the schema and the handlers know.                    *)
THEOREM TypeCorrect == Spec => []TypeOK
<1>1. Inv => TypeOK
  BY DEF Inv
<1> QED
  BY <1>1, Invariance, PTL

(* accept, reject and adminQuote keep the request, its quotes and its      *)
(* listing in agreement.                                                   *)
THEOREM BookIsConsistent == Spec => []BookConsistent
<1>1. Inv => BookConsistent
  BY DEF Inv
<1> QED
  BY <1>1, Invariance, PTL

(* accept and reject never answer QUOTE_NOT_PENDING.                       *)
THEOREM QuoteIsPendingAtDecision == Spec => []QuotePendingAtDecision
<1>1. Inv => QuotePendingAtDecision
  BY DEF Inv
<1> QED
  BY <1>1, Invariance, PTL

(* At most one accept or reject of a request succeeds.                     *)
THEOREM DecisionIsSole == Spec => []SoleDecision
<1>1. Inv => SoleDecision
  BY DEF Inv
<1> QED
  BY <1>1, Invariance, PTL

(* What the audit log says of a request happened.                          *)
THEOREM AuditIsTruthful == Spec => []AuditTruthful
<1>1. Inv => AuditTruthful
  <2> SUFFICES ASSUME Inv, NEW c \in Call, NEW a, <<c, a>> \in audit
               PROVE  /\ a \in {"quote.accept", "listing.create"}
                           => listing[req[c]] # None
                      /\ a = "quote.reject" => status[req[c]] = "REJECTED"
                      /\ a = "quote.create" => quote[c] # "NONE"
    BY DEF AuditTruthful
  <2>1. outcome[c] = "ok" /\ a \in Records(op[c])
    BY DEF Inv, CallConsistent
  <2>2. req[c] \in Request /\ op[c] \in {"accept", "reject", "quote"}
    BY <2>1 DEF Inv, TypeOK, CallConsistent, Decision
  <2> QED
    BY <2>1, <2>2 DEF Inv, CallConsistent, BookConsistent, Records
<1> QED
  BY <1>1, Invariance, PTL
-----------------------------------------------------------------------------
(* Refinement: Submit, Accept, Reject and Publish are the steps of the     *)
(* quote book; every other step leaves it alone.                           *)

Past == {q \in Call : quote[q] # "NONE"}

(* The offer is the one PENDING quote. *)
LEMMA OfferIsPending ==
  ASSUME Inv, NEW r \in Request, NEW q \in PendingOf(r)
  PROVE  OfferOf(r) = q
<1>1. \A p \in PendingOf(r) : p = q
  BY DEF Inv, BookConsistent, QuotesOf, PendingOf
<1> QED
  BY <1>1 DEF OfferOf

(* The offer of a request depends only on its PENDING quotes. *)
LEMMA SameOffer ==
  ASSUME NEW r \in Request, PendingOf(r)' = PendingOf(r)
  PROVE  OfferOf(r)' = OfferOf(r)
BY DEF OfferOf

(* A step that changes no row leaves the quote book alone. *)
LEMMA BookStutters ==
  ASSUME UNCHANGED <<rows, req>> PROVE UNCHANGED Book!vars
<1>1. ASSUME NEW r \in Request PROVE OfferOf(r)' = OfferOf(r)
  <2>1. PendingOf(r)' = PendingOf(r)
    BY DEF PendingOf, rows
  <2> QED
    BY <2>1, SameOffer
<1>2. Past' = Past
  BY DEF Past, rows
<1> QED
  BY <1>1, <1>2 DEF Book!vars, rows, Past

(* A call gets its request while it has no quote. *)
LEMMA BeginStutters ==
  ASSUME Inv, NEW c \in Call, Begin(c) PROVE UNCHANGED Book!vars
<1>1. quote[c] = "NONE" /\ UNCHANGED rows
      /\ \E r \in Request : req' = [req EXCEPT ![c] = r]
  BY DEF Inv, CallConsistent, Begin, BeginDecision, BeginQuote, InTransaction
<1>2. ASSUME NEW r \in Request PROVE OfferOf(r)' = OfferOf(r)
  <2>1. PendingOf(r)' = PendingOf(r)
    BY <1>1 DEF Inv, TypeOK, PendingOf, rows
  <2> QED
    BY <2>1, SameOffer
<1>3. Past' = Past
  BY <1>1 DEF Past, rows
<1> QED
  BY <1>1, <1>2, <1>3 DEF Book!vars, rows, Past

(* In the next state only the offer of request r has changed, to q. *)
LEMMA OfferChange ==
  ASSUME Inv, Inv', UNCHANGED req, NEW r \in Request, NEW q \in Call \cup {None},
         \A p \in Call : req[p] # r => quote'[p] = quote[p],
         IF q = None THEN PendingOf(r)' = {} ELSE q \in PendingOf(r)'
  PROVE  [x \in Request |-> OfferOf(x)]'
           = [[x \in Request |-> OfferOf(x)] EXCEPT ![r] = q]
<1>1. OfferOf(r)' = q
  <2>1. CASE q = None
    BY <2>1 DEF OfferOf
  <2>2. CASE q # None
    <3>1. \A p \in PendingOf(r)' : p = q
      BY <2>2 DEF Inv, BookConsistent, QuotesOf, PendingOf
    <3> QED
      BY <2>2, <3>1 DEF OfferOf
  <2> QED
    BY <2>1, <2>2
<1>2. ASSUME NEW x \in Request, x # r PROVE OfferOf(x)' = OfferOf(x)
  <2>1. PendingOf(x)' = PendingOf(x)
    BY <1>2 DEF PendingOf
  <2> QED
    BY <2>1, SameOffer
<1> QED
  BY <1>1, <1>2

(* accept sells the request for its offer. *)
LEMMA AcceptIsBook ==
  ASSUME Inv, Inv', NEW c \in Call, Accept(c) PROVE Book!Accept(req[c])
<1> USE NoneAssumption
<1>1. stage[c] = "commit"
  BY DEF Accept
<1>2. OfferOf(req[c]) = held[c]
  BY <1>1, DecisionFacts, OfferIsPending DEF PendingOf
<1>3. PendingOf(req[c])' = {}
  BY <1>1, DecisionFacts DEF Accept, call, PendingOf, QuotesOf, Inv, TypeOK
<1>4. [x \in Request |-> OfferOf(x)]'
        = [[x \in Request |-> OfferOf(x)] EXCEPT ![req[c]] = None]
  <2>1. \A p \in Call : req[p] # req[c] => quote'[p] = quote[p]
    BY <1>1, DecisionFacts DEF Accept, Inv, TypeOK
  <2> QED
    BY <1>1, <1>3, <2>1, DecisionFacts, OfferChange DEF Accept, call
<1>5. Past' = Past
  BY <1>1, DecisionFacts DEF Past, Accept, Inv, TypeOK
<1>6. status[req[c]] = "QUOTED" /\ req[c] \in Request /\ held[c] # None
  BY <1>1, DecisionFacts
<1>7. listing' = [listing EXCEPT ![req[c]] = [x \in Request |-> OfferOf(x)][req[c]]]
  BY <1>2, <1>6 DEF Accept
<1> QED
  BY <1>2, <1>4, <1>5, <1>6, <1>7 DEF Book!Accept, Accept, Past

(* reject withdraws the offer. *)
LEMMA RejectIsBook ==
  ASSUME Inv, Inv', NEW c \in Call, Reject(c) PROVE Book!Reject(req[c])
<1> USE NoneAssumption
<1>1. stage[c] = "commit"
  BY DEF Reject
<1>2. OfferOf(req[c]) = held[c]
  BY <1>1, DecisionFacts, OfferIsPending DEF PendingOf
<1>3. PendingOf(req[c])' = {}
  BY <1>1, DecisionFacts DEF Reject, call, PendingOf, QuotesOf, Inv, TypeOK
<1>4. [x \in Request |-> OfferOf(x)]'
        = [[x \in Request |-> OfferOf(x)] EXCEPT ![req[c]] = None]
  <2>1. \A p \in Call : req[p] # req[c] => quote'[p] = quote[p]
    BY <1>1, DecisionFacts DEF Reject, Inv, TypeOK
  <2> QED
    BY <1>1, <1>3, <2>1, DecisionFacts, OfferChange DEF Reject, call
<1>5. Past' = Past
  BY <1>1, DecisionFacts DEF Past, Reject, Inv, TypeOK
<1> QED
  BY <1>1, <1>2, <1>4, <1>5, DecisionFacts DEF Book!Reject, Reject, Past

(* adminQuote replaces the offer, or meets the index and changes nothing. *)
LEMMA PublishIsBook ==
  ASSUME Inv, Inv', NEW c \in Call, Publish(c)
  PROVE  Book!Offer(req[c], c) \/ UNCHANGED Book!vars
<1> USE NoneAssumption
<1>1. CASE Clash(c) # {}
  BY <1>1, BookStutters DEF Publish, rows, call
<1>2. CASE Clash(c) = {}
  <2>1. stage[c] = "insert" /\ UNCHANGED <<req, listing>>
    BY DEF Publish, call
  <2>2. c \in PendingOf(req[c])'
    BY <1>2, <2>1 DEF Publish, PendingOf
  <2>3. \A p \in Call : req[p] # req[c] => quote'[p] = quote[p]
    BY <1>2, <2>1, PublishFacts DEF Publish
  <2>4. [x \in Request |-> OfferOf(x)]'
          = [[x \in Request |-> OfferOf(x)] EXCEPT ![req[c]] = c]
    BY <1>2, <2>1, <2>2, <2>3, PublishFacts, OfferChange
  <2>5. Past' = Past \cup {c} /\ c \notin Past
    BY <1>2, <2>1, PublishFacts DEF Past, Publish
  <2> QED
    BY <1>2, <2>1, <2>4, <2>5, PublishFacts
       DEF Book!Offer, Publish, Past, Quotable
<1> QED
  BY <1>1, <1>2

(* The transactions of accept, reject and adminQuote act like the atomic   *)
(* steps of the quote book.                                                *)
THEOREM QuotingImplementsBook == Spec => ImplementsBook
<1>1. Init => Book!Init
  <2> SUFFICES ASSUME Init PROVE Book!Init
    OBVIOUS
  <2>1. \A r \in Request : OfferOf(r) = None
    BY DEF Init, OfferOf, PendingOf
  <2> QED
    BY <2>1 DEF Init, Book!Init
<1>2. Inv /\ Inv' /\ [Next]_vars => [Book!Next]_(Book!vars)
  <2> SUFFICES ASSUME Inv, Inv', [Next]_vars PROVE Book!Next \/ UNCHANGED Book!vars
    OBVIOUS
  <2>1. ASSUME NEW r \in Request, Submit(r) PROVE Book!Submit(r)
    <3>1. ASSUME NEW x \in Request PROVE OfferOf(x)' = OfferOf(x)
      <4>1. PendingOf(x)' = PendingOf(x)
        BY <2>1 DEF Submit, PendingOf, call
      <4> QED
        BY <4>1, SameOffer
    <3> QED
      BY <2>1, <3>1 DEF Submit, Book!Submit
  <2>2. ASSUME NEW c \in Call, Step(c) PROVE Book!Next \/ UNCHANGED Book!vars
    <3>1. CASE Accept(c)
      BY <3>1, AcceptIsBook, DecisionFacts DEF Book!Next, Accept
    <3>2. CASE Reject(c)
      BY <3>2, RejectIsBook, DecisionFacts DEF Book!Next, Reject
    <3>3. CASE Publish(c)
      BY <3>3, PublishIsBook DEF Book!Next, Publish, Inv, CallConsistent
    <3>4. CASE ~(Accept(c) \/ Reject(c) \/ Publish(c))
      BY <2>2, <3>4, BookStutters
         DEF Step, FindRequest, LockRequest, FindQuote, LockQuote, Audit,
             DeadlockVictim, call
    <3> QED
      BY <3>1, <3>2, <3>3, <3>4
  <2>3. ASSUME NEW c \in Call, Fail(c) PROVE UNCHANGED Book!vars
    BY <2>3, BookStutters DEF Fail, call
  <2>4. CASE UNCHANGED vars
    BY <2>4, BookStutters DEF vars, rows
  <2> QED
    BY <2>1, <2>2, <2>3, <2>4, BeginStutters DEF Next, Book!Next, AllDone
<1> QED
  BY <1>1, <1>2, Invariance, PTL DEF Spec, ImplementsBook, Book!Spec
-----------------------------------------------------------------------------
(* The pages of QuotePages. *)

(* Each click that sends is a call that begins; the rest is the page's own. *)
LEMMA PageMoves ==
  ASSUME Pages
  PROVE  [\E c \in Call : Begin(c)]_vars
<1>1. ASSUME NEW c \in Call, NEW r \in Request, OnAccept(c, r) \/ OnReject(c, r) PROVE Begin(c)
  BY <1>1 DEF OnAccept, OnReject, Decide, Begin, Decision
<1>2. ASSUME NEW c \in Call, NEW r \in Request, NEW a \in Admin, NEW p \in Price, OnQuote(a, c, r, p)
      PROVE  Begin(c)
  BY <1>2 DEF OnQuote, Begin
<1>3. CASE Load \/ Mount \/ (\E c \in Call : Decided(c) \/ \E a \in Admin : Quoted(a, c))
           \/ (\E a \in Admin : LoadQueue(a))
  BY <1>3 DEF Load, Mount, Decided, Quoted, LoadQueue
<1> QED
  BY <1>1, <1>2, <1>3 DEF Pages

LEMMA ServerMoves == ASSUME Server PROVE Next
BY DEF Server, Next

LEMMA PagesStep == [Pages \/ Server]_all => [Next]_vars
BY PageMoves, ServerMoves DEF Next, all

(* The pages of sell-scrap-view.tsx and admin-quote-queue.tsx move the rows *)
(* only by the calls they send.                                            *)
THEOREM PagesUseQuoting == PagesSpec => Spec
<1>1. PagesInit => Init
  BY DEF PagesInit
<1> QED
  BY <1>1, PagesStep, PTL DEF PagesSpec, Spec

(* So the rows that the pages show implement the quote book as well.       *)
THEOREM PagesImplementBook == PagesSpec => ImplementsBook
BY PagesUseQuoting, QuotingImplementsBook

(* A call that has begun keeps what it was asked, and a quote that was made *)
(* stays one.                                                              *)
LEMMA CallKept ==
  ASSUME Inv, Inv', [Next]_vars, NEW c \in Call, stage[c] # "idle"
  PROVE  stage'[c] # "idle" /\ op'[c] = op[c] /\ req'[c] = req[c]
<1>1. ASSUME NEW d \in Call, Begin(d) PROVE d # c /\ UNCHANGED <<stage[c], op[c], req[c]>>
  BY <1>1 DEF Begin, BeginDecision, BeginQuote, Goto, Rollback, Inv, TypeOK
<1>2. ASSUME NEW d \in Call, Step(d) \/ Fail(d) PROVE UNCHANGED call /\ stage'[c] # "idle"
  BY <1>2 DEF Step, Fail, FindRequest, LockRequest, FindQuote, LockQuote, Accept, Reject, Publish,
         Audit, DeadlockVictim, Goto, Rollback, Committed, NoQuoteUpdated, Inv, TypeOK
<1>3. CASE \E r \in Request : Submit(r)
  BY <1>3 DEF Submit, call
<1> QED
  BY <1>1, <1>2, <1>3 DEF Next, AllDone, vars, call

LEMMA QuoteStays ==
  ASSUME Inv, Inv', [Next]_vars, NEW r \in Request, NEW q, QuoteOf(q, r)
  PROVE  QuoteOf(q, r)'
<1> USE DEF QuoteOf
<1>1. stage[q] # "idle"
  BY DEF Inv, CallConsistent, InTransaction
<1>2. quote'[q] # "NONE"
  <2>1. ASSUME NEW d \in Call, Step(d) PROVE quote'[q] # "NONE"
    <3>1. CASE Accept(d) \/ Reject(d) \/ Publish(d)
      BY <3>1 DEF Accept, Reject, Publish, Inv, TypeOK
    <3>2. CASE ~(Accept(d) \/ Reject(d) \/ Publish(d))
      BY <2>1, <3>2 DEF Step, FindRequest, LockRequest, FindQuote, LockQuote, Audit,
             DeadlockVictim, rows
    <3> QED
      BY <3>1, <3>2
  <2> QED
    BY <2>1 DEF Next, Submit, Begin, BeginDecision, BeginQuote, Fail, AllDone, vars, rows
<1> QED
  BY <1>1, <1>2, CallKept

(* The rows move under the pages: what they show and wait for stays true.  *)
LEMMA ServerUnderPages ==
  ASSUME PagesInv, Inv', [Next]_vars, UNCHANGED pages,
         \A c \in Call : op'[c] = "accept" => op[c] = "accept"
  PROVE  PagesInv'
<1> USE DEF PagesInv, pages, seller, admins
<1>1. PagesTypeOK'
  BY DEF PagesTypeOK, Inv
<1>2. \A c \in waiting :
        /\ stage'[c] # "idle"
        /\ op'[c] \in Decision => rowAction[req'[c]] = c
  BY CallKept DEF PagesTypeOK
<1>3. ASSUME NEW c \in Call, op'[c] = "accept" PROVE QuoteOf(confirmed[c], req[c])' /\ req'[c] = req[c]
  <2>1. stage[c] # "idle" /\ req[c] \in Request
    BY <1>3 DEF Inv, CallConsistent
  <2> QED
    BY <1>3, <2>1, QuoteStays, CallKept
<1>4. \A r \in Request : shown[r] # None => QuoteOf(shown[r], r)'
  BY QuoteStays
<1>5. ASSUME NEW a \in Admin, NEW r \in Request, submitting[a][r] # None
      PROVE  LET c == submitting[a][r]
             IN stage'[c] # "idle" /\ op'[c] = "quote" /\ req'[c] = r
  <2>1. submitting[a][r] \in Call
    BY <1>5 DEF PagesTypeOK
  <2> QED
    BY <1>5, <2>1, CallKept
<1>6. UNCHANGED <<shown, rowAction, waiting, confirmed, submitting>>
  OBVIOUS
<1>7. (\A c \in waiting :
         /\ stage[c] # "idle"
         /\ op[c] \in Decision => rowAction[req[c]] = c)'
  BY <1>2, <1>6
<1>8. (\A a \in Admin, r \in Request :
         LET c == submitting[a][r]
         IN c # None => stage[c] # "idle" /\ op[c] = "quote" /\ req[c] = r)'
  BY <1>5, <1>6
<1>9. (\A r \in Request : shown[r] # None => QuoteOf(shown[r], r))'
  BY <1>4, <1>6
<1> QED
  BY <1>1, <1>3, <1>7, <1>8, <1>9

LEMMA OfferIsQuote ==
  ASSUME Inv, NEW r \in Request, OfferOf(r) # None
  PROVE  QuoteOf(OfferOf(r), r)
<1>1. OfferOf(r) \in PendingOf(r)
  BY DEF OfferOf
<1> QED
  BY <1>1 DEF PendingOf, QuoteOf

(* What a page does without a call: it forgets, or reads the rows.         *)
LEMMA LoadsInv ==
  ASSUME PagesInv, Load \/ Mount \/ (\E a \in Admin : LoadQueue(a))
  PROVE  PagesInv'
<1> USE DEF PagesInv
<1>1. UNCHANGED vars
  BY DEF Load, Mount, LoadQueue
<1>2. Inv' /\ TypeOK'
  BY <1>1, NextInv DEF Inv
<1>3. \A q, r : QuoteOf(q, r) => QuoteOf(q, r)'
  BY <1>1 DEF QuoteOf, vars
<1>4. CASE Load
  <2>1. \A r \in Request : OfferOf(r) \in Call \cup {None}
    BY OfferIsQuote DEF QuoteOf
  <2>2. PagesTypeOK'
    BY <1>2, <1>4, <2>1 DEF PagesTypeOK, Load, admins
  <2>3. \A r \in Request : shown'[r] # None => QuoteOf(shown[r], r)'
    BY <1>1, <1>4, OfferIsQuote DEF Load, QuoteOf, vars
  <2> QED
    BY <1>1, <1>2, <1>3, <1>4, <2>2, <2>3 DEF Load, admins, vars, QuoteOf
<1>5. CASE Mount
  <2>1. PagesTypeOK'
    BY <1>2, <1>5 DEF PagesTypeOK, Mount, Nothing, admins
  <2> QED
    BY <1>1, <1>2, <1>5, <2>1 DEF Mount, admins, vars, QuoteOf, Decision
<1>6. ASSUME NEW a \in Admin, LoadQueue(a) PROVE PagesInv'
  <2>1. PagesTypeOK'
    BY <1>2, <1>6 DEF PagesTypeOK, LoadQueue, Nothing, seller
  <2>2. \A b \in Admin, r \in Request : submitting'[b][r] \in {None, submitting[b][r]}
    BY <1>6 DEF LoadQueue, Nothing, PagesTypeOK
  <2> QED
    BY <1>1, <1>2, <1>6, <2>1, <2>2 DEF LoadQueue, seller, vars, QuoteOf
<1> QED
  BY <1>4, <1>5, <1>6

(* An answer, or a connection that drops, gives the buttons back or takes  *)
(* the rows away.                                                          *)
LEMMA AnswersInv ==
  ASSUME PagesInv, NEW c \in Call, Decided(c) \/ \E a \in Admin : Quoted(a, c)
  PROVE  PagesInv'
<1> USE DEF PagesInv
<1>1. UNCHANGED <<vars, shown, confirmed>> /\ waiting' = waiting \ {c}
  BY DEF Decided, Quoted, seller
<1>2. Inv' /\ TypeOK'
  BY <1>1, NextInv DEF Inv
<1>3. CASE Decided(c)
  <2>1. req[c] \in Request /\ rowAction[req[c]] = c /\ UNCHANGED <<queue, submitting>>
    BY <1>3 DEF Decided, PagesTypeOK, Inv, CallConsistent, admins
  <2>2. rowAction' \in {rowAction, [rowAction EXCEPT ![req[c]] = None]}
    BY <1>3 DEF Decided
  <2>3. PagesTypeOK'
    BY <1>1, <1>2, <1>3, <2>1, <2>2 DEF PagesTypeOK, Decided
  <2>4. \A d \in waiting \ {c} : op[d] \in Decision => rowAction'[req[d]] = d
    <3>1. \A d \in waiting \ {c} : d \in Call /\ req[d] \in Request
      BY DEF PagesTypeOK, Inv, CallConsistent
    <3> QED
      BY <2>1, <2>2, <3>1 DEF PagesTypeOK
  <2> QED
    BY <1>1, <1>2, <2>1, <2>3, <2>4 DEF vars, QuoteOf
<1>4. ASSUME NEW a \in Admin, Quoted(a, c) PROVE PagesInv'
  <2>1. UNCHANGED <<view, rowAction>>
    BY <1>4 DEF Quoted, seller
  <2>2. req[c] \in Request
    BY <1>4 DEF Quoted, PagesTypeOK, Inv, CallConsistent
  <2>3. \/ queue' = [queue EXCEPT ![a] = {}] /\ submitting' = [submitting EXCEPT ![a] = Nothing]
        \/ queue' = queue /\ submitting' = [submitting EXCEPT ![a][req[c]] = None]
    BY <1>4 DEF Quoted
  <2>4. \A b \in Admin, r \in Request : submitting'[b][r] \in {None, submitting[b][r]}
    BY <2>2, <2>3 DEF Nothing, PagesTypeOK
  <2>5. queue' \in [Admin -> SUBSET Request]
        /\ submitting' \in [Admin -> [Request -> Call \cup {None}]]
    <3>1. Nothing \in [Request -> Call \cup {None}]
          /\ [submitting[a] EXCEPT ![req[c]] = None] \in [Request -> Call \cup {None}]
      BY <2>2 DEF Nothing, PagesTypeOK
    <3>2. /\ {} \in SUBSET Request /\ queue \in [Admin -> SUBSET Request]
          /\ submitting \in [Admin -> [Request -> Call \cup {None}]]
      BY DEF PagesTypeOK
    <3>3. CASE submitting' = [submitting EXCEPT ![a] = Nothing] /\ queue' = [queue EXCEPT ![a] = {}]
      BY <3>1, <3>2, <3>3
    <3>4. CASE submitting' = [submitting EXCEPT ![a][req[c]] = None] /\ queue' = queue
      <4>1. submitting' = [submitting EXCEPT ![a] = [submitting[a] EXCEPT ![req[c]] = None]]
        BY <3>4
      <4> QED
        BY <3>1, <3>2, <3>4, <4>1
    <3> QED
      BY <2>3, <3>3, <3>4
  <2>6. PagesTypeOK'
    BY <1>1, <1>2, <2>1, <2>5 DEF PagesTypeOK
  <2> QED
    BY <1>1, <1>2, <2>1, <2>4, <2>6 DEF vars, QuoteOf
<1> QED
  BY <1>3, <1>4

(* A click sends a call that nobody knows yet, and disables its buttons.   *)
LEMMA ClicksInv ==
  ASSUME PagesInv, NEW c \in Call, NEW r \in Request,
         \/ OnAccept(c, r)
         \/ OnReject(c, r)
         \/ \E a \in Admin, p \in Price : OnQuote(a, c, r, p)
  PROVE  PagesInv'
<1> USE DEF PagesInv
<1>1. Begin(c) /\ stage[c] = "idle" /\ quote[c] = "NONE" /\ op[c] = "none"
  BY DEF OnAccept, OnReject, OnQuote, Decide, Begin, BeginDecision, BeginQuote, Decision,
         Inv, CallConsistent, InTransaction
<1>2. [Next]_vars
  BY <1>1 DEF Next
<1>3. Inv' /\ TypeOK'
  BY <1>2, NextInv DEF Inv
<1>4. /\ req' = [req EXCEPT ![c] = r] /\ waiting' = waiting \cup {c} /\ shown' = shown
      /\ stage'[c] # "idle" /\ view' = view
      /\ \A d \in Call \ {c} : op'[d] = op[d]
  BY DEF OnAccept, OnReject, OnQuote, Decide, BeginDecision, BeginQuote, Goto, Rollback, seller,
         Inv, TypeOK
<1>5. \A d \in waiting : d \in Call /\ d # c /\ stage'[d] # "idle" /\ op'[d] = op[d]
                         /\ req'[d] = req[d] /\ req[d] \in Request
  BY <1>1, <1>2, <1>3, CallKept DEF PagesTypeOK, Inv, CallConsistent
<1>6. \A q \in Call, x \in Request : QuoteOf(q, x) => QuoteOf(q, x)' /\ q # c
  BY <1>1, <1>2, <1>3, QuoteStays DEF QuoteOf
<1>7. \A x \in Request : shown[x] # None => QuoteOf(shown[x], x)' /\ shown[x] \in Call
  BY <1>4, <1>6, QuoteStays DEF PagesTypeOK, QuoteOf
<1>8. ASSUME NEW d \in Call, d # c, op[d] = "accept"
      PROVE  QuoteOf(confirmed[d], req[d]) /\ req[d] \in Request /\ req'[d] = req[d]
  BY <1>4, <1>8 DEF Inv, CallConsistent, TypeOK
<1>9. ASSUME NEW b \in Admin, NEW x \in Request, submitting[b][x] # None
      PROVE  LET d == submitting[b][x]
             IN d \in Call /\ d # c /\ stage'[d] # "idle" /\ op'[d] = "quote" /\ req'[d] = x
  <2>1. submitting[b][x] \in Call
    BY <1>9 DEF PagesTypeOK
  <2> QED
    BY <1>1, <1>2, <1>3, <1>9, <2>1, CallKept
<1>10. ASSUME NEW o \in Decision, Decide(c, r, o),
              confirmed' = IF o = "accept" THEN [confirmed EXCEPT ![c] = shown[r]] ELSE confirmed
       PROVE  PagesInv'
  <2>1. /\ rowAction[r] = None /\ rowAction' = [rowAction EXCEPT ![r] = c]
        /\ shown[r] \in Call /\ op'[c] = o /\ UNCHANGED <<queue, submitting>>
    BY <1>7, <1>10 DEF Decide, Offered, BeginDecision, admins, Inv, TypeOK
  <2>2. PagesTypeOK'
    BY <1>3, <1>4, <1>10, <2>1 DEF PagesTypeOK
  <2>3. (\A d \in waiting : /\ stage[d] # "idle"
                            /\ op[d] \in Decision => rowAction[req[d]] = d)'
    BY <1>4, <1>5, <2>1, NoneAssumption DEF PagesTypeOK, Inv, TypeOK
  <2>4. ASSUME NEW d \in Call, op'[d] = "accept" PROVE QuoteOf(confirmed[d], req[d])'
    <3>1. CASE d = c
      <4>1. confirmed'[c] = shown[r] /\ req'[c] = r
        <5>1. o = "accept" /\ confirmed \in [Call -> Call \cup {None}] /\ req \in [Call -> Request \cup {None}]
          BY <2>1, <2>4, <3>1 DEF PagesTypeOK, Inv, TypeOK
        <5> QED
          BY <1>4, <1>10, <3>1, <5>1
      <4> QED
        BY <1>4, <1>7, <2>1, <3>1, <4>1, NoneAssumption DEF QuoteOf
    <3>2. CASE d # c
      <4>1. confirmed'[d] = confirmed[d] /\ op[d] = "accept"
        BY <1>4, <1>10, <2>4, <3>2 DEF PagesTypeOK
      <4> QED
        BY <1>6, <1>8, <3>2, <4>1 DEF QuoteOf
    <3> QED
      BY <3>1, <3>2
  <2> QED
    BY <1>3, <1>4, <1>7, <1>9, <2>1, <2>2, <2>3, <2>4
<1>11. ASSUME NEW a \in Admin, NEW p \in Price, OnQuote(a, c, r, p) PROVE PagesInv'
  <2>1. /\ submitting' = [submitting EXCEPT ![a][r] = c] /\ op'[c] = "quote"
        /\ UNCHANGED <<rowAction, confirmed, queue>>
    BY <1>11 DEF OnQuote, BeginQuote, seller, Inv, TypeOK
  <2>2. /\ submitting' \in [Admin -> [Request -> Call \cup {None}]]
        /\ \A b \in Admin, x \in Request :
             submitting'[b][x] # submitting[b][x] => x = r /\ submitting'[b][x] = c
    <3>1. [submitting[a] EXCEPT ![r] = c] \in [Request -> Call \cup {None}]
      BY DEF PagesTypeOK
    <3>2. submitting \in [Admin -> [Request -> Call \cup {None}]]
      BY DEF PagesTypeOK
    <3> QED
      BY <2>1, <3>1, <3>2
  <2>3. PagesTypeOK'
    BY <1>3, <1>4, <2>1, <2>2 DEF PagesTypeOK
  <2>4. (\A b \in Admin, x \in Request :
           LET d == submitting[b][x]
           IN d # None => stage[d] # "idle" /\ op[d] = "quote" /\ req[d] = x)'
    BY <1>4, <1>9, <2>1, <2>2 DEF Inv, TypeOK
  <2>5. (\A d \in waiting : /\ stage[d] # "idle"
                            /\ op[d] \in Decision => rowAction[req[d]] = d)'
    BY <1>4, <1>5, <2>1 DEF Decision
  <2>6. ASSUME NEW d \in Call, op'[d] = "accept" PROVE QuoteOf(confirmed[d], req[d])'
    <3>1. d # c /\ op[d] = "accept"
      BY <1>4, <2>1, <2>6
    <3> QED
      BY <1>6, <1>8, <2>1, <3>1 DEF QuoteOf
  <2> QED
    BY <1>3, <1>4, <1>7, <2>3, <2>4, <2>5, <2>6
<1> QED
  BY <1>10, <1>11 DEF OnAccept, OnReject, Decision

LEMMA PagesInitInv == PagesInit => PagesInv
<1> SUFFICES ASSUME PagesInit PROVE PagesInv
  OBVIOUS
<1>1. Inv /\ TypeOK
  BY InitInv DEF PagesInit, Inv
<1>2. PagesTypeOK
  BY <1>1 DEF PagesInit, PagesTypeOK, Nothing
<1> QED
  BY <1>1, <1>2 DEF PagesInit, Init, PagesInv, Nothing

LEMMA PagesStepInv == PagesInv /\ [Pages \/ Server]_all => PagesInv'
<1> SUFFICES ASSUME PagesInv, [Pages \/ Server]_all PROVE PagesInv'
  OBVIOUS
<1>1. [Next]_vars /\ Inv'
  BY PagesStep, NextInv DEF PagesInv
<1>2. CASE Pages
  BY <1>2, LoadsInv, AnswersInv, ClicksInv DEF Pages
<1>3. CASE Server
  <2>1. \A c \in Call : op'[c] = "accept" => op[c] = "accept"
    BY <1>3 DEF Server, Submit, Step, Fail, FindRequest, LockRequest, FindQuote, LockQuote, Accept,
           Reject, Publish, Audit, DeadlockVictim, call
  <2> QED
    BY <1>1, <1>3, <2>1, ServerUnderPages DEF Server
<1>4. CASE UNCHANGED all
  BY <1>1, <1>4, ServerUnderPages DEF all, vars
<1> QED
  BY <1>2, <1>3, <1>4

(* The inductive invariant of the pages: what they show is a quote of its  *)
(* request, and what they wait for has disabled its buttons.               *)
THEOREM PagesInvariance == PagesSpec => []PagesInv
BY PagesInitInv, PagesStepInv, PTL DEF PagesSpec

(* The seller sells for the quote that was confirmed, unless it had been   *)
(* replaced.                                                               *)
THEOREM SoldAsConfirmedOrReplaced == PagesSpec => []ConfirmedOrReplaced
<1>1. PagesInv => ConfirmedOrReplaced
  <2> SUFFICES ASSUME PagesInv, NEW c \in Call, op[c] = "accept", outcome[c] = "ok"
               PROVE  /\ confirmed[c] \in Call /\ req[confirmed[c]] = req[c]
                      /\ listing[req[c]] = confirmed[c] \/ quote[confirmed[c]] = "SUPERSEDED"
    BY DEF ConfirmedOrReplaced
  <2>1. confirmed[c] \in Call /\ quote[confirmed[c]] # "NONE" /\ req[confirmed[c]] = req[c]
    BY DEF PagesInv, QuoteOf
  <2>2. status[req[c]] = "ACCEPTED" /\ req[c] \in Request
    BY DEF PagesInv, Inv, CallConsistent
  <2>3. quote[confirmed[c]] \in {"ACCEPTED", "SUPERSEDED"}
    BY <2>1, <2>2 DEF PagesInv, Inv, TypeOK, QuoteStatus, BookConsistent, PendingOf, QuotesOf
  <2> QED
    BY <2>1, <2>2, <2>3 DEF PagesInv, Inv, BookConsistent, QuotesOf
<1> QED
  BY <1>1, PagesInvariance, PTL

(* Of the clicks on one request, the page waits for one.                   *)
THEOREM OneDecisionIsWaiting == PagesSpec => []OneDecisionWaiting
<1>1. PagesInv => OneDecisionWaiting
  BY DEF PagesInv, OneDecisionWaiting
<1> QED
  BY <1>1, PagesInvariance, PTL
=============================================================================
