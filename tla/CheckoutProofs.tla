--------------------------- MODULE CheckoutProofs ---------------------------
(***************************************************************************)
(* What holds of one checkout key and of one tab, for any keys, calls,     *)
(* lengths of lease, lag and poll: CheckoutInv is inductive for every step *)
(* of Checkout, Inv for every step of the tab on top of it.                *)
(***************************************************************************)
EXTENDS BuyerPassPanel, TLAPS

LEMMA InitInv == Init => CheckoutInv
  <1> SUFFICES ASSUME Init PROVE CheckoutInv
    OBVIOUS
  <1> USE DEF Init
  <1>1. TypeOK
    BY TimeAssumption DEF TypeOK, Stage, Working, Outcome
  <1>2. \A c \in Call : ~Busy(c)
    BY DEF Busy, Working
  <1>3. OrderConsistent /\ CallConsistent /\ OneCreator /\ RefusedUnoffered
    BY <1>2, TimeAssumption DEF OrderConsistent, CallConsistent, OrderHolds,
       CallHolds, OneCreator, RefusedUnoffered
  <1>4. QED
    BY <1>1, <1>3 DEF CheckoutInv

(* A call that does nothing to its order's row, its link or its lease, but *)
(* may answer a link that is saved.                                        *)
LEMMA QuietInv ==
  ASSUME CheckoutInv, NEW c \in Call, TypeOK',
         UNCHANGED <<clock, order, payos, flying, since>>,
         fresh' \subseteq fresh \ {c},
         \A d \in Call \ {c} :
           key'[d] = key[d] /\ stage'[d] = stage[d] /\ outcome'[d] = outcome[d],
         key'[c] \in Key, stage[c] = "idle" \/ key'[c] = key[c],
         Busy(c)' => Busy(c),
         stage'[c] \notin {"idle", "create", "await", "rejected"},
         c \in flying => stage'[c] = "done",
         stage'[c] = "refuse" => link[key'[c]] = "NONE",
         stage'[c] \in {"recovered", "accepted", "save"} => link[key'[c]] # "NONE",
         outcome'[c] = "url" => key'[c] \in offered' /\ stage'[c] = "done",
         offered \subseteq offered',
         \A k \in offered' \ offered : k \in url /\ status[k] # "FAILED"
  PROVE  CheckoutInv'
  <1> USE DEF CheckoutInv, CallConsistent, OrderConsistent, order, payos
  <1>1. \A d \in Call : Busy(d)' => Busy(d) /\ key'[d] = key[d]
    <2>1. Busy(c) => stage[c] # "idle"
      BY DEF Busy, Working, CallHolds
    <2>2. ASSUME NEW d \in Call, d # c PROVE Busy(d)' => Busy(d) /\ key'[d] = key[d]
      BY <2>2 DEF Busy
    <2>3. QED
      BY <2>1, <2>2
  <1>2. OrderConsistent'
    BY <1>1 DEF OrderHolds
  <1>3. OneCreator' /\ RefusedUnoffered'
    BY <1>1 DEF OneCreator, RefusedUnoffered
  <1>4. ASSUME NEW d \in Call PROVE CallHolds(d)'
    BY <1>1 DEF CallHolds
  <1>5. QED
    BY <1>2, <1>3, <1>4

LEMMA BeginInv ==
  ASSUME CheckoutInv, NEW c \in Call, NEW k \in Key, Begin(c, k)
  PROVE  CheckoutInv'
  <1>1. TypeOK'
    BY DEF CheckoutInv, TypeOK, Begin, Goto, order, payos, Stage
  <1>2. stage[c] = "idle" /\ stage' = [stage EXCEPT ![c] = "find"] /\ key' = [key EXCEPT ![c] = k]
    BY DEF Begin, Goto
  <1>3. c \notin flying /\ c \notin fresh /\ outcome[c] # "url" /\ ~Busy(c)'
    BY <1>2 DEF CheckoutInv, CallConsistent, CallHolds, Busy, Working, TypeOK, Begin
  <1>4. QED
    BY <1>1, <1>2, <1>3, QuietInv DEF CheckoutInv, TypeOK, Begin, Goto

LEMMA FindInv ==
  ASSUME CheckoutInv, NEW c \in Call, Find(c)
  PROVE  CheckoutInv'
  <1>1. stage[c] = "find" /\ key[c] \in Key /\ c \notin flying /\ c \notin fresh
        /\ outcome[c] # "url" /\ ~Busy(c)
    BY DEF Find, CheckoutInv, CallConsistent, CallHolds, Busy, Working
  <1>2. TypeOK'
    BY <1>1 DEF CheckoutInv, TypeOK, Find, Goto, Return, Offer, order, payos, Stage, Outcome
  <1>3. /\ \A d \in Call \ {c} : stage'[d] = stage[d] /\ outcome'[d] = outcome[d]
        /\ fresh' \subseteq fresh \ {c}
        /\ stage'[c] \in {"insert", "done", "recover"}
        /\ outcome'[c] = "url" => key[c] \in offered' /\ stage'[c] = "done"
        /\ offered \subseteq offered'
        /\ \A k \in offered' \ offered : k \in url /\ status[k] # "FAILED"
    BY <1>1 DEF Find, Goto, Return, Offer, CheckoutInv, TypeOK
  <1>4. ~Busy(c)'
    BY <1>1, <1>3 DEF Busy, Working, Find
  <1>5. QED
    BY <1>1, <1>2, <1>3, <1>4, QuietInv DEF Find

(* Once its life is over, payOS finds what was accepted before the lease.   *)
LEMMA RecoverInv ==
  ASSUME CheckoutInv, NEW c \in Call, Recover(c)
  PROVE  CheckoutInv'
  <1>1. /\ stage[c] \in {"recover", "rejected"} /\ key[c] \in Key
        /\ c \notin flying /\ c \notin fresh /\ outcome[c] # "url"
    BY DEF Recover, CheckoutInv, CallConsistent, CallHolds
  <1>2. TypeOK'
    BY <1>1 DEF CheckoutInv, TypeOK, Recover, Goto, Return, order, payos, Stage, Working, Outcome
  <1>3. ASSUME stage[c] = "rejected", Missing(key[c]) PROVE link[key[c]] = "NONE"
    <2>1. link[key[c]] # "NONE" => made[key[c]] + Lag <= since[c] /\ since[c] <= touched[key[c]]
      BY <1>1, <1>3 DEF CheckoutInv, CallConsistent, CallHolds, Busy, Working
    <2>2. touched[key[c]] <= clock
      BY <1>1 DEF CheckoutInv, OrderConsistent, OrderHolds
    <2>3. QED
      BY <1>1, <1>3, <2>1, <2>2, TimeAssumption DEF Missing, CheckoutInv, TypeOK
  <1>4. /\ \A d \in Call \ {c} : stage'[d] = stage[d] /\ outcome'[d] = outcome[d]
        /\ fresh' \subseteq fresh \ {c}
        /\ stage'[c] \in {"recovered", "save", "lease", "refuse", "done"}
        /\ stage'[c] \in {"recovered", "save"} => link[key[c]] # "NONE"
        /\ stage'[c] = "refuse" => link[key[c]] = "NONE"
        /\ stage'[c] \in Working => stage[c] = "rejected"
        /\ outcome'[c] # "url"
    BY <1>1, <1>3 DEF Recover, Goto, Return, CheckoutInv, TypeOK, Working
  <1>5. Busy(c)' => Busy(c)
    BY <1>1, <1>4 DEF Busy, Working, Recover
  <1>6. QED
    BY <1>1, <1>2, <1>4, <1>5, QuietInv DEF Recover

LEMMA FailInv ==
  ASSUME CheckoutInv, NEW c \in Call, Fail(c)
  PROVE  CheckoutInv'
  <1>1. key[c] \in Key
    BY DEF Fail, CheckoutInv, CallConsistent, CallHolds
  <1>2. TypeOK'
    BY DEF CheckoutInv, TypeOK, Fail, Return, order, payos, Stage, Outcome
  <1>3. /\ \A d \in Call \ {c} : stage'[d] = stage[d] /\ outcome'[d] = outcome[d]
        /\ stage'[c] = "done" /\ outcome'[c] = "unavailable" /\ fresh' = fresh \ {c}
    BY DEF Fail, Return, CheckoutInv, TypeOK
  <1>4. Busy(c)' => Busy(c)
    BY <1>3 DEF Busy, Working, Fail
  <1>5. QED
    BY <1>1, <1>2, <1>3, <1>4, QuietInv DEF Fail

(* The unique key: nobody has worked on an order that has no row.           *)
LEMMA InsertInv ==
  ASSUME CheckoutInv, NEW c \in Call, Insert(c)
  PROVE  CheckoutInv'
  <1> USE DEF CheckoutInv, CallConsistent, OrderConsistent
  <1>1. /\ stage[c] = "insert" /\ key[c] \in Key /\ c \notin flying /\ c \notin fresh
        /\ outcome[c] # "url" /\ ~Busy(c)
    BY DEF Insert, CallHolds, Busy, Working
  <1>2. TypeOK'
    BY <1>1 DEF TypeOK, Insert, Goto, payos, Stage, Working
  <1>3. CASE status[key[c]] # "NONE"
    <2>1. UNCHANGED order /\ Goto(c, "find")
      BY <1>3 DEF Insert, order
    <2>2. ~Busy(c)'
      BY <1>1, <2>1 DEF Busy, Working, Insert, Goto, TypeOK
    <2>3. QED
      BY <1>1, <1>2, <2>1, <2>2, QuietInv DEF Insert, Goto, TypeOK
  <1>4. CASE status[key[c]] = "NONE"
    <2>1. /\ UNCHANGED <<clock, url, link, made, told, offered, flying, key, outcome>>
          /\ status' = [status EXCEPT ![key[c]] = "PENDING"]
          /\ touched' = [touched EXCEPT ![key[c]] = clock]
          /\ since' = [since EXCEPT ![c] = clock]
          /\ stage' = [stage EXCEPT ![c] = "create"]
          /\ fresh' = fresh \cup {c}
      BY <1>4 DEF Insert, payos
    <2>2. /\ link[key[c]] = "NONE"
          /\ \A d \in Call : Busy(d) => key[d] # key[c]
      BY <1>1, <1>4 DEF OrderHolds
    <2>3. \A d \in Call \ {c} : Busy(d)' <=> Busy(d)
      BY <2>1 DEF Busy, TypeOK
    <2>4. ASSUME NEW k \in Key PROVE OrderHolds(k)'
      BY <1>1, <2>1, <2>2, <2>3, TimeAssumption DEF OrderHolds, TypeOK
    <2>5. OneCreator' /\ RefusedUnoffered'
      BY <1>1, <2>1, <2>2, <2>3 DEF OneCreator, RefusedUnoffered, TypeOK
    <2>6. ASSUME NEW d \in Call PROVE CallHolds(d)'
      <3>1. CASE d = c
        BY <1>1, <2>1, <2>2, <3>1, TimeAssumption DEF CallHolds, TypeOK
      <3>2. CASE d # c
        BY <1>1, <2>1, <2>2, <2>3, <3>2 DEF CallHolds, TypeOK
      <3>3. QED
        BY <3>1, <3>2
    <2>7. QED
      BY <1>2, <2>4, <2>5, <2>6
  <1>5. QED
    BY <1>3, <1>4

(* The lease: whoever worked on the order before has ended, and what it     *)
(* left at payOS can be found by now.                                       *)
LEMMA ClaimInv ==
  ASSUME CheckoutInv, NEW c \in Call, Claim(c)
  PROVE  CheckoutInv'
  <1> USE DEF CheckoutInv, CallConsistent, OrderConsistent
  <1>1. /\ stage[c] = "lease" /\ key[c] \in Key /\ c \notin flying /\ c \notin fresh
        /\ outcome[c] # "url" /\ ~Busy(c)
    BY DEF Claim, CallHolds, Busy, Working
  <1>2. TypeOK'
    BY <1>1 DEF TypeOK, Claim, Goto, Return, payos, Stage, Working, Outcome
  <1> DEFINE Free == status[key[c]] = "PENDING" /\ key[c] \notin url /\ Expired(key[c])
  <1>3. CASE ~Free
    <2>1. UNCHANGED order /\ Return(c, "unavailable") /\ UNCHANGED since
      BY <1>3 DEF Claim, order
    <2>2. ~Busy(c)'
      BY <1>1, <2>1 DEF Busy, Working, Claim, Return, TypeOK
    <2>3. QED
      BY <1>1, <1>2, <2>1, <2>2, QuietInv DEF Claim, Return, TypeOK
  <1>4. CASE Free
    <2>1. /\ UNCHANGED <<clock, status, url, link, made, told, offered, flying, key, outcome, fresh>>
          /\ touched' = [touched EXCEPT ![key[c]] = clock]
          /\ since' = [since EXCEPT ![c] = clock]
          /\ stage' = [stage EXCEPT ![c] = "create"]
      BY <1>4 DEF Claim, payos, Goto
    <2>2. touched[key[c]] + Lease <= clock /\ status[key[c]] = "PENDING"
      BY <1>4 DEF Expired
    <2>3. ASSUME NEW d \in Call, Busy(d) PROVE key[d] # key[c]
      <3>1. key[d] = key[c] => touched[key[c]] \in Nat /\ since[d] \in Nat
        BY <1>1 DEF TypeOK
      <3>2. key[d] = key[c] => clock <= touched[key[c]] + MaxLife
        BY <2>3, <3>1, TimeAssumption DEF CallHolds, TypeOK
      <3>3. QED
        BY <1>1, <2>2, <3>2, TimeAssumption DEF TypeOK
    <2>4. link[key[c]] # "NONE" => made[key[c]] + Lag <= clock
      BY <1>1, <2>2, TimeAssumption DEF OrderHolds, TypeOK
    <2>5. \A d \in Call \ {c} : Busy(d)' <=> Busy(d)
      BY <2>1 DEF Busy, TypeOK
    <2>6. ASSUME NEW k \in Key PROVE OrderHolds(k)'
      BY <1>1, <2>1, <2>2, <2>3, <2>5, TimeAssumption DEF OrderHolds, TypeOK
    <2>7. OneCreator' /\ RefusedUnoffered'
      BY <1>1, <2>1, <2>3, <2>5 DEF OneCreator, RefusedUnoffered, TypeOK
    <2>8. ASSUME NEW d \in Call PROVE CallHolds(d)'
      <3>1. CASE d = c
        BY <1>1, <2>1, <2>4, <3>1, TimeAssumption DEF CallHolds, TypeOK
      <3>2. CASE d # c
        BY <1>1, <2>1, <2>3, <2>5, <3>2 DEF CallHolds, TypeOK
      <3>3. QED
        BY <3>1, <3>2
    <2>9. QED
      BY <1>2, <2>6, <2>7, <2>8
  <1>5. QED
    BY <1>3, <1>4

LEMMA SendInv ==
  ASSUME CheckoutInv, NEW c \in Call, Send(c)
  PROVE  CheckoutInv'
  <1> USE DEF CheckoutInv, CallConsistent, OrderConsistent
  <1>1. TypeOK'
    BY DEF TypeOK, Send, Goto, order, payos, Stage, Working
  <1>2. \A d \in Call : Busy(d)' <=> Busy(d)
    BY DEF Busy, TypeOK, Send, Goto, Working
  <1>3. OrderConsistent' /\ OneCreator' /\ RefusedUnoffered'
    BY <1>2 DEF OrderHolds, OneCreator, RefusedUnoffered, Send, order, payos
  <1>4. ASSUME NEW d \in Call PROVE CallHolds(d)'
    BY <1>2 DEF CallHolds, TypeOK, Send, Goto, order, payos
  <1>5. QED
    BY <1>1, <1>3, <1>4

LEMMA LoseInv ==
  ASSUME CheckoutInv, NEW c \in Call, Lose(c)
  PROVE  CheckoutInv'
  <1> USE DEF CheckoutInv, CallConsistent, OrderConsistent
  <1>1. TypeOK'
    BY DEF TypeOK, Lose, order, payos
  <1>2. \A d \in Call : Busy(d)' => Busy(d)
    BY DEF Busy, Lose
  <1>3. OrderConsistent' /\ OneCreator' /\ RefusedUnoffered'
    BY <1>2 DEF OrderHolds, OneCreator, RefusedUnoffered, Lose, order, payos
  <1>4. ASSUME NEW d \in Call PROVE CallHolds(d)'
    BY <1>2 DEF CallHolds, Lose, order, payos
  <1>5. QED
    BY <1>1, <1>3, <1>4

(* payOS decides while the call that sent the request is in its life, so   *)
(* nobody else's work is about the same order.                             *)
LEMMA ArriveInv ==
  ASSUME CheckoutInv, NEW c \in Call, Arrive(c)
  PROVE  CheckoutInv'
  <1> USE DEF CheckoutInv, CallConsistent, OrderConsistent
  <1>1. /\ c \in flying /\ stage[c] \in {"await", "done"} /\ key[c] \in Key /\ Busy(c)
        /\ since[c] <= touched[key[c]] /\ clock <= since[c] + MaxLife
    BY DEF Arrive, CallHolds, Busy
  <1>2. TypeOK'
    BY <1>1 DEF TypeOK, Arrive, Goto, order, Stage, Working
  <1>3. /\ flying' = flying \ {c}
        /\ UNCHANGED <<clock, status, url, touched, told, offered, key, fresh, since, outcome>>
        /\ \A d \in Call \ {c} : stage'[d] = stage[d]
        /\ stage[c] = "done" => stage' = stage
        /\ stage[c] = "await" => stage'[c] \in {"accepted", "rejected"}
    BY <1>1 DEF Arrive, Goto, order, TypeOK
  <1>4. \/ /\ link[key[c]] = "NONE"
           /\ link' = [link EXCEPT ![key[c]] = "PENDING"] /\ made' = [made EXCEPT ![key[c]] = clock]
           /\ stage'[c] \in {"accepted", "done"}
        \/ UNCHANGED <<link, made>> /\ stage'[c] \in {"rejected", "done"}
    BY <1>1 DEF Arrive, Goto, TypeOK
  <1>5. \A d \in Call : d # c /\ Busy(d) => key[d] # key[c]
    BY <1>1 DEF OneCreator
  <1>6. \A d \in Call : Busy(d)' => Busy(d)
    BY <1>1, <1>3 DEF Busy, Working
  <1>7. ASSUME NEW k \in Key PROVE OrderHolds(k)'
    <2>1. CASE k = key[c]
      <3>1. status[k] \notin {"NONE", "FAILED"}
        BY <1>1, <2>1 DEF OrderHolds
      <3>2. clock <= touched[k] + MaxLife
        BY <1>1, <2>1, TimeAssumption DEF TypeOK
      <3>3. QED
        BY <1>1, <1>3, <1>4, <2>1, <3>1, <3>2 DEF OrderHolds, TypeOK
    <2>2. CASE k # key[c]
      BY <1>1, <1>3, <1>4, <1>6, <2>2 DEF OrderHolds, TypeOK
    <2>3. QED
      BY <2>1, <2>2
  <1>8. OneCreator' /\ RefusedUnoffered'
    BY <1>3, <1>6 DEF OneCreator, RefusedUnoffered
  <1>9. ASSUME NEW d \in Call PROVE CallHolds(d)'
    <2>1. CASE d = c
      BY <1>1, <1>3, <1>4, <2>1 DEF CallHolds, TypeOK
    <2>2. CASE d # c /\ key[d] = key[c]
      <3>1. ~Busy(d)
        BY <1>5, <2>2
      <3>2. QED
        BY <1>1, <1>3, <1>4, <1>6, <2>2, <3>1 DEF CallHolds, TypeOK, Busy, Working
    <2>3. CASE d # c /\ key[d] # key[c]
      BY <1>1, <1>3, <1>4, <1>6, <2>3 DEF CallHolds, TypeOK
    <2>4. QED
      BY <2>1, <2>2, <2>3
  <1>10. QED
    BY <1>2, <1>7, <1>8, <1>9

LEMMA SaveInv ==
  ASSUME CheckoutInv, NEW c \in Call, Save(c)
  PROVE  CheckoutInv'
  <1> USE DEF CheckoutInv, CallConsistent, OrderConsistent
  <1>1. /\ stage[c] \in {"accepted", "save", "recovered"} /\ key[c] \in Key /\ c \notin flying
        /\ link[key[c]] # "NONE" /\ status[key[c]] \notin {"NONE", "FAILED"}
    BY DEF Save, CallHolds, OrderHolds
  <1>2. /\ UNCHANGED <<clock, status, link, made, told, flying, key, since>>
        /\ url' = url \cup {key[c]} /\ offered' = offered \cup {key[c]}
        /\ touched' = [touched EXCEPT ![key[c]] = clock]
        /\ stage' = [stage EXCEPT ![c] = "done"]
        /\ outcome' = [outcome EXCEPT ![c] = "url"]
        /\ fresh' = fresh \ {c}
    BY DEF Save, Offer, Return, payos
  <1>3. TypeOK'
    BY <1>1, <1>2 DEF TypeOK, Stage, Outcome
  <1>4. \A d \in Call : Busy(d)' => Busy(d)
    BY <1>1, <1>2 DEF Busy, Working, TypeOK
  <1>5. ASSUME NEW k \in Key PROVE OrderHolds(k)'
    BY <1>1, <1>2, <1>4, TimeAssumption DEF OrderHolds, TypeOK
  <1>6. OneCreator' /\ RefusedUnoffered'
    BY <1>1, <1>2, <1>4 DEF OneCreator, RefusedUnoffered
  <1>7. ASSUME NEW d \in Call PROVE CallHolds(d)'
    <2>1. Busy(d)' => since[d] <= touched'[key[d]]
      BY <1>1, <1>2, <1>4, TimeAssumption DEF CallHolds, OrderHolds, TypeOK, Busy, Working
    <2>2. QED
      BY <1>1, <1>2, <1>4, <2>1 DEF CallHolds, TypeOK
  <1>8. QED
    BY <1>3, <1>5, <1>6, <1>7

LEMMA RefuseInv ==
  ASSUME CheckoutInv, NEW c \in Call, Refuse(c)
  PROVE  CheckoutInv' /\ link[key[c]] = "NONE"
  <1> USE DEF CheckoutInv, CallConsistent, OrderConsistent
  <1>1. /\ stage[c] \in {"refuse", "rejected"} /\ key[c] \in Key /\ c \notin flying
        /\ link[key[c]] = "NONE" /\ Busy(c)
    BY DEF Refuse, CallHolds, Busy, Working
  <1>2. /\ UNCHANGED <<clock, url, link, made, told, offered, flying, key, since>>
        /\ status' = [status EXCEPT ![key[c]] = "FAILED"]
        /\ touched' = [touched EXCEPT ![key[c]] = clock]
        /\ stage' = [stage EXCEPT ![c] = "done"]
        /\ outcome' = [outcome EXCEPT ![c] = "rejected"]
        /\ fresh' = fresh \ {c}
    BY DEF Refuse, Return, payos
  <1>3. TypeOK'
    BY <1>1, <1>2 DEF TypeOK, Stage, Outcome
  <1>4. \A d \in Call : Busy(d)' => Busy(d) /\ d # c
    BY <1>1, <1>2 DEF Busy, Working, TypeOK
  <1>5. \A d \in Call : Busy(d)' => key[d] # key[c]
    BY <1>1, <1>4 DEF OneCreator
  <1>6. key[c] \notin url /\ key[c] \notin offered
    BY <1>1 DEF OrderHolds
  <1>7. ASSUME NEW k \in Key PROVE OrderHolds(k)'
    BY <1>1, <1>2, <1>4, <1>5, <1>6, TimeAssumption DEF OrderHolds, TypeOK
  <1>8. OneCreator' /\ RefusedUnoffered'
    BY <1>1, <1>2, <1>4, <1>6 DEF OneCreator, RefusedUnoffered, TypeOK
  <1>9. ASSUME NEW d \in Call PROVE CallHolds(d)'
    BY <1>1, <1>2, <1>4, <1>5 DEF CallHolds, TypeOK
  <1>10. QED
    BY <1>1, <1>3, <1>7, <1>8, <1>9

(* The payer and the webhook touch no order without a link.                *)
LEMMA PayInv ==
  ASSUME CheckoutInv, NEW k \in Key, Pay(k)
  PROVE  CheckoutInv'
  <1> USE DEF CheckoutInv, CallConsistent, OrderConsistent
  <1>1. /\ UNCHANGED <<clock, status, url, touched, made, told, offered, flying, key, fresh,
                       since, stage, outcome>>
        /\ link \in [Key -> {"NONE", "PENDING", "PAID", "CANCELLED"}]
        /\ k \in offered /\ link[k] = "PENDING"
        /\ \E s \in {"PAID", "CANCELLED"} : link' = [link EXCEPT ![k] = s]
    BY DEF Pay, order, TypeOK
  <1>2. TypeOK'
    BY <1>1 DEF TypeOK
  <1>3. \A d \in Call : Busy(d)' <=> Busy(d)
    BY <1>1 DEF Busy
  <1>4. ASSUME NEW j \in Key PROVE OrderHolds(j)'
    BY <1>1, <1>3 DEF OrderHolds
  <1>5. ASSUME NEW d \in Call PROVE CallHolds(d)'
    BY <1>1, <1>3 DEF CallHolds, Busy, Working
  <1>6. QED
    BY <1>1, <1>2, <1>3, <1>4, <1>5 DEF OneCreator, RefusedUnoffered

LEMMA NotifyInv ==
  ASSUME CheckoutInv, NEW k \in Key, Notify(k)
  PROVE  CheckoutInv'
  <1> USE DEF CheckoutInv, CallConsistent, OrderConsistent
  <1>1. /\ UNCHANGED <<clock, url, link, made, offered, flying, key, fresh, since, stage, outcome>>
        /\ told' = told \cup {k} /\ link[k] = "PAID"
        /\ \/ UNCHANGED <<status, touched>>
           \/ /\ status' = [status EXCEPT ![k] = "PAID"]
              /\ touched' = [touched EXCEPT ![k] = clock]
    BY DEF Notify
  <1>2. TypeOK'
    BY <1>1 DEF TypeOK
  <1>3. \A d \in Call : Busy(d)' <=> Busy(d)
    BY <1>1 DEF Busy
  <1>4. ASSUME NEW j \in Key PROVE OrderHolds(j)'
    BY <1>1, <1>3, TimeAssumption DEF OrderHolds, TypeOK
  <1>5. ASSUME NEW d \in Call PROVE CallHolds(d)'
    <2>1. Busy(d)' => since[d] <= touched'[key[d]]
      BY <1>1, <1>3, TimeAssumption DEF CallHolds, OrderHolds, TypeOK, Busy, Working
    <2>2. QED
      BY <1>1, <1>3, <2>1 DEF CallHolds
  <1>6. OneCreator' /\ RefusedUnoffered'
    BY <1>1, <1>3 DEF OneCreator, RefusedUnoffered, TypeOK
  <1>7. QED
    BY <1>2, <1>4, <1>5, <1>6

LEMMA TickInv ==
  ASSUME CheckoutInv, Tick
  PROVE  CheckoutInv'
  <1> USE DEF CheckoutInv, CallConsistent, OrderConsistent
  <1>1. /\ UNCHANGED <<status, url, touched, link, made, told, offered, flying, key, fresh,
                       since, stage, outcome>>
        /\ clock' = clock + 1 /\ clock < MaxClock
        /\ \A d \in Call : Busy(d) => clock < since[d] + MaxLife
    BY DEF Tick, order, payos
  <1>2. TypeOK'
    BY <1>1, TimeAssumption DEF TypeOK
  <1>3. \A d \in Call : Busy(d)' <=> Busy(d)
    BY <1>1 DEF Busy
  <1>4. ASSUME NEW j \in Key PROVE OrderHolds(j)'
    BY <1>1, <1>3 DEF OrderHolds, TypeOK
  <1>5. ASSUME NEW d \in Call PROVE CallHolds(d)'
    <2>1. Busy(d) => clock + 1 <= since[d] + MaxLife
      BY <1>1, TimeAssumption DEF TypeOK
    <2>2. QED
      BY <1>1, <1>3, <2>1 DEF CallHolds
  <1>6. QED
    BY <1>1, <1>2, <1>3, <1>4, <1>5 DEF OneCreator, RefusedUnoffered

LEMMA StepInv == CheckoutInv /\ [Next]_vars => CheckoutInv'
  <1> SUFFICES ASSUME CheckoutInv, [Next]_vars PROVE CheckoutInv'
    OBVIOUS
  <1>1. CASE UNCHANGED vars
    BY <1>1 DEF vars, order, payos, CheckoutInv, TypeOK, OrderConsistent, OrderHolds,
       CallConsistent, CallHolds, Busy, OneCreator, RefusedUnoffered
  <1>2. CASE \E c \in Call : Step(c) \/ Arrive(c) \/ Lose(c)
    BY <1>2, FindInv, InsertInv, RecoverInv, ClaimInv, SendInv, SaveInv, RefuseInv, FailInv,
       ArriveInv, LoseInv DEF Step
  <1>3. CASE Tick \/ \E k \in Key : Pay(k) \/ Notify(k)
    BY <1>3, TickInv, PayInv, NotifyInv
  <1>4. CASE \E c \in Call, k \in Key : Begin(c, k)
    BY <1>4, BeginInv
  <1>5. QED
    BY <1>1, <1>2, <1>3, <1>4 DEF Next, World
-----------------------------------------------------------------------------
(* The sale of each key. *)

LEMMA OneKeyMoves ==
  ASSUME NEW k \in Key,
         \A j \in Key \ {k} : StateOf(j)' = StateOf(j),
         StateOf(k)' = StateOf(k) \/ <<StateOf(k), StateOf(k)'>> \in Sold!Moves
  PROVE  [Sold!Next]_([j \in Key |-> StateOf(j)])
  <1> DEFINE sale == [j \in Key |-> StateOf(j)]
  <1>1. sale' = [sale EXCEPT ![k] = StateOf(k)']
    OBVIOUS
  <1>2. CASE StateOf(k)' = StateOf(k)
    BY <1>2
  <1>3. CASE <<StateOf(k), StateOf(k)'>> \in Sold!Moves
    <2>1. \E m \in Sold!Moves : sale[k] = m[1] /\ sale' = [sale EXCEPT ![k] = m[2]]
      BY <1>1, <1>3
    <2>2. QED
      BY <2>1 DEF Sold!Next, Sold!Move
  <1>4. QED
    BY <1>2, <1>3

(* Nothing but its row, its link and who was given it tell of a sale.      *)
LEMMA NothingMoves ==
  ASSUME UNCHANGED <<status, link, offered>>
  PROVE  [Sold!Next]_([j \in Key |-> StateOf(j)])
  BY DEF StateOf

(* A link that is answered offers an order that is open. *)
LEMMA OfferMoves ==
  ASSUME CheckoutInv, NEW k \in Key, link[k] # "NONE", UNCHANGED <<status, link>>,
         offered' = offered \cup {k}
  PROVE  [Sold!Next]_([j \in Key |-> StateOf(j)])
  <1>1. \A j \in Key \ {k} : StateOf(j)' = StateOf(j)
    BY DEF StateOf
  <1>2. status[k] \in {"PENDING", "PAID"} /\ (link[k] = "PAID" => k \in offered)
    BY DEF CheckoutInv, TypeOK, OrderConsistent, OrderHolds
  <1>3. StateOf(k)' = StateOf(k) \/ <<StateOf(k), StateOf(k)'>> \in Sold!Moves
    BY <1>2 DEF StateOf, Sold!Moves
  <1>4. QED
    BY <1>1, <1>3, OneKeyMoves

LEMMA StepMoves ==
  ASSUME CheckoutInv, [Next]_vars
  PROVE  [Sold!Next]_([j \in Key |-> StateOf(j)])
  <1> USE DEF CheckoutInv, CallConsistent, OrderConsistent
  <1>1. ASSUME NEW c \in Call, Find(c) \/ Save(c) PROVE [Sold!Next]_([j \in Key |-> StateOf(j)])
    <2>1. CASE UNCHANGED offered
      BY <1>1, <2>1, NothingMoves DEF Find, Save, order, payos
    <2>2. CASE offered' = offered \cup {key[c]}
      <3>1. key[c] \in Key /\ link[key[c]] # "NONE" /\ UNCHANGED <<status, link>>
        BY <1>1, <2>2 DEF Find, Save, order, payos, CallHolds, OrderHolds, Offer, Goto, Return
      <3>2. QED
        BY <2>2, <3>1, OfferMoves
    <2>3. QED
      BY <1>1, <2>1, <2>2 DEF Find, Save, Offer
  <1>2. ASSUME NEW c \in Call, Insert(c) PROVE [Sold!Next]_([j \in Key |-> StateOf(j)])
    <2>1. CASE UNCHANGED status
      BY <1>2, <2>1, NothingMoves DEF Insert, payos
    <2>2. CASE status[key[c]] = "NONE" /\ status' = [status EXCEPT ![key[c]] = "PENDING"]
      <3>1. PICK k \in Key : k = key[c] /\ link[k] = "NONE" /\ k \notin offered
        BY <1>2, <2>2 DEF Insert, CallHolds, OrderHolds
      <3>2. status'[k] = "PENDING" /\ UNCHANGED <<link, offered>>
        BY <1>2, <2>2, <3>1 DEF Insert, payos, TypeOK
      <3>3. \A j \in Key \ {k} : StateOf(j)' = StateOf(j)
        BY <2>2, <3>1, <3>2 DEF StateOf, TypeOK
      <3>4. <<StateOf(k), StateOf(k)'>> \in Sold!Moves
        BY <2>2, <3>1, <3>2 DEF StateOf, Sold!Moves
      <3>5. QED
        BY <3>3, <3>4, OneKeyMoves
    <2>3. QED
      BY <1>2, <2>1, <2>2 DEF Insert
  <1>3. ASSUME NEW c \in Call, Refuse(c) PROVE [Sold!Next]_([j \in Key |-> StateOf(j)])
    <2>1. PICK k \in Key : /\ k = key[c] /\ link[k] = "NONE" /\ k \notin offered
                           /\ status[k] = "PENDING"
      BY <1>3, RefuseInv DEF Refuse, CallHolds, OrderHolds, TypeOK, Busy, Working
    <2>2. status' = [status EXCEPT ![k] = "FAILED"] /\ UNCHANGED <<link, offered>>
      BY <1>3, <2>1 DEF Refuse, payos
    <2>3. \A j \in Key \ {k} : StateOf(j)' = StateOf(j)
      BY <2>1, <2>2 DEF StateOf, TypeOK
    <2>4. <<StateOf(k), StateOf(k)'>> \in Sold!Moves
      BY <2>1, <2>2 DEF StateOf, Sold!Moves, TypeOK
    <2>5. QED
      BY <2>3, <2>4, OneKeyMoves
  <1>4. ASSUME NEW c \in Call, Arrive(c) PROVE [Sold!Next]_([j \in Key |-> StateOf(j)])
    <2>1. UNCHANGED <<status, offered>>
          /\ \A j \in Key : link'[j] = link[j] \/ (link[j] = "NONE" /\ link'[j] = "PENDING")
      BY <1>4 DEF Arrive, order, TypeOK
    <2>2. \A j \in Key : StateOf(j)' = StateOf(j)
      BY <2>1 DEF StateOf
    <2>3. QED
      BY <2>2
  <1>5. ASSUME NEW k \in Key, Pay(k) PROVE [Sold!Next]_([j \in Key |-> StateOf(j)])
    <2>1. /\ k \in offered /\ link[k] = "PENDING" /\ UNCHANGED <<status, offered>>
          /\ \E s \in {"PAID", "CANCELLED"} : link' = [link EXCEPT ![k] = s]
      BY <1>5 DEF Pay, order
    <2>2. status[k] = "PENDING"
      BY <2>1 DEF OrderHolds, TypeOK
    <2>3. \A j \in Key \ {k} : StateOf(j)' = StateOf(j)
      BY <2>1 DEF StateOf, TypeOK
    <2>4. StateOf(k)' = StateOf(k) \/ <<StateOf(k), StateOf(k)'>> \in Sold!Moves
      BY <2>1, <2>2 DEF StateOf, Sold!Moves, TypeOK
    <2>5. QED
      BY <2>3, <2>4, OneKeyMoves
  <1>6. ASSUME NEW k \in Key, Notify(k) PROVE [Sold!Next]_([j \in Key |-> StateOf(j)])
    <2>1. CASE UNCHANGED status
      BY <1>6, <2>1, NothingMoves DEF Notify
    <2>2. CASE status[k] = "PENDING" /\ status' = [status EXCEPT ![k] = "PAID"]
      <3>1. link[k] = "PAID" /\ UNCHANGED <<link, offered>> /\ status'[k] = "PAID"
        BY <1>6, <2>2 DEF Notify, TypeOK
      <3>2. \A j \in Key \ {k} : StateOf(j)' = StateOf(j)
        BY <2>2, <3>1 DEF StateOf, TypeOK
      <3>3. <<StateOf(k), StateOf(k)'>> \in Sold!Moves
        BY <2>2, <3>1 DEF StateOf, Sold!Moves
      <3>4. QED
        BY <3>2, <3>3, OneKeyMoves
    <2>3. QED
      BY <1>6, <2>1, <2>2 DEF Notify
  <1>7. ASSUME UNCHANGED vars \/ Tick
               \/ \E c \in Call : \/ Recover(c) \/ Claim(c) \/ Send(c) \/ Fail(c) \/ Lose(c)
                                  \/ \E k \in Key : Begin(c, k)
        PROVE  UNCHANGED <<status, link, offered>>
    BY <1>7 DEF vars, order, payos, Tick, Recover, Claim, Send, Fail, Lose, Begin
  <1>8. QED
    BY <1>1, <1>2, <1>3, <1>4, <1>5, <1>6, <1>7, NothingMoves DEF Next, World, Step
-----------------------------------------------------------------------------
(* The tab. *)

LEMMA TabInitInv == TabInit => Inv
  <1> SUFFICES ASSUME TabInit PROVE Inv
    OBVIOUS
  <1>1. CheckoutInv
    BY InitInv DEF TabInit
  <1>2. QED
    BY <1>1, PollAssumption DEF TabInit, Inv, PanelTypeOK, CheckoutInv, TabConsistent,
       OnePaymentPage, ShownIsRemembered

(* Before a payment page was shown there is nothing to poll; after it       *)
(* there is nothing to click.                                              *)
LEMMA OnCheckoutBegins ==
  ASSUME Inv, OnCheckout
  PROVE  /\ NewCall \in Call /\ CheckoutKey \in Key /\ Begin(NewCall, CheckoutKey)
         /\ shown = {} /\ pending = None
  <1>1. NewCall \in Call /\ Begin(NewCall, CheckoutKey)
    BY DEF OnCheckout, NewCall
  <1>2. CheckoutKey \in Key
    BY DEF OnCheckout, CheckoutKey, NewKey, Inv, PanelTypeOK
  <1>3. poll \notin {"polling", "unconfirmed", "away"} /\ load = "no"
    BY DEF OnCheckout, Body, SignedInBody, Inv, PanelTypeOK
  <1>4. QED
    BY <1>1, <1>2, <1>3 DEF Inv, TabConsistent

LEMMA TabStep ==
  ASSUME Inv, [TabNext]_all
  PROVE  [Next]_vars
  BY OnCheckoutBegins DEF TabNext, Panel, Server, Next, Mount, ReadSubscription,
     LandSubscription, Retry, Leave, CheckoutFailed, Poll, Recheck, all

(* The steps of the orders leave the tab alone, and give nothing back that  *)
(* was paid.                                                               *)
LEMMA ServerInv ==
  ASSUME Inv, CheckoutInv', Server
  PROVE  Inv'
  <1>1. UNCHANGED tab /\ offered \subseteq offered'
    BY DEF Server, World, Step, Tick, Find, Insert, Recover, Claim, Send, Save, Refuse, Fail,
       Arrive, Lose, Pay, Notify, Offer, order, payos
  <1>2. \A k \in Key : status[k] = "PAID" => status'[k] = "PAID"
    <2>1. ASSUME NEW k \in Key, status[k] = "PAID", status'[k] # "PAID" PROVE FALSE
      <3>1. \E c \in Call : Refuse(c) /\ key[c] = k
        BY <2>1 DEF Server, World, Step, Tick, Find, Insert, Recover, Claim, Send, Save, Refuse,
           Fail, Arrive, Lose, Pay, Notify, order, payos, Inv, CheckoutInv, TypeOK
      <3>2. link[k] = "NONE"
        BY <3>1, RefuseInv DEF Inv
      <3>3. QED
        BY <2>1, <3>2 DEF Inv, CheckoutInv, OrderConsistent, OrderHolds
    <2>2. QED
      BY <2>1
  <1>3. QED
    BY <1>1, <1>2 DEF Inv, PanelTypeOK, CheckoutInv, TabConsistent, OnePaymentPage,
       ShownIsRemembered, tab, kept, panel, subscription

LEMMA PanelInv ==
  ASSUME Inv, CheckoutInv', Panel
  PROVE  Inv'
  <1> USE DEF Inv, kept, panel, subscription
  <1>1. TypeOK'
    BY DEF CheckoutInv
  <1>2. CASE Mount
    <2>1. PanelTypeOK' /\ TabConsistent'
      BY <1>1, <1>2, PollAssumption DEF Mount, StartPoll, Refetch, PanelTypeOK, TabConsistent,
         vars, payos
    <2>2. QED
      BY <1>2, <2>1 DEF Mount, OnePaymentPage, ShownIsRemembered, vars, order
  <1>3. CASE ReadSubscription
    <2>1. \A k \in shown : pending = None => status[k] = "PAID"
      BY NoneAssumption DEF ShownIsRemembered, PanelTypeOK
    <2>2. QED
      BY <1>1, <1>3, <2>1 DEF ReadSubscription, PanelTypeOK, TabConsistent, OnePaymentPage,
         ShownIsRemembered, vars, order
  <1>4. CASE LandSubscription
    BY <1>1, <1>4 DEF LandSubscription, PanelTypeOK, TabConsistent, OnePaymentPage,
       ShownIsRemembered, vars, order
  <1>5. CASE Retry
    BY <1>1, <1>5 DEF Retry, Refetch, PanelTypeOK, TabConsistent, OnePaymentPage,
       ShownIsRemembered, vars, order
  <1>6. CASE OnCheckout
    <2>1. NewCall \in Call /\ CheckoutKey \in Key /\ shown = {} /\ pending = None
      BY <1>6, OnCheckoutBegins
    <2>2. QED
      BY <1>1, <1>6, <2>1 DEF OnCheckout, PanelTypeOK, TabConsistent, OnePaymentPage,
         ShownIsRemembered
  <1>7. ASSUME NEW c \in Call, Leave(c) PROVE Inv'
    <2>1. key[c] \in Key /\ key[c] \in offered /\ shown = {}
      BY <1>7 DEF Leave, CheckoutInv, CallConsistent, CallHolds, TabConsistent
    <2>2. QED
      BY <1>1, <1>7, <2>1, NoneAssumption, PollAssumption DEF Leave, Refetch, PanelTypeOK,
         TabConsistent, OnePaymentPage, ShownIsRemembered, vars
  <1>8. ASSUME NEW c \in Call, CheckoutFailed(c) PROVE Inv'
    BY <1>1, <1>8 DEF CheckoutFailed, PanelTypeOK, TabConsistent, OnePaymentPage,
       ShownIsRemembered, vars, order
  <1>9. CASE Poll
    <2>1. pending \in shown /\ pending \in Key /\ status[pending] # "FAILED"
      BY <1>9 DEF Poll, TabConsistent, PanelTypeOK, CheckoutInv, RefusedUnoffered
    <2>2. CASE status[pending] = "PAID" /\ poll' = "paid" /\ pending' = None /\ Refetch
               /\ attempts' = 0
      BY <1>1, <1>9, <2>1, <2>2, PollAssumption DEF Poll, Refetch, PanelTypeOK, TabConsistent,
         OnePaymentPage, ShownIsRemembered, vars, order
    <2>3. CASE /\ attempts' = IF Exhausted THEN 0 ELSE attempts + 1
               /\ poll' = IF Exhausted THEN "unconfirmed" ELSE "polling"
               /\ UNCHANGED <<pending, subscription>>
      <3>1. attempts' \in 0 .. MaxPoll - 1
        BY <2>3, PollAssumption DEF Exhausted, PanelTypeOK
      <3>2. QED
        BY <1>1, <1>9, <2>1, <2>3, <3>1, NoneAssumption DEF Poll, PanelTypeOK, TabConsistent,
           OnePaymentPage, ShownIsRemembered, vars, order
    <2>4. QED
      BY <1>9, <2>1, <2>2, <2>3 DEF Poll
  <1>10. CASE Recheck
    <2>1. poll = "unconfirmed"
      BY <1>10 DEF Recheck, Body, SignedInBody, PanelTypeOK
    <2>2. QED
      BY <1>1, <1>10, <2>1, PollAssumption DEF Recheck, StartPoll, PanelTypeOK, TabConsistent,
         OnePaymentPage, ShownIsRemembered, vars, order
  <1>11. QED
    BY <1>2, <1>3, <1>4, <1>5, <1>6, <1>7, <1>8, <1>9, <1>10 DEF Panel

LEMMA TabStepInv == Inv /\ [TabNext]_all => Inv'
  <1> SUFFICES ASSUME Inv, [TabNext]_all PROVE Inv'
    OBVIOUS
  <1>1. CheckoutInv'
    BY TabStep, StepInv DEF Inv
  <1>2. CASE UNCHANGED all
    BY <1>1, <1>2 DEF Inv, PanelTypeOK, CheckoutInv, TabConsistent, OnePaymentPage,
       ShownIsRemembered, all, tab, kept, panel, subscription, vars, order
  <1>3. QED
    BY <1>1, <1>2, ServerInv, PanelInv DEF TabNext

(* The inductive invariant of the tab and the orders it pays, for any       *)
(* number of keys and requests, any lease longer than the life of a call   *)
(* and the lag of payOS, and any number of polls.                          *)
THEOREM Invariance == TabSpec => []Inv
  BY TabInitInv, TabStepInv, PTL DEF TabSpec

(* claimStaleCheckout: at most one request of a key is at payOS.            *)
THEOREM CreatorIsOne == TabSpec => []OneCreator
  <1>1. Inv => OneCreator
    BY DEF Inv, CheckoutInv
  <1>2. QED
    BY <1>1, Invariance, PTL

(* payment.service.ts writes FAILED over no order that somebody can pay.   *)
THEOREM RefusedIsUnoffered == TabSpec => []RefusedUnoffered
  <1>1. Inv => RefusedUnoffered
    BY DEF Inv, CheckoutInv
  <1>2. QED
    BY <1>1, Invariance, PTL

(* The tab of buyer-pass-panel.tsx opens one payment page.                 *)
THEOREM PaymentPageIsOne == TabSpec => []OnePaymentPage
  <1>1. Inv => OnePaymentPage
    BY DEF Inv
  <1>2. QED
    BY <1>1, Invariance, PTL

(* ... and remembers its payment until it is PAID.                         *)
THEOREM PaymentIsRemembered == TabSpec => []ShownIsRemembered
  <1>1. Inv => ShownIsRemembered
    BY DEF Inv
  <1>2. QED
    BY <1>1, Invariance, PTL

(* What the page does is, for the orders, a call that begins, or nothing. *)
THEOREM TabUsesCheckout == TabSpec => Spec
  <1>1. TabInit => Init
    BY DEF TabInit
  <1>2. Inv /\ [TabNext]_all => [Next]_vars
    BY TabStep
  <1>3. QED
    BY <1>1, <1>2, Invariance, PTL DEF TabSpec, Spec

(* startCheckout, retried, overlapping, timed out or answered late, makes   *)
(* each key one sale that never goes back, whoever sends its requests.     *)
THEOREM CheckoutImplementsSale == Spec => ImplementsSale
  <1> DEFINE sale == [k \in Key |-> StateOf(k)]
  <1>1. Init => Sold!Init
    BY DEF Init, Sold!Init, StateOf
  <1>2. CheckoutInv /\ [Next]_vars => [Sold!Next]_sale
    BY StepMoves
  <1>3. Spec => []CheckoutInv
    BY InitInv, StepInv, PTL DEF Spec
  <1>4. QED
    BY <1>1, <1>2, <1>3, PTL DEF Spec, ImplementsSale, Sold!Spec

THEOREM TabImplementsSale == TabSpec => ImplementsSale
  BY TabUsesCheckout, CheckoutImplementsSale
=============================================================================
