--------------------------- MODULE SessionsProofs ---------------------------
(***************************************************************************)
(* What holds of accounts and sessions for any users, addresses, Google    *)
(* accounts, calls and attempts: Inv is inductive.  Then what one tab of    *)
(* the browser shows of it.                                                *)
(***************************************************************************)
EXTENDS AuthProvider, TLAPS

CallbackRequest ==
  [kind : {"callback"}, attempt : Attempt, subject : Subject, session : Session \cup {None}]

(* What a request holds, by its kind. *)
LEMMA RequestFields ==
  ASSUME NEW r \in Request
  PROVE  /\ r.kind \in {"register", "login", "logout", "logoutAll", "callback"}
         /\ r.kind \in {"register", "login"} => r.email \in Email
         /\ r.kind \in {"logout", "logoutAll"} => r.session \in Session \cup {None}
         /\ r.kind = "callback" => /\ r.attempt \in Attempt /\ r.subject \in Subject
                                   /\ r.session \in Session \cup {None}
  <1>1. CASE r \in [kind : {"register", "login"}, email : Email]
    BY <1>1
  <1>2. CASE r \in [kind : {"logout", "logoutAll"}, session : Session \cup {None}]
    BY <1>2
  <1>3. CASE r \in CallbackRequest
    BY <1>3 DEF CallbackRequest
  <1>4. QED
    BY <1>1, <1>2, <1>3 DEF Request, CallbackRequest

LEMMA AccountsInitInv == Init => AccountsInv
  <1> SUFFICES ASSUME Init PROVE AccountsInv
    OBVIOUS
  <1> USE DEF Init
  <1>1. /\ email \in [User -> Email \cup {None}]
        /\ \A u, v \in User : u # v => email[u] = None \/ email[v] = None
    OBVIOUS
  <1>2. owner \in [Session -> User \cup {None}] /\ cookie \in Session \cup {None}
    BY DEF Session
  <1>3. TypeOK
    BY <1>1, <1>2 DEF TypeOK
  <1>4. \A c \in Call : owner[c] = None
    BY NamesAssumption DEF Session
  <1>5. OneAccount /\ LinkedByOwner /\ OneSessionPerAttempt
    BY <1>1, <1>4, NamesAssumption DEF OneAccount, LinkedByOwner, OneSessionPerAttempt
  <1>6. (\A c \in Call : CallHolds(c)) /\ OneConsumes
    BY <1>4 DEF CallHolds, OneConsumes, Consumed
  <1>7. QED
    BY <1>3, <1>5, <1>6 DEF AccountsInv

(* Steps that make and link no account, make no session and consume no     *)
(* attempt disturb nothing but their own call.                             *)
LEMMA QuietInv ==
  ASSUME AccountsInv, TypeOK', NEW C \in SUBSET Call,
         UNCHANGED <<email, subject, owner>>,
         started \subseteq started', open' \cap started \subseteq open,
         \A d \in Call \ C : req'[d] = req[d] /\ who'[d] = who[d] /\ stage'[d] = stage[d],
         \A c \in C : CallHolds(c)' /\ (stage[c] = "idle" \/ req'[c] = req[c]),
         \A c \in C : Consumed(c)' => Consumed(c)
  PROVE  AccountsInv'
  <1> USE DEF AccountsInv
  <1>1. \A d \in Call : stage[d] = "idle" => owner[d] = None /\ ~Consumed(d)
    BY DEF CallHolds, Consumed
  <1>2. \A d \in Call : Consumed(d)' => Consumed(d) /\ req'[d] = req[d]
    BY <1>1 DEF Consumed
  <1>3. ASSUME NEW d \in Call PROVE CallHolds(d)'
    <2>1. CASE d \in C
      BY <2>1
    <2>2. CASE d \notin C
      <3>1. Consumed(d)' <=> Consumed(d)
        BY <2>2 DEF Consumed
      <3>2. QED
        BY <2>2, <3>1 DEF CallHolds
    <2>3. QED
      BY <2>1, <2>2
  <1>4. OneAccount'
    BY DEF OneAccount
  <1>5. LinkedByOwner'
    BY <1>1 DEF LinkedByOwner
  <1>6. OneConsumes'
    BY <1>2, <1>1 DEF OneConsumes
  <1>7. OneSessionPerAttempt'
    BY <1>3, <1>6 DEF OneSessionPerAttempt, OneConsumes, CallHolds, Consumed
  <1>8. QED
    BY <1>3, <1>4, <1>5, <1>6, <1>7

(* The steps of one call that only look. *)
LEMMA LookInv ==
  ASSUME AccountsInv, TypeOK', NEW c \in Call,
         UNCHANGED <<email, subject, owner, attempts>>,
         \A d \in Call \ {c} : req'[d] = req[d] /\ who'[d] = who[d] /\ stage'[d] = stage[d],
         stage[c] = "idle" \/ req'[c] = req[c],
         CallHolds(c)', Consumed(c)' => Consumed(c)
  PROVE  AccountsInv'
  <1>1. {c} \in SUBSET Call
    OBVIOUS
  <1>2. QED
    BY <1>1, QuietInv DEF attempts

LEMMA BeginInv ==
  ASSUME AccountsInv, NEW c \in Call, NEW r \in Requests, Begin(c, r)
  PROVE  AccountsInv'
  <1>1. r \in Request
    BY DEF Requests, Request, AccountsInv, TypeOK
  <1>2. /\ stage[c] = "idle" /\ UNCHANGED <<accounts, sessions, attempts, who, outcome, cookies>>
        /\ req' = [req EXCEPT ![c] = r]
    BY DEF Begin
  <1> DEFINE first == [register |-> "insert", login |-> "verify", callback |-> "find",
                       logout |-> "guard", logoutAll |-> "guard"][r.kind]
  <1>3. /\ first \in {"insert", "verify", "guard", "find"}
        /\ first = "find" => r.kind = "callback"
        /\ first \in {"insert", "verify"} => r.kind \in {"register", "login"}
        /\ first = "guard" => r.kind \in {"logout", "logoutAll"}
    BY <1>1, RequestFields
  <1>4. stage' = [stage EXCEPT ![c] = first]
    BY DEF Begin
  <1>5. TypeOK'
    BY <1>1, <1>2, <1>3, <1>4 DEF AccountsInv, TypeOK, accounts, sessions, attempts, cookies
  <1>6. owner[c] = None
    BY <1>2 DEF AccountsInv, CallHolds
  <1>7. /\ \A d \in Call \ {c} : req'[d] = req[d] /\ who'[d] = who[d] /\ stage'[d] = stage[d]
        /\ req'[c] = r /\ stage'[c] \in {"insert", "verify", "guard", "find"}
        /\ stage'[c] = "find" => r.kind = "callback"
        /\ stage'[c] \in {"insert", "verify"} => r.kind \in {"register", "login"}
        /\ stage'[c] = "guard" => r.kind \in {"logout", "logoutAll"}
    BY <1>2, <1>3, <1>4 DEF AccountsInv, TypeOK
  <1>8. ~Consumed(c)'
    BY <1>2, <1>6, <1>7 DEF Consumed, sessions
  <1>9. CallHolds(c)'
    BY <1>1, <1>2, <1>6, <1>7, <1>8 DEF CallHolds, sessions
  <1>10. QED
    BY <1>2, <1>5, <1>7, <1>8, <1>9, LookInv DEF accounts, sessions

LEMMA VerifyInv ==
  ASSUME AccountsInv, NEW c \in Call, Verify(c)
  PROVE  AccountsInv'
  <1> USE DEF AccountsInv
  <1>1. /\ stage[c] = "verify" /\ req[c].kind \in {"register", "login"} /\ owner[c] = None
        /\ req[c] \in Request /\ UNCHANGED <<accounts, sessions, attempts, cookies, req>>
    BY DEF Verify, CallHolds, Goto, Return
  <1>2. \/ /\ stage' = [stage EXCEPT ![c] = "session"] /\ outcome' = outcome
           /\ \E u \in User : who' = [who EXCEPT ![c] = u]
        \/ /\ stage' = [stage EXCEPT ![c] = "done"] /\ outcome' = [outcome EXCEPT ![c] = "401"]
           /\ who' = who
    BY DEF Verify, Goto, Return, Found, TypeOK
  <1>3. TypeOK'
    BY <1>1, <1>2, NamesAssumption DEF TypeOK, accounts, sessions, attempts, cookies
  <1>4. CallHolds(c)' /\ ~Consumed(c)'
    BY <1>1, <1>2 DEF CallHolds, Consumed, TypeOK, sessions, Goto, Return
  <1>5. QED
    BY <1>1, <1>2, <1>3, <1>4, LookInv DEF accounts, sessions, TypeOK

LEMMA GuardInv ==
  ASSUME AccountsInv, NEW c \in Call, Guard(c) \/ Revoke(c)
  PROVE  AccountsInv'
  <1> USE DEF AccountsInv
  <1>1. /\ stage[c] \in {"guard", "revoke"} /\ req[c] \in Request /\ owner[c] = None
        /\ req[c].kind \in {"logout", "logoutAll"}
        /\ UNCHANGED <<email, password, subject, disabled, owner, attempts, cookies, req>>
        /\ \A d \in Call \ {c} : who'[d] = who[d] /\ stage'[d] = stage[d]
        /\ stage'[c] \in {"revoke", "done"}
        /\ stage'[c] = "revoke" => req[c].session \in Session
    BY DEF Guard, Revoke, CallHolds, Goto, Return, Found, Live, accounts, sessions, TypeOK
  <1>2. TypeOK'
    <2>1. CASE Guard(c)
      BY <1>1, <2>1 DEF Guard, Goto, Return, Found, Live, TypeOK, accounts, sessions, attempts, cookies
    <2>2. CASE Revoke(c)
      BY <1>1, <2>2 DEF Revoke, CallHolds, Return, TypeOK, accounts, sessions, attempts, cookies
    <2>3. QED
      BY <2>1, <2>2
  <1>3. CallHolds(c)' /\ ~Consumed(c)'
    BY <1>1 DEF CallHolds, Consumed
  <1>4. QED
    BY <1>1, <1>2, <1>3, LookInv

LEMMA FindAttemptInv ==
  ASSUME AccountsInv, NEW c \in Call, FindAttempt(c)
  PROVE  AccountsInv'
  <1> USE DEF AccountsInv
  <1>1. /\ stage[c] = "find" /\ req[c] \in Request /\ req[c].kind = "callback" /\ owner[c] = None
        /\ UNCHANGED <<accounts, sessions, attempts, cookies, req, who>>
        /\ \A d \in Call \ {c} : stage'[d] = stage[d]
        /\ stage'[c] \in {"delete", "done"}
    BY DEF FindAttempt, CallHolds, Goto, Return, TypeOK
  <1>2. TypeOK'
    BY <1>1 DEF FindAttempt, Goto, Return, TypeOK, accounts, sessions, attempts, cookies
  <1>3. CallHolds(c)' /\ ~Consumed(c)'
    BY <1>1 DEF CallHolds, Consumed, sessions
  <1>4. QED
    BY <1>1, <1>2, <1>3, LookInv DEF accounts, sessions

(* The steps of a callback that has consumed its attempt. *)
LEMMA CallbackInv ==
  ASSUME AccountsInv, NEW c \in Call, Exchange(c) \/ Resolve(c) \/ BySubject(c) \/ ByEmail(c)
  PROVE  AccountsInv'
  <1> USE DEF AccountsInv
  <1>1. /\ stage[c] \in {"exchange", "resolve", "bySubject", "byEmail"}
        /\ req[c] \in Request /\ req[c].kind = "callback" /\ owner[c] = None
        /\ Consumed(c) /\ req[c].attempt \in started \ open
        /\ UNCHANGED <<accounts, sessions, attempts, cookies, req>>
    BY DEF Exchange, Resolve, BySubject, ByEmail, CallHolds, Goto, Return, Consumed
  <1>2. req[c].subject \in Subject
    BY <1>1, RequestFields
  <1>3. \E s \in {"resolve", "link", "bySubject", "byEmail", "create", "session", "done"},
           how \in {"none", "failed", "linkRequired"} :
          /\ stage' = [stage EXCEPT ![c] = s]
          /\ outcome' = IF how = "none" THEN outcome ELSE [outcome EXCEPT ![c] = how]
          /\ \/ who' = who /\ s \notin {"link", "session"}
             \/ \E u \in User :
                  /\ who' = [who EXCEPT ![c] = u]
                  /\ s = "link" => email[u] = MailOf[req[c].subject]
                  /\ s = "session" => subject[u] = req[c].subject
    <2>1. CASE Exchange(c)
      BY <2>1 DEF Exchange, Goto, Return
    <2>2. CASE Resolve(c)
      BY <2>2 DEF Resolve, Goto, Return, Found, Live, TypeOK
    <2>3. CASE BySubject(c)
      BY <2>3 DEF BySubject, Goto, Return, Found
    <2>4. CASE ByEmail(c)
      BY <2>4 DEF ByEmail, Goto, Return
    <2>5. QED
      BY <2>1, <2>2, <2>3, <2>4
  <1>4. TypeOK'
    BY <1>1, <1>3, NamesAssumption DEF TypeOK, accounts, sessions, attempts, cookies
  <1>5. CallHolds(c)'
    BY <1>1, <1>2, <1>3, NamesAssumption DEF CallHolds, Consumed, TypeOK, accounts, sessions, attempts
  <1>6. QED
    BY <1>1, <1>3, <1>4, <1>5, LookInv DEF accounts, sessions, TypeOK

LEMMA LandInv ==
  ASSUME AccountsInv, NEW c \in Call, Land(c)
  PROVE  AccountsInv'
  <1> USE DEF AccountsInv
  <1>1. /\ stage[c] = "done" /\ req[c] \in Request
        /\ UNCHANGED <<accounts, sessions, attempts, req, who, outcome>>
        /\ stage' = [stage EXCEPT ![c] = "landed"]
        /\ cookie' \in {c, None, cookie} /\ token' \in {None, token}
    BY DEF Land, CallHolds
  <1>2. TypeOK'
    BY <1>1 DEF TypeOK, accounts, sessions, attempts, Session
  <1>3. Consumed(c)' <=> Consumed(c)
    BY <1>1 DEF Consumed, TypeOK, sessions
  <1>4. CallHolds(c)'
    BY <1>1, <1>3 DEF CallHolds, TypeOK, accounts, sessions, attempts
  <1>5. QED
    BY <1>1, <1>2, <1>3, <1>4, LookInv DEF accounts, sessions, TypeOK

(* Steps of no call: an attempt is made anew, or something expires. *)
World ==
  \/ \E link \in BOOLEAN : Start(link)
  \/ \E s \in Session : Expire(s)
  \/ \E a \in Attempt : Lapse(a)
  \/ \E u \in User : Disable(u)

LEMMA WorldInv == ASSUME AccountsInv, World PROVE AccountsInv'
  <1> USE DEF AccountsInv, World
  <1>1. /\ UNCHANGED <<email, password, subject, owner, calls>>
        /\ started \subseteq started' /\ open' \cap started \subseteq open
    BY DEF Start, Expire, Lapse, Disable, accounts, sessions, attempts, cookies
  <1>2. TypeOK'
    <2>1. ASSUME NEW link \in BOOLEAN, Start(link) PROVE TypeOK'
      BY <2>1 DEF Start, TypeOK, accounts, sessions, calls
    <2>2. ASSUME NEW s \in Session, Expire(s) PROVE TypeOK'
      BY <2>2 DEF Expire, TypeOK, accounts, attempts, calls, cookies
    <2>3. ASSUME NEW a \in Attempt, Lapse(a) PROVE TypeOK'
      BY <2>3 DEF Lapse, TypeOK, accounts, sessions, calls, cookies
    <2>4. ASSUME NEW u \in User, Disable(u) PROVE TypeOK'
      BY <2>4 DEF Disable, TypeOK, sessions, attempts, calls, cookies
    <2>5. QED
      BY <2>1, <2>2, <2>3, <2>4
  <1>3. {} \in SUBSET Call
    OBVIOUS
  <1>4. QED
    BY <1>1, <1>2, <1>3, QuietInv DEF calls

(* The row of an attempt can be deleted once: no other call has.           *)
LEMMA DeleteAttemptInv ==
  ASSUME AccountsInv, NEW c \in Call, DeleteAttempt(c)
  PROVE  AccountsInv'
  <1> USE DEF AccountsInv
  <1>1. /\ stage[c] = "delete" /\ req[c] \in Request /\ req[c].kind = "callback" /\ owner[c] = None
        /\ UNCHANGED <<accounts, sessions, started, binding, who, cookies, req>>
        /\ open' = open \ {req[c].attempt}
        /\ \/ /\ req[c].attempt \in open
              /\ stage' = [stage EXCEPT ![c] = "exchange"] /\ outcome' = outcome
           \/ /\ stage' = [stage EXCEPT ![c] = "done"]
              /\ outcome' = [outcome EXCEPT ![c] = "unknown"]
    BY DEF DeleteAttempt, CallHolds, Goto, Return
  <1>2. TypeOK'
    BY <1>1 DEF TypeOK, accounts, sessions, cookies
  <1>3. \A d \in Call \ {c} : stage'[d] = stage[d] /\ (Consumed(d)' <=> Consumed(d))
    BY <1>1 DEF Consumed, TypeOK, sessions
  <1>4. Consumed(c)' => req[c].attempt \in open /\ req[c].attempt \in started
    BY <1>1 DEF Consumed, TypeOK, sessions
  <1>5. ASSUME NEW d \in Call PROVE CallHolds(d)'
    <2>1. CASE d = c
      BY <1>1, <1>4, <2>1 DEF CallHolds, TypeOK, accounts, sessions
    <2>2. CASE d # c
      BY <1>1, <1>3, <2>2 DEF CallHolds, accounts, sessions
    <2>3. QED
      BY <2>1, <2>2
  <1>6. OneConsumes'
    <2>1. ASSUME NEW d \in Call, Consumed(d) PROVE req[d].attempt \notin open
      BY <2>1 DEF CallHolds, Consumed
    <2>2. QED
      BY <1>1, <1>3, <1>4, <2>1 DEF OneConsumes
  <1>7. OneAccount' /\ LinkedByOwner'
    BY <1>1 DEF OneAccount, LinkedByOwner, accounts, sessions
  <1>8. OneSessionPerAttempt'
    BY <1>5, <1>6 DEF OneSessionPerAttempt, OneConsumes, CallHolds, Consumed
  <1>9. QED
    BY <1>2, <1>5, <1>6, <1>7, <1>8

LEMMA CreateSessionInv ==
  ASSUME AccountsInv, NEW c \in Call, CreateSession(c)
  PROVE  AccountsInv'
  <1> USE DEF AccountsInv
  <1>1. /\ stage[c] = "session" /\ req[c] \in Request /\ who[c] \in User
        /\ UNCHANGED <<accounts, dead, attempts, who, cookies, req>>
        /\ owner' = [owner EXCEPT ![c] = who[c]]
        /\ stage' = [stage EXCEPT ![c] = "done"]
        /\ outcome' = [outcome EXCEPT ![c] = "ok"]
    BY DEF CreateSession, CallHolds, Return, TypeOK
  <1>2. c \in Session /\ owner \in [Session -> User \cup {None}]
    BY DEF Session, TypeOK
  <1>3. TypeOK'
    BY <1>1, <1>2 DEF TypeOK, accounts, attempts, cookies
  <1>4. \A d \in Call : d \in Session /\ (d # c => owner'[d] = owner[d] /\ stage'[d] = stage[d])
    BY <1>1, <1>2 DEF Session, TypeOK
  <1>5. \A d \in Call : Consumed(d)' => Consumed(d)
    BY <1>1, <1>4 DEF Consumed
  <1>6. ASSUME NEW d \in Call PROVE CallHolds(d)'
    <2>1. CASE d = c
      BY <1>1, <1>2, <1>5, <2>1 DEF CallHolds, TypeOK, accounts, attempts
    <2>2. CASE d # c
      BY <1>1, <1>4, <1>5, <2>2 DEF CallHolds, accounts, attempts
    <2>3. QED
      BY <2>1, <2>2
  <1>7. OneConsumes'
    BY <1>1, <1>5 DEF OneConsumes
  <1>8. OneAccount' /\ LinkedByOwner'
    BY <1>1, <1>6 DEF OneAccount, LinkedByOwner, accounts, CallHolds
  <1>9. OneSessionPerAttempt'
    BY <1>6, <1>7 DEF OneSessionPerAttempt, OneConsumes, CallHolds, Consumed
  <1>10. QED
    BY <1>3, <1>6, <1>7, <1>8, <1>9

(* A link is given to the account of its own address, and is never taken   *)
(* back.                                                                   *)
LEMMA LinkInv ==
  ASSUME AccountsInv, NEW c \in Call, Link(c)
  PROVE  AccountsInv'
  <1> USE DEF AccountsInv
  <1> DEFINE g == req[c].subject
  <1>1. /\ stage[c] = "link" /\ req[c] \in Request /\ req[c].kind = "callback"
        /\ who[c] \in User \cup {None} /\ who[c] # None /\ email[who[c]] = MailOf[g]
        /\ owner[c] = None /\ Consumed(c)
        /\ UNCHANGED <<email, password, disabled, sessions, attempts, who, cookies, req>>
    BY DEF Link, CallHolds, Goto, Return, TypeOK, Consumed
  <1>2. g \in Subject /\ g # None
    BY <1>1, RequestFields, NamesAssumption
  <1>3. CASE stage' = [stage EXCEPT ![c] = "done"] /\ outcome' = [outcome EXCEPT ![c] = "failed"]
             /\ UNCHANGED subject
    <2>1. TypeOK'
      BY <1>1, <1>3 DEF TypeOK, sessions, attempts, cookies
    <2>2. CallHolds(c)' /\ ~Consumed(c)'
      BY <1>1, <1>3 DEF CallHolds, Consumed, TypeOK, sessions
    <2>3. QED
      BY <1>1, <1>3, <2>1, <2>2, LookInv DEF sessions, TypeOK
  <1>4. CASE /\ subject[who[c]] \in {None, g} /\ \A v \in User \ {who[c]} : subject[v] # g
             /\ subject' = [subject EXCEPT ![who[c]] = g]
             /\ stage' = [stage EXCEPT ![c] = "session"] /\ outcome' = outcome
    <2>1. TypeOK'
      BY <1>1, <1>2, <1>4 DEF TypeOK, sessions, attempts, cookies
    <2>2. /\ \A u \in User : subject[u] # None => subject'[u] = subject[u]
          /\ subject'[who[c]] = g
      BY <1>1, <1>4 DEF TypeOK
    <2>3. OneAccount'
      BY <1>1, <1>2, <1>4 DEF OneAccount, TypeOK
    <2>4. \A d \in Call : Consumed(d)' <=> Consumed(d)
      BY <1>1, <1>4 DEF Consumed, TypeOK, sessions
    <2>5. ASSUME NEW d \in Call PROVE CallHolds(d)'
      <3>1. CASE d = c
        BY <1>1, <1>4, <2>2, <2>4, <3>1 DEF CallHolds, TypeOK, sessions, attempts
      <3>2. CASE d # c
        <4>1. stage[d] # "idle" /\ req[d].kind = "callback" => req[d].subject \in Subject
          BY RequestFields DEF CallHolds
        <4>2. stage'[d] = stage[d]
          BY <1>4, <3>2 DEF TypeOK
        <4>3. stage[d] = "session" => who[d] \in User
          BY DEF TypeOK
        <4>4. owner[d] \in User \cup {None}
          BY DEF TypeOK, Session
        <4>5. QED
          BY <1>1, <2>2, <2>4, <4>1, <4>2, <4>3, <4>4, NamesAssumption DEF CallHolds, sessions, attempts
      <3>3. QED
        BY <3>1, <3>2
    <2>6. LinkedByOwner'
      <3>1. \A u \in User : subject'[u] # None => email[u] = MailOf[subject'[u]]
        BY <1>1, <1>4 DEF LinkedByOwner, TypeOK
      <3>2. QED
        BY <1>1, <2>5, <3>1 DEF LinkedByOwner, CallHolds, sessions
    <2>7. OneConsumes'
      BY <1>1, <2>4 DEF OneConsumes
    <2>8. OneSessionPerAttempt'
      BY <2>5, <2>7 DEF OneSessionPerAttempt, OneConsumes, CallHolds, Consumed
    <2>9. QED
      BY <2>1, <2>3, <2>5, <2>6, <2>7, <2>8
  <1>5. QED
    BY <1>3, <1>4 DEF Link, Linkable, Goto, Return

(* A new row takes an address and a Google account that have none, and     *)
(* disturbs no other row.                                                  *)
LEMMA CreateUserInv ==
  ASSUME AccountsInv, NEW c \in Call, NEW e \in Email, NEW g \in Subject \cup {None},
         NEW taken \in {"taken", "failed"},
         stage[c] \in {"insert", "create"},
         stage[c] = "insert" => g = None,
         stage[c] = "create" => g = req[c].subject /\ g # None /\ e = MailOf[g],
         CreateUser(c, e, g, taken),
         UNCHANGED <<sessions, attempts, cookies>>
  PROVE  AccountsInv'
  <1> USE DEF AccountsInv
  <1>1. /\ req[c] \in Request /\ owner[c] = None /\ e # None
        /\ stage[c] = "create" => req[c].kind = "callback"
        /\ stage[c] = "insert" => req[c].kind \in {"register", "login"}
    BY NamesAssumption DEF CallHolds
  <1>2. CASE /\ stage' = [stage EXCEPT ![c] = "done"] /\ outcome' = [outcome EXCEPT ![c] = taken]
             /\ UNCHANGED <<accounts, who, req>>
    <2>1. TypeOK'
      BY <1>1, <1>2 DEF TypeOK, accounts, sessions, attempts, cookies
    <2>2. CallHolds(c)' /\ ~Consumed(c)'
      BY <1>1, <1>2 DEF CallHolds, Consumed, TypeOK, sessions
    <2>3. QED
      BY <1>1, <1>2, <2>1, <2>2, LookInv DEF accounts, sessions, TypeOK
  <1>3. ASSUME Free(e, g), NEW u \in User, email[u] = None,
               email' = [email EXCEPT ![u] = e], subject' = [subject EXCEPT ![u] = g],
               password' \subseteq User, who' = [who EXCEPT ![c] = u],
               stage' = [stage EXCEPT ![c] = "session"],
               UNCHANGED <<disabled, req, outcome>>
        PROVE  AccountsInv'
    <2>1. TypeOK'
      BY <1>1, <1>3, NamesAssumption DEF TypeOK, sessions, attempts, cookies
    <2>2. subject[u] = None
      <3>1. subject[u] # None => subject[u] \in Subject
        BY DEF TypeOK
      <3>2. QED
        BY <1>3, <3>1, MailAssumption, NamesAssumption DEF LinkedByOwner
    <2>3. /\ \A v \in User \ {u} : email'[v] = email[v] /\ subject'[v] = subject[v]
          /\ email'[u] = e /\ subject'[u] = g
      BY <1>3 DEF TypeOK
    <2>4. OneAccount'
      BY <1>1, <1>3, <2>3 DEF OneAccount, Free
    <2>5. Consumed(c)' => Consumed(c)
      BY <1>1, <1>3 DEF Consumed, TypeOK, sessions
    <2>6. \A d \in Call \ {c} : /\ stage'[d] = stage[d] /\ who'[d] = who[d]
                                /\ Consumed(d)' <=> Consumed(d)
      BY <1>3 DEF Consumed, TypeOK, sessions
    <2>7. ASSUME NEW d \in Call PROVE CallHolds(d)'
      <3>1. CASE d = c
        <4>1. stage'[c] = "session" /\ who'[c] = u
          BY <1>3 DEF TypeOK
        <4>2. QED
          BY <1>1, <1>3, <2>3, <2>5, <3>1, <4>1 DEF CallHolds, sessions, attempts
      <3>2. CASE d # c
        <4>1. stage[d] # "idle" /\ req[d].kind = "callback" => req[d].subject \in Subject
          BY RequestFields DEF CallHolds
        <4>2. owner[d] \in User \cup {None} /\ who[d] \in User \cup {None}
              /\ (stage[d] = "session" => who[d] \in User)
          BY DEF TypeOK, Session
        <4>3. stage[d] = "link" => who[d] # u
          BY <1>3, <4>1, MailAssumption, NamesAssumption DEF CallHolds
        <4>4. stage[d] # "idle" /\ req[d].kind = "callback" =>
                /\ stage[d] = "session" => who[d] # u
                /\ owner[d] # None => owner[d] # u
          BY <2>2, <4>1, NamesAssumption DEF CallHolds
        <4>5. QED
          BY <1>3, <2>3, <2>6, <3>2, <4>1, <4>2, <4>3, <4>4 DEF CallHolds, sessions, attempts
      <3>3. QED
        BY <3>1, <3>2
    <2>8. LinkedByOwner'
      <3>1. \A v \in User : subject'[v] # None => email'[v] = MailOf[subject'[v]]
        BY <1>1, <1>3, <2>3 DEF LinkedByOwner
      <3>2. QED
        BY <1>3, <2>7, <3>1 DEF LinkedByOwner, CallHolds, sessions
    <2>9. OneConsumes'
      BY <1>3, <2>5, <2>6 DEF OneConsumes
    <2>10. OneSessionPerAttempt'
      BY <2>7, <2>9 DEF OneSessionPerAttempt, OneConsumes, CallHolds, Consumed
    <2>11. QED
      BY <2>1, <2>4, <2>7, <2>8, <2>9, <2>10
  <1>4. CASE ~(stage' = [stage EXCEPT ![c] = "done"] /\ outcome' = [outcome EXCEPT ![c] = taken]
               /\ UNCHANGED <<accounts, who, req>>)
    <2>1. Free(e, g) /\ \E v \in User : email[v] = None
      BY <1>4 DEF CreateUser, Return
    <2>2. PICK u \in User : u = CHOOSE v \in User : email[v] = None
      BY <2>1
    <2>3. email[u] = None
      BY <2>1, <2>2
    <2>4. password \subseteq User
      BY DEF TypeOK
    <2>5. /\ email' = [email EXCEPT ![u] = e] /\ subject' = [subject EXCEPT ![u] = g]
          /\ password' \subseteq User /\ who' = [who EXCEPT ![c] = u]
          /\ stage' = [stage EXCEPT ![c] = "session"]
          /\ UNCHANGED <<disabled, req, outcome>>
      BY <1>4, <2>1, <2>2, <2>4 DEF CreateUser, Return, Goto, Found
    <2>6. QED
      BY <1>3, <2>1, <2>3, <2>5
  <1>5. QED
    BY <1>2, <1>4

LEMMA AccountsStepInv == AccountsInv /\ [Next]_vars => AccountsInv'
  <1> SUFFICES ASSUME AccountsInv, [Next]_vars PROVE AccountsInv'
    OBVIOUS
  <1>1. CASE UNCHANGED vars
    <2>1. TypeOK'
      BY <1>1 DEF AccountsInv, TypeOK, vars, accounts, sessions, attempts, calls, cookies
    <2>2. {} \in SUBSET Call
      OBVIOUS
    <2>3. QED
      BY <1>1, <2>1, <2>2, QuietInv DEF vars, accounts, sessions, attempts, calls
  <1>2. ASSUME NEW c \in Call, Insert(c) PROVE AccountsInv'
    <2>1. req[c].email \in Email /\ stage[c] = "insert"
      BY <1>2, RequestFields DEF Insert, AccountsInv, CallHolds
    <2>2. QED
      BY <1>2, <2>1, CreateUserInv DEF Insert
  <1>3. ASSUME NEW c \in Call, Create(c) PROVE AccountsInv'
    <2>1. req[c].subject \in Subject /\ stage[c] = "create"
      BY <1>3, RequestFields DEF Create, AccountsInv, CallHolds
    <2>2. MailOf[req[c].subject] \in Email /\ req[c].subject # None
      BY <2>1, MailAssumption, NamesAssumption
    <2>3. QED
      BY <1>3, <2>1, <2>2, CreateUserInv DEF Create
  <1>4. ASSUME NEW c \in Call, Step(c) PROVE AccountsInv'
    BY <1>2, <1>3, <1>4, VerifyInv, CreateSessionInv, GuardInv, FindAttemptInv, DeleteAttemptInv,
       CallbackInv, LinkInv DEF Step
  <1>5. ASSUME NEW c \in Call, Land(c) \/ \E r \in Requests : Begin(c, r) PROVE AccountsInv'
    BY <1>5, LandInv, BeginInv
  <1>6. CASE World
    BY <1>6, WorldInv
  <1>7. QED
    BY <1>1, <1>4, <1>5, <1>6 DEF Next, Server, World

-----------------------------------------------------------------------------
(* Once written, an address, a link, a session and its end stay.            *)
LEMMA WrittenOnce ==
  ASSUME AccountsInv, [Next]_vars
  PROVE  /\ \A u \in User : email[u] # None => email'[u] = email[u]
         /\ \A u \in User : subject[u] # None => subject'[u] = subject[u]
         /\ \A s \in Session : owner[s] # None => owner'[s] = owner[s]
         /\ dead \subseteq dead'
  <1> USE DEF AccountsInv
  <1>1. ASSUME NEW c \in Call, NEW e, NEW g, NEW taken, CreateUser(c, e, g, taken)
        PROVE  /\ \A u \in User : email[u] # None => email'[u] = email[u]
               /\ \A u \in User : subject[u] # None => subject'[u] = subject[u]
    <2>1. CASE UNCHANGED accounts
      BY <2>1 DEF accounts
    <2>2. ASSUME NEW u \in User, email[u] = None,
                 email' = [email EXCEPT ![u] = e], subject' = [subject EXCEPT ![u] = g]
          PROVE  /\ \A v \in User : email[v] # None => email'[v] = email[v]
                 /\ \A v \in User : subject[v] # None => subject'[v] = subject[v]
      <3>1. subject[u] = None
        <4>1. subject[u] # None => subject[u] \in Subject
          BY DEF TypeOK
        <4>2. QED
          BY <2>2, <4>1, MailAssumption, NamesAssumption DEF LinkedByOwner
      <3>2. QED
        BY <2>2, <3>1 DEF TypeOK
    <2>3. CASE ~UNCHANGED accounts
      <3>1. \E v \in User : email[v] = None
        BY <1>1, <2>3 DEF CreateUser
      <3>2. PICK u \in User : u = CHOOSE v \in User : email[v] = None
        BY <3>1
      <3>3. email[u] = None /\ email' = [email EXCEPT ![u] = e] /\ subject' = [subject EXCEPT ![u] = g]
        BY <1>1, <2>3, <3>1, <3>2 DEF CreateUser
      <3>4. QED
        BY <2>2, <3>3
    <2>4. QED
      BY <2>1, <2>3
  <1>2. ASSUME NEW c \in Call, Insert(c) \/ Create(c)
        PROVE  /\ \A u \in User : email[u] # None => email'[u] = email[u]
               /\ \A u \in User : subject[u] # None => subject'[u] = subject[u]
               /\ UNCHANGED sessions
    BY <1>1, <1>2 DEF Insert, Create
  <1>3. ASSUME NEW c \in Call, CreateSession(c)
        PROVE  /\ \A s \in Session : owner[s] # None => owner'[s] = owner[s]
               /\ UNCHANGED <<accounts, dead>>
    BY <1>3 DEF CreateSession, CallHolds, TypeOK
  <1>4. ASSUME NEW c \in Call, Link(c)
        PROVE  /\ \A u \in User : subject[u] # None => subject'[u] = subject[u]
               /\ UNCHANGED <<email, sessions>>
    BY <1>4 DEF Link, Linkable, TypeOK
  <1>5. ASSUME NEW c \in Call, Revoke(c) PROVE UNCHANGED <<accounts, owner>> /\ dead \subseteq dead'
    BY <1>5 DEF Revoke
  <1>6. ASSUME NEW c \in Call, Step(c), ~(Insert(c) \/ Create(c) \/ CreateSession(c) \/ Link(c) \/ Revoke(c))
        PROVE  UNCHANGED <<accounts, sessions>>
    BY <1>6 DEF Step, Verify, Guard, FindAttempt, DeleteAttempt, Exchange, Resolve, BySubject, ByEmail
  <1>7. ASSUME NEW c \in Call, Land(c) \/ \E r \in Requests : Begin(c, r)
        PROVE  UNCHANGED <<accounts, sessions>>
    BY <1>7 DEF Land, Begin
  <1>8. CASE World
    BY <1>8 DEF World, Start, Expire, Lapse, Disable, accounts, sessions
  <1>9. ASSUME NEW c \in Call, Step(c)
        PROVE  /\ \A u \in User : email[u] # None => email'[u] = email[u]
               /\ \A u \in User : subject[u] # None => subject'[u] = subject[u]
               /\ \A s \in Session : owner[s] # None => owner'[s] = owner[s]
               /\ dead \subseteq dead'
    BY <1>2, <1>3, <1>4, <1>5, <1>6, <1>9 DEF accounts, sessions
  <1>10. CASE UNCHANGED vars
    BY <1>10 DEF vars, accounts, sessions
  <1>11. QED
    BY <1>7, <1>8, <1>9, <1>10 DEF Next, Server, World, accounts, sessions

(* A call keeps its request, and only steps of its own move it.             *)
LEMMA CallsKept ==
  ASSUME AccountsInv, [Next]_vars, NEW c \in Call, stage[c] # "idle"
  PROVE  /\ req'[c] = req[c] /\ stage'[c] # "idle"
         /\ Step(c) \/ Land(c) \/ UNCHANGED <<stage[c], who[c], owner[c], outcome[c]>>
  <1> USE DEF AccountsInv, TypeOK
  <1>1. ASSUME NEW d \in Call, d # c, Step(d)
        PROVE  UNCHANGED <<req[c], stage[c], who[c], owner[c], outcome[c]>>
    <2>1. CASE Insert(d) \/ Create(d)
      BY <1>1, <2>1 DEF Insert, Create, CreateUser, Found, Goto, Return, sessions
    <2>2. CASE ~(Insert(d) \/ Create(d))
      BY <1>1, <2>2 DEF Step, Verify, CreateSession, Guard, Revoke, FindAttempt, DeleteAttempt, Exchange,
             Resolve, Link, BySubject, ByEmail, Found, Goto, Return, sessions, Session
    <2>3. QED
      BY <2>1, <2>2
  <1>2. ASSUME NEW d \in Call, d # c, Land(d) \/ \E r \in Requests : Begin(d, r)
        PROVE  UNCHANGED <<req[c], stage[c], who[c], owner[c], outcome[c]>>
    BY <1>2 DEF Land, Begin, sessions
  <1>3. CASE World
    BY <1>3 DEF World, Start, Expire, Lapse, Disable, calls, sessions
  <1>4. CASE UNCHANGED vars
    BY <1>4 DEF vars, calls, sessions
  <1>5. ASSUME Step(c) PROVE req'[c] = req[c] /\ stage'[c] # "idle"
    <2>1. CASE Insert(c) \/ Create(c)
      BY <1>5, <2>1 DEF Insert, Create, CreateUser, Goto, Return
    <2>2. CASE ~(Insert(c) \/ Create(c))
      BY <1>5, <2>2 DEF Step, Verify, CreateSession, Guard, Revoke, FindAttempt, DeleteAttempt, Exchange,
             Resolve, Link, BySubject, ByEmail, Goto, Return
    <2>3. QED
      BY <2>1, <2>2
  <1>6. ASSUME Land(c) PROVE req'[c] = req[c] /\ stage'[c] # "idle"
    BY <1>6 DEF Land
  <1>7. ~ \E r \in Requests : Begin(c, r)
    BY DEF Begin
  <1>8. QED
    BY <1>1, <1>2, <1>3, <1>4, <1>5, <1>6, <1>7 DEF Next, Server, World

LEMMA InitInv == Init => Inv
  <1>1. Init => AccountsInv
    BY AccountsInitInv
  <1>2. Init => /\ \A a \in Attempt : binding[a] = None
                /\ \A c \in Call : stage[c] = "idle"
    BY DEF Init
  <1>3. QED
    BY <1>1, <1>2 DEF Inv, BoundHolds

(* An attempt is bound once, to the session of a user.                      *)
LEMMA BindingsKept ==
  ASSUME Inv, [Next]_vars
  PROVE  /\ \A a \in started : binding'[a] = binding[a]
         /\ \A a \in Attempt : binding'[a] # None => owner'[binding'[a]] # None
         /\ UNCHANGED binding \/ UNCHANGED <<calls, owner>>
  <1>1. /\ \A a \in started : binding'[a] = binding[a]
        /\ \A a \in Attempt : binding'[a] = binding[a] \/ binding'[a] = None \/ Live(binding'[a])
        /\ UNCHANGED binding \/ UNCHANGED <<calls, owner>>
    <2>1. ASSUME NEW link \in BOOLEAN, Start(link)
          PROVE  /\ \A a \in started : binding'[a] = binding[a]
                 /\ \A a \in Attempt : binding'[a] = binding[a] \/ binding'[a] = None \/ Live(binding'[a])
                 /\ UNCHANGED <<calls, owner>>
      BY <2>1 DEF Start, Inv, AccountsInv, TypeOK, sessions
    <2>2. ASSUME NEW c \in Call, Step(c) PROVE UNCHANGED binding
      BY <2>2 DEF Step, Insert, Verify, CreateSession, Guard, Revoke, FindAttempt, DeleteAttempt, Exchange,
             Resolve, Link, BySubject, ByEmail, Create, attempts
    <2>3. ASSUME NEW c \in Call, Land(c) \/ \E r \in Requests : Begin(c, r) PROVE UNCHANGED binding
      BY <2>3 DEF Land, Begin, attempts
    <2>4. CASE \/ \E s \in Session : Expire(s)
               \/ \E a \in Attempt : Lapse(a)
               \/ \E u \in User : Disable(u)
      BY <2>4 DEF Expire, Lapse, Disable, attempts
    <2>5. CASE UNCHANGED vars
      BY <2>5 DEF vars, attempts
    <2>6. QED
      BY <2>1, <2>2, <2>3, <2>4, <2>5 DEF Next, Server, Inv, AccountsInv, TypeOK
  <1>2. \A s \in Session : owner[s] # None => owner'[s] # None
    BY WrittenOnce, NamesAssumption DEF Inv
  <1>3. \A a \in Attempt : binding[a] # None => binding[a] \in Session /\ owner[binding[a]] # None
    BY DEF Inv, AccountsInv, TypeOK
  <1>4. QED
    BY <1>1, <1>2, <1>3 DEF Live

(* A step of a callback that is bound goes on for its user, or fails.       *)
LEMMA BoundStep ==
  ASSUME Inv, NEW c \in Call, Step(c), stage[c] # "idle", req[c].kind = "callback", BoundTo(c) # None
  PROVE  /\ stage'[c] \notin {"bySubject", "byEmail", "create"}
         /\ stage'[c] \in {"link", "session"} => who'[c] = owner[BoundTo(c)]
         /\ owner'[c] # None => owner'[c] = owner[BoundTo(c)]
  <1> USE DEF Inv, AccountsInv, TypeOK
  <1>1. /\ stage[c] \notin {"bySubject", "byEmail", "create", "insert", "verify"}
        /\ stage[c] \in {"link", "session"} => who[c] = owner[BoundTo(c)]
        /\ owner[c] # None => owner[c] = owner[BoundTo(c)]
    BY DEF BoundHolds, CallHolds
  <1>2. CASE CreateSession(c)
    BY <1>1, <1>2 DEF CreateSession, Return, Session
  <1>3. CASE Resolve(c)
    <2>1. who' = [who EXCEPT ![c] = owner[BoundTo(c)]] \/ stage' = [stage EXCEPT ![c] = "done"]
      BY <1>3 DEF Resolve, Found, Return, BoundTo
    <2>2. stage' = [stage EXCEPT ![c] = "link"] \/ stage' = [stage EXCEPT ![c] = "done"]
      BY <1>3 DEF Resolve, Goto, Return
    <2>3. owner' = owner
      BY <1>3 DEF Resolve, sessions
    <2>4. QED
      BY <1>1, <2>1, <2>2, <2>3
  <1>4. CASE Exchange(c)
    BY <1>1, <1>4 DEF Exchange, Goto, Return, sessions, BoundTo
  <1>5. CASE Link(c)
    BY <1>1, <1>5 DEF Link, Goto, Return, sessions
  <1>6. CASE FindAttempt(c) \/ DeleteAttempt(c) \/ Guard(c) \/ Revoke(c)
    BY <1>1, <1>6 DEF FindAttempt, DeleteAttempt, Guard, Revoke, Goto, Return, sessions
  <1>7. ~(Insert(c) \/ Verify(c) \/ BySubject(c) \/ ByEmail(c) \/ Create(c))
    BY <1>1 DEF Insert, Verify, BySubject, ByEmail, Create
  <1>8. QED
    BY <1>2, <1>3, <1>4, <1>5, <1>6, <1>7 DEF Step

(* The first step of a call takes its request.                              *)
LEMMA IdleMoves ==
  ASSUME AccountsInv, [Next]_vars, NEW c \in Call, stage[c] = "idle", stage'[c] # "idle"
  PROVE  stage'[c] \in {"insert", "verify", "find", "guard"} /\ owner'[c] = None
  <1> USE DEF AccountsInv, TypeOK
  <1>1. owner[c] = None
    BY DEF CallHolds
  <1>2. ASSUME NEW d \in Call, Step(d) PROVE FALSE
    <2>1. CASE Insert(d) \/ Create(d)
      BY <2>1 DEF Insert, Create, CreateUser, Goto, Return
    <2>2. CASE ~(Insert(d) \/ Create(d))
      BY <1>2, <2>2 DEF Step, Verify, CreateSession, Guard, Revoke, FindAttempt, DeleteAttempt, Exchange,
             Resolve, Link, BySubject, ByEmail, Goto, Return
    <2>3. QED
      BY <2>1, <2>2
  <1>3. ASSUME NEW d \in Call, Land(d) PROVE FALSE
    BY <1>3 DEF Land
  <1>4. ASSUME NEW d \in Call, NEW r \in Requests, Begin(d, r)
        PROVE  stage'[c] \in {"insert", "verify", "find", "guard"} /\ owner'[c] = owner[c]
    <2>1. r \in Request
      BY DEF Requests, Request
    <2>2. QED
      BY <1>4, <2>1, RequestFields DEF Begin, sessions
  <1>5. CASE World
    BY <1>5 DEF World, Start, Expire, Lapse, Disable, calls
  <1>6. CASE UNCHANGED vars
    BY <1>6 DEF vars, calls
  <1>7. QED
    BY <1>1, <1>2, <1>3, <1>4, <1>5, <1>6 DEF Next, Server, World

LEMMA NextInv == Inv /\ [Next]_vars => Inv'
  <1> SUFFICES ASSUME Inv, [Next]_vars PROVE Inv'
    OBVIOUS
  <1>1. AccountsInv'
    BY AccountsStepInv DEF Inv
  <1>2. (\A a \in Attempt : binding[a] # None => owner[binding[a]] # None)'
    BY BindingsKept
  <1>3. ASSUME NEW c \in Call PROVE BoundHolds(c)'
    <2> SUFFICES ASSUME stage'[c] # "idle", req'[c].kind = "callback", BoundTo(c)' # None
                 PROVE  /\ stage'[c] \notin {"bySubject", "byEmail", "create"}
                        /\ stage'[c] \in {"link", "session"} => who'[c] = owner'[BoundTo(c)']
                        /\ owner'[c] # None => owner'[c] = owner'[BoundTo(c)']
      BY DEF BoundHolds
    <2>1. CASE UNCHANGED <<calls, owner>>
      <3>1. ASSUME Consumed(c) PROVE BoundTo(c)' = BoundTo(c)
        <4>1. req[c].attempt \in started
          BY <2>1, <3>1 DEF Inv, AccountsInv, CallHolds, Consumed
        <4>2. QED
          BY <2>1, <4>1, BindingsKept DEF BoundTo, calls
      <3>2. QED
        BY <2>1, <3>1 DEF Inv, BoundHolds, Consumed, calls
    <2>2. CASE UNCHANGED binding /\ stage[c] = "idle"
      <3>1. stage'[c] \in {"insert", "verify", "find", "guard"} /\ owner'[c] = None
        BY <2>2, IdleMoves DEF Inv
      <3>2. QED
        BY <3>1
    <2>3. CASE UNCHANGED binding /\ stage[c] # "idle"
      <3>1. req'[c] = req[c] /\ (Step(c) \/ Land(c) \/ UNCHANGED <<stage[c], who[c], owner[c]>>)
        BY <2>3, CallsKept DEF Inv
      <3>2. BoundTo(c)' = BoundTo(c) /\ req[c].kind = "callback" /\ BoundTo(c) # None
        BY <2>3, <3>1 DEF BoundTo
      <3>3. owner'[BoundTo(c)] = owner[BoundTo(c)]
        <4>1. req[c].attempt \in Attempt
          BY <2>3, <3>2, RequestFields DEF Inv, AccountsInv, CallHolds
        <4>2. BoundTo(c) \in Session /\ owner[BoundTo(c)] # None
          BY <3>2, <4>1 DEF BoundTo, Inv, AccountsInv, TypeOK
        <4>3. QED
          BY <4>2, WrittenOnce DEF Inv
      <3>4. CASE Step(c)
        BY <2>3, <3>2, <3>3, <3>4, BoundStep
      <3>5. CASE Land(c)
        BY <2>3, <3>2, <3>3, <3>5 DEF Land, sessions, Inv, AccountsInv, TypeOK, BoundHolds
      <3>6. CASE UNCHANGED <<stage[c], who[c], owner[c]>>
        BY <2>3, <3>2, <3>3, <3>6 DEF Inv, BoundHolds
      <3>7. QED
        BY <3>1, <3>4, <3>5, <3>6
    <2>4. QED
      BY <2>1, <2>2, <2>3, BindingsKept
  <1>4. QED
    BY <1>1, <1>2, <1>3 DEF Inv

(* The inductive invariant of apps/api/src/auth, for any users, addresses, *)
(* Google accounts, calls and attempts.                                    *)
THEOREM Invariance == Spec => []Inv
  BY InitInv, NextInv, PTL DEF Spec

(* First sign-ins that overlap make one account.                           *)
THEOREM AccountsAreOne == Spec => []OneAccount
  <1>1. Inv => OneAccount
    BY DEF Inv, AccountsInv
  <1>2. QED
    BY <1>1, Invariance, PTL

(* google-auth.service.ts links and signs in only the owner of the Google   *)
(* account.                                                                *)
THEOREM LinksAreByOwner == Spec => []LinkedByOwner
  <1>1. Inv => LinkedByOwner
    BY DEF Inv, AccountsInv
  <1>2. QED
    BY <1>1, Invariance, PTL

(* An attempt is consumed by one of the callbacks that have found it.      *)
THEOREM AttemptsSignInOnce == Spec => []OneSessionPerAttempt
  <1>1. Inv => OneSessionPerAttempt
    BY DEF Inv, AccountsInv
  <1>2. QED
    BY <1>1, Invariance, PTL

(* A callback whose attempt a signed-in user started signs in that user or *)
(* nobody, whoever the browser has signed in meanwhile.                    *)
THEOREM BoundCallbacksSignInTheirOwner == Spec => []BoundSignsInItsOwner
  <1>1. Inv => BoundSignsInItsOwner
    BY DEF Inv, AccountsInv, CallHolds, BoundHolds, BoundSignsInItsOwner
  <1>2. QED
    BY <1>1, Invariance, PTL

(* No call takes back the address of an account, its link, the user of a   *)
(* session, or the end of one.                                             *)
THEOREM NothingIsUndone == Spec => NothingUndone
  <1>1. Inv /\ [Next]_vars =>
          [/\ \A u \in User : email[u] # None => email'[u] = email[u]
           /\ \A u \in User : subject[u] # None => subject'[u] = subject[u]
           /\ \A s \in Session : owner[s] # None => owner'[s] = owner[s]
           /\ dead \subseteq dead']_vars
    BY WrittenOnce DEF Inv
  <1>2. QED
    BY <1>1, Invariance, PTL DEF Spec, NothingUndone
-----------------------------------------------------------------------------
(* The tab.  Every step of it is a step of Sessions, or none.               *)
LEMMA TabStep == [Tab \/ Rest]_all => [Next]_vars
  <1> SUFFICES ASSUME [Tab \/ Rest]_all PROVE Next \/ UNCHANGED vars
    OBVIOUS
  <1>1. ASSUME NEW c \in Call, NEW r \in Requests, Submit(c, r) \/ Logout(c, r) PROVE Next
    BY <1>1 DEF Submit, Logout, Next
  <1>2. ASSUME NEW link \in BOOLEAN, ToGoogle(link) PROVE Next
    BY <1>2 DEF ToGoogle, Next
  <1>3. ASSUME NEW c \in Call, TabLand(c) PROVE Next
    BY <1>3 DEF TabLand, Next
  <1>4. CASE Mount \/ (\E p \in Page : Visit(p)) \/ (\E c \in Call : Drop(c)) \/ Serve \/ Me \/ Expiry
    BY <1>4 DEF Mount, Visit, Drop, Serve, Me, Expiry
  <1>5. CASE Tab
    BY <1>1, <1>2, <1>3, <1>4, <1>5 DEF Tab
  <1>6. CASE Rest
    BY <1>6 DEF Rest, Next
  <1>7. QED
    BY <1>5, <1>6 DEF all

(* Behind the tab the accounts and sessions are what they are without it.   *)
THEOREM TabUsesSessions == TabSpec => Spec
  <1>1. TabInit => Init
    BY DEF TabInit
  <1>2. QED
    BY <1>1, TabStep, PTL DEF TabSpec, Spec

(* A user that has had a session has had it for good.                       *)
LEMMA SignedInKept == ASSUME Inv, [Next]_vars PROVE SignedInOnce \subseteq SignedInOnce'
  <1> SUFFICES ASSUME NEW s \in Session, owner[s] # None PROVE owner[s] \in SignedInOnce'
    BY DEF SignedInOnce
  <1>1. owner'[s] = owner[s]
    BY WrittenOnce DEF Inv
  <1>2. QED
    BY <1>1 DEF SignedInOnce

(* A call that has not begun has no answer.                                 *)
LEMMA IdleStays ==
  ASSUME AccountsInv, [Next]_vars, NEW c \in Call, stage[c] = "idle"
  PROVE  outcome'[c] = outcome[c]
  <1> USE DEF AccountsInv, TypeOK
  <1>1. ASSUME NEW d \in Call, Step(d) PROVE outcome'[c] = outcome[c]
    <2>1. CASE Insert(d) \/ Create(d)
      BY <2>1 DEF Insert, Create, CreateUser, Goto, Return
    <2>2. CASE ~(Insert(d) \/ Create(d))
      BY <1>1, <2>2 DEF Step, Verify, CreateSession, Guard, Revoke, FindAttempt, DeleteAttempt, Exchange,
             Resolve, Link, BySubject, ByEmail, Goto, Return
    <2>3. QED
      BY <2>1, <2>2
  <1>2. ASSUME NEW d \in Call, Land(d) \/ \E r \in Requests : Begin(d, r) PROVE outcome'[c] = outcome[c]
    BY <1>2 DEF Land, Begin
  <1>3. CASE World
    BY <1>3 DEF World, Start, Expire, Lapse, Disable, calls
  <1>4. CASE UNCHANGED vars
    BY <1>4 DEF vars, calls
  <1>5. QED
    BY <1>1, <1>2, <1>3, <1>4 DEF Next, Server, World

(* A sign-in is answered once its session exists.                           *)
LEMMA SignsInKept ==
  ASSUME Inv, AnsweredHaveSessions, [Next]_vars
  PROVE  AnsweredHaveSessions'
  <1> SUFFICES ASSUME NEW c \in Call
               PROVE  /\ stage'[c] = "idle" => outcome'[c] = "none"
                      /\ SignsIn(c)' => owner'[c] # None
    BY DEF AnsweredHaveSessions
  <1> USE DEF Inv, AccountsInv, TypeOK, SignsIn, AnsweredHaveSessions
  <1>1. ASSUME SignsIn(c)', stage[c] # "idle", req'[c] = req[c], Step(c) PROVE owner'[c] # None
    <2>1. CASE CreateSession(c)
      BY <2>1, NamesAssumption DEF CreateSession, Session
    <2>2. CASE Revoke(c)
      BY <1>1, <2>2 DEF Revoke, CallHolds
    <2>3. CASE Insert(c) \/ Create(c)
      BY <1>1, <2>3 DEF Insert, Create, CreateUser, Goto, Return, sessions
    <2>4. CASE ~(CreateSession(c) \/ Revoke(c) \/ Insert(c) \/ Create(c))
      BY <1>1, <2>4 DEF Step, Verify, Guard, FindAttempt, DeleteAttempt, Exchange,
             Resolve, Link, BySubject, ByEmail, Goto, Return, sessions
    <2>5. QED
      BY <2>1, <2>2, <2>3, <2>4
  <1>2. ASSUME SignsIn(c)', stage[c] # "idle", req'[c] = req[c], Land(c) \/ UNCHANGED <<outcome[c], owner[c]>>
        PROVE  owner'[c] # None
    BY <1>2 DEF Land, sessions
  <1>3. CASE stage[c] # "idle"
    BY <1>1, <1>2, <1>3, CallsKept
  <1>4. CASE stage[c] = "idle"
    <2>1. outcome[c] = "none" /\ outcome'[c] = outcome[c]
      BY <1>4, IdleStays
    <2>2. QED
      BY <2>1
  <1>5. QED
    BY <1>3, <1>4

(* Only landing ends a call that has begun.                                 *)
LEMMA UnansweredStays ==
  ASSUME AccountsInv, NEW c \in Call, stage[c] \notin {"idle", "landed"},
         \/ \E d \in Call : Step(d) \/ (\E r \in Requests : Begin(d, r)) \/ (d # c /\ Land(d))
         \/ World
         \/ UNCHANGED vars
  PROVE  req'[c] = req[c] /\ stage'[c] \notin {"idle", "landed"}
  <1> USE DEF AccountsInv, TypeOK
  <1>1. ASSUME NEW d \in Call, Step(d) PROVE req'[c] = req[c] /\ stage'[c] \notin {"idle", "landed"}
    <2>1. CASE Insert(d) \/ Create(d)
      BY <2>1 DEF Insert, Create, CreateUser, Goto, Return
    <2>2. CASE ~(Insert(d) \/ Create(d))
      BY <1>1, <2>2 DEF Step, Verify, CreateSession, Guard, Revoke, FindAttempt, DeleteAttempt, Exchange,
             Resolve, Link, BySubject, ByEmail, Goto, Return
    <2>3. QED
      BY <2>1, <2>2
  <1>2. ASSUME NEW d \in Call, NEW r \in Requests, Begin(d, r)
        PROVE  req'[c] = req[c] /\ stage'[c] \notin {"idle", "landed"}
    BY <1>2 DEF Begin
  <1>3. ASSUME NEW d \in Call, d # c, Land(d) PROVE req'[c] = req[c] /\ stage'[c] \notin {"idle", "landed"}
    BY <1>3 DEF Land
  <1>4. CASE World
    BY <1>4 DEF World, Start, Expire, Lapse, Disable, calls
  <1>5. CASE UNCHANGED vars
    BY <1>5 DEF vars, calls
  <1>6. QED
    BY <1>1, <1>2, <1>3, <1>4, <1>5

(* The call that a page makes is one that has not begun.                    *)
LEMMA Begun ==
  ASSUME AccountsInv, NEW c \in Call, NEW r \in Requests, Begin(c, r), r.kind # "callback"
  PROVE  /\ stage[c] = "idle" /\ req'[c] = r
         /\ stage'[c] \notin {"idle", "landed"}
         /\ UNCHANGED cookie
  <1>1. r \in Request
    BY DEF Requests, Request, AccountsInv, TypeOK
  <1>2. QED
    BY <1>1, RequestFields DEF Begin, AccountsInv, TypeOK, cookies

LEMMA TabTypeKept ==
  ASSUME TabInv, [Tab \/ Rest]_all
  PROVE  TabTypeOK' /\ waiting' \subseteq Call
  <1> USE DEF TabInv, TabTypeOK
  <1>1. cookie' \in Session \cup {None}
    BY TabStep, AccountsStepInv DEF Inv, AccountsInv, TypeOK
  <1>2. \A c \in Call : SignsIn(c) => owner[c] \in User
    BY DEF AnsweredHaveSessions, Inv, AccountsInv, TypeOK, Session
  <1>3. CASE Load
    BY <1>1, <1>3 DEF Load
  <1>4. CASE Away
    BY <1>4 DEF Away, Page
  <1>5. ASSUME NEW c \in Call, NEW r \in Requests, Submit(c, r) \/ Logout(c, r)
        PROVE  TabTypeOK' /\ waiting' \subseteq Call
    BY <1>5 DEF Submit, Logout
  <1>6. ASSUME NEW c \in Call, waiting' = waiting \ {c}, UNCHANGED me,
               SignedIn(c) \/ Refused(c) \/ (LoggedOut(c) /\ form # c)
        PROVE  TabTypeOK' /\ waiting' \subseteq Call
    BY <1>2, <1>6 DEF SignedIn, Refused, LoggedOut, Resubmittable
  <1>7. ASSUME NEW c \in Call, Drop(c) PROVE TabTypeOK' /\ waiting' \subseteq Call
    BY <1>7 DEF Drop, Resubmittable
  <1>8. CASE Serve
    <2>1. ASSUME Live(me.carries) PROVE owner[me.carries] \in User
      BY <2>1 DEF Live, Inv, AccountsInv, TypeOK
    <2>2. QED
      BY <1>8, <2>1 DEF Serve
  <1>9. CASE (\E p \in Page : Visit(p)) \/ Me \/ Expiry
    BY <1>9 DEF Visit, Me, Expiry, Page, AUTH_PAGES
  <1>10. CASE UNCHANGED tab
    BY <1>10 DEF tab
  <1>11. ASSUME NEW c \in Call, TabLand(c) PROVE TabTypeOK' /\ waiting' \subseteq Call
    <2>1. LoggedOut(c) => form # c
      <3>1. form = c => form # None
        BY NamesAssumption
      <3>2. QED
        BY <3>1 DEF LoggedOut
    <2>2. QED
      BY <1>3, <1>6, <1>10, <1>11, <2>1 DEF TabLand
  <1>12. CASE Tab
    BY <1>3, <1>4, <1>5, <1>7, <1>8, <1>9, <1>11, <1>12 DEF Tab, Mount, ToGoogle
  <1>13. QED
    BY <1>10, <1>12 DEF Rest, all

(* A call that is waited for has begun and has not landed, and no form      *)
(* submits a sign-out.                                                     *)
LEMMA WaitsKept ==
  ASSUME TabInv, [Tab \/ Rest]_all
  PROVE  WaitsForAnAnswer' /\ (form' # None => req'[form'].kind # "logout")
  <1> USE DEF TabInv, TabTypeOK
  <1> DEFINE Waits(c) == /\ stage[c] \notin {"idle", "landed"}
                         /\ req[c].kind \in {"register", "login", "logout"}
             Forms == form' # None => req'[form'].kind # "logout"
  <1> SUFFICES WaitsForAnAnswer' /\ Forms
    OBVIOUS
  <1>1. AccountsInv /\ waiting \subseteq Call /\ \A c \in waiting : Waits(c)
    BY DEF Inv, WaitsForAnAnswer
  <1>2. ASSUME waiting' = {}, form' = None PROVE WaitsForAnAnswer' /\ Forms
    BY <1>2 DEF WaitsForAnAnswer
  <1>3. ASSUME NEW C \in SUBSET Call, waiting' \subseteq C, \A c \in C : Waits(c)',
               form' = None \/ (form' \in C /\ req'[form'].kind # "logout")
        PROVE  WaitsForAnAnswer' /\ Forms
    BY <1>3 DEF WaitsForAnAnswer
  <1>4. form # None => form \in Call /\ form \in waiting /\ req[form].kind # "logout"
    OBVIOUS
  <1> HIDE DEF Waits, Forms
  <1>5. CASE UNCHANGED <<req, stage>> /\ waiting' \subseteq waiting /\ form' \in {None, form} /\ form' \in waiting' \cup {None}
    <2>1. \A c \in waiting : Waits(c)'
      BY <1>1, <1>5 DEF Waits
    <2>2. QED
      BY <1>1, <1>3, <1>4, <1>5, <2>1
  <1>6. CASE Rest
    <2>1. ASSUME NEW c \in waiting PROVE Waits(c)' /\ req'[c] = req[c]
      <3>1. c \in Call /\ Waits(c)
        BY <1>1
      <3>2. req'[c] = req[c] /\ stage'[c] \notin {"idle", "landed"}
        BY <1>1, <1>6, <3>1, UnansweredStays DEF Rest, Server, World, Waits
      <3>3. QED
        BY <3>1, <3>2 DEF Waits
    <2>2. UNCHANGED <<waiting, form>>
      BY <1>6 DEF Rest, tab
    <2>3. QED
      BY <1>1, <1>3, <1>4, <2>1, <2>2
  <1>7. ASSUME NEW c \in Call, NEW r \in Requests, Submit(c, r) \/ Logout(c, r) PROVE WaitsForAnAnswer' /\ Forms
    <2>1. Begin(c, r) /\ r.kind \in {"register", "login", "logout"} /\ waiting' = waiting \cup {c}
      BY <1>7 DEF Submit, Logout
    <2>2. Waits(c)' /\ req'[c] = r
      BY <1>1, <2>1, Begun DEF Waits
    <2>3. ASSUME NEW d \in waiting PROVE Waits(d)' /\ req'[d] = req[d]
      <3>1. d \in Call /\ Waits(d)
        BY <1>1
      <3>2. req'[d] = req[d] /\ stage'[d] \notin {"idle", "landed"}
        BY <1>1, <2>1, <3>1, UnansweredStays DEF Waits
      <3>3. QED
        BY <3>1, <3>2 DEF Waits
    <2>4. form' = form \/ (form' = c /\ r.kind # "logout")
      BY <1>7 DEF Submit, Logout
    <2>5. \A d \in waiting \cup {c} : Waits(d)'
      BY <2>2, <2>3
    <2>6. form' = None \/ (form' \in waiting \cup {c} /\ req'[form'].kind # "logout")
      BY <1>4, <2>2, <2>3, <2>4
    <2>7. waiting \cup {c} \in SUBSET Call
      BY <1>1
    <2>8. QED
      BY <1>3, <2>1, <2>5, <2>6, <2>7
  <1>8. ASSUME NEW c \in Call, TabLand(c) PROVE WaitsForAnAnswer' /\ Forms
    <2>1. CASE waiting' = {} /\ form' = None
      BY <1>2, <2>1
    <2>2. CASE ~(waiting' = {} /\ form' = None)
      <3>1. Land(c) /\ waiting' = waiting \ {c} /\ form' \in {None, form} /\ form' # c
        <4>1. c # None
          BY NamesAssumption
        <4>2. ASSUME LoggedOut(c) PROVE form' = form /\ form # c
          BY <1>4, <4>1, <4>2 DEF LoggedOut
        <4>3. ASSUME c \notin waiting, UNCHANGED tab PROVE waiting' = waiting \ {c} /\ form' = form /\ form # c
          BY <1>4, <4>1, <4>3 DEF tab
        <4>4. ASSUME SignedIn(c) \/ Refused(c) PROVE form' \in {None, form} /\ form' # c
          BY <4>1, <4>4 DEF SignedIn, Refused, Resubmittable
        <4>5. QED
          BY <1>8, <2>2, <4>2, <4>3, <4>4 DEF TabLand, Load
      <3>2. ASSUME NEW d \in waiting \ {c} PROVE Waits(d)' /\ req'[d] = req[d]
        <4>1. d \in Call /\ Waits(d) /\ d # c
          BY <1>1
        <4>2. req'[d] = req[d] /\ stage'[d] \notin {"idle", "landed"}
          BY <1>1, <3>1, <4>1, UnansweredStays DEF Waits
        <4>3. QED
          BY <4>1, <4>2 DEF Waits
      <3>3. form' = None \/ (form' \in waiting \ {c} /\ req'[form'].kind # "logout")
        BY <1>4, <3>1, <3>2
      <3>4. waiting \ {c} \in SUBSET Call
        BY <1>1
      <3>5. QED
        BY <1>3, <3>1, <3>2, <3>3, <3>4
    <2>3. QED
      BY <2>1, <2>2
  <1>9. ASSUME NEW c \in Call, Drop(c) PROVE WaitsForAnAnswer' /\ Forms
    BY <1>4, <1>5, <1>9, NamesAssumption DEF Drop, Resubmittable, vars, calls
  <1>10. CASE (\E p \in Page : Visit(p)) \/ Serve \/ Me \/ Expiry \/ UNCHANGED all
    BY <1>4, <1>5, <1>10 DEF Visit, Serve, Me, Expiry, all, vars, calls, tab
  <1>11. CASE Tab
    BY <1>2, <1>7, <1>8, <1>9, <1>10, <1>11 DEF Tab, Mount, Load, ToGoogle, Away
  <1>12. QED
    BY <1>6, <1>10, <1>11

(* What the tab shows, and fetchMe says, comes from a session.              *)
LEMMA ShownKept ==
  ASSUME TabInv, [Tab \/ Rest]_all,
         {"loading", "out", "gone", "401", "error"} \cap User = {}
  PROVE  /\ ShownHasSignedIn'
         /\ me' # None /\ DOMAIN me' = {"says"} /\ me'.says \in User => me'.says \in SignedInOnce'
  <1> USE DEF TabInv, TabTypeOK, ShownHasSignedIn
  <1> DEFINE Said == me' # None /\ DOMAIN me' = {"says"} /\ me'.says \in User => me'.says \in SignedInOnce'
  <1>1. SignedInOnce \subseteq SignedInOnce'
    BY TabStep, SignedInKept
  <1>2. \A s \in Session : owner[s] # None => owner[s] \in SignedInOnce
    BY DEF SignedInOnce
  <1>3. CASE UNCHANGED <<view, me>>
    BY <1>1, <1>3
  <1>4. CASE view' \in {"loading", "out", "gone"} /\ me' = me
    BY <1>1, <1>4
  <1>5. CASE Load
    BY <1>5 DEF Load
  <1>6. CASE Away
    BY <1>6 DEF Away
  <1>7. ASSUME NEW c \in Call, SignedIn(c), me' = me PROVE ShownHasSignedIn' /\ Said
    <2>1. owner[c] # None /\ c \in Session
      BY <1>7 DEF SignedIn, AnsweredHaveSessions, Session
    <2>2. QED
      BY <1>1, <1>2, <1>7, <2>1 DEF SignedIn
  <1>8. ASSUME NEW c \in Call, TabLand(c) PROVE ShownHasSignedIn' /\ Said
    <2>1. ASSUME Refused(c) \/ LoggedOut(c), me' = me PROVE ShownHasSignedIn' /\ Said
      BY <1>3, <1>4, <2>1 DEF Refused, LoggedOut
    <2>2. ASSUME UNCHANGED tab PROVE ShownHasSignedIn' /\ Said
      BY <1>3, <2>2 DEF tab
    <2>3. QED
      BY <1>5, <1>7, <1>8, <2>1, <2>2 DEF TabLand
  <1>9. CASE Serve
    <2>1. \/ me' = [says |-> "401"] \/ me' = [says |-> "error"]
          \/ (Live(me.carries) /\ me' = [says |-> owner[me.carries]])
      BY <1>9 DEF Serve
    <2>2. Live(me.carries) => owner[me.carries] \in SignedInOnce
      BY <1>2 DEF Live
    <2>3. view' = view
      BY <1>9 DEF Serve
    <2>4. QED
      BY <1>1, <2>1, <2>2, <2>3
  <1>10. CASE Me
    BY <1>1, <1>10 DEF Me
  <1>11. CASE Expiry
    BY <1>4, <1>11 DEF Expiry
  <1>12. ASSUME NEW c \in Call, NEW r \in Requests, Submit(c, r) \/ Logout(c, r) PROVE ShownHasSignedIn' /\ Said
    BY <1>3, <1>12 DEF Submit, Logout
  <1>13. CASE (\E p \in Page : Visit(p)) \/ (\E c \in Call : Drop(c))
    BY <1>3, <1>13 DEF Visit, Drop
  <1>14. CASE Tab
    BY <1>5, <1>6, <1>8, <1>9, <1>10, <1>11, <1>12, <1>13, <1>14 DEF Tab, Mount, ToGoogle
  <1>15. CASE Rest \/ UNCHANGED all
    BY <1>3, <1>15 DEF Rest, all, tab
  <1>16. QED
    BY <1>14, <1>15

LEMMA TabInitInv ==
  ASSUME TabInit, {"loading", "out", "gone", "401", "error"} \cap User = {} PROVE TabInv
  <1> USE DEF TabInit
  <1>1. Inv
    BY InitInv
  <1>2. TabTypeOK
    BY <1>1 DEF TabTypeOK, Inv, AccountsInv, TypeOK
  <1>3. AnsweredHaveSessions
    BY DEF Init, AnsweredHaveSessions, SignsIn
  <1>4. QED
    BY <1>1, <1>2, <1>3 DEF TabInv, WaitsForAnAnswer, ShownHasSignedIn

(* The inductive invariant of the tab, for any calls that other tabs make   *)
(* meanwhile: what the tab says of itself is not the name of a user.        *)
THEOREM TabInvariance ==
  ASSUME {"loading", "out", "gone", "401", "error"} \cap User = {}
  PROVE  TabSpec => []TabInv
  <1>1. TabInit => TabInv
    BY TabInitInv
  <1>2. TabInv /\ [Tab \/ Rest]_all => TabInv'
    <2> SUFFICES ASSUME TabInv, [Tab \/ Rest]_all PROVE TabInv'
      OBVIOUS
    <2>1. Inv' /\ AnsweredHaveSessions'
      BY TabStep, NextInv, SignsInKept DEF TabInv
    <2>2. QED
      BY <2>1, TabTypeKept, WaitsKept, ShownKept DEF TabInv
  <1>3. QED
    BY <1>1, <1>2, PTL DEF TabSpec

(* auth-provider.tsx shows a user only if a session of that user has been   *)
(* created, in whichever order the answers of its calls arrive.             *)
THEOREM ShownHaveSignedIn ==
  ASSUME {"loading", "out", "gone", "401", "error"} \cap User = {}
  PROVE  TabSpec => []ShownHasSignedIn
  <1>1. TabInv => ShownHasSignedIn
    BY DEF TabInv
  <1>2. QED
    BY <1>1, TabInvariance, PTL

(* No page waits for a call that is over, so a form that is submitted, or   *)
(* a sign-out, is always answered or dropped.                              *)
THEOREM TabWaitsForAnAnswer ==
  ASSUME {"loading", "out", "gone", "401", "error"} \cap User = {}
  PROVE  TabSpec => []WaitsForAnAnswer
  <1>1. TabInv => WaitsForAnAnswer
    BY DEF TabInv
  <1>2. QED
    BY <1>1, TabInvariance, PTL
=============================================================================
