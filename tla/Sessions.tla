------------------------------ MODULE Sessions ------------------------------
(***************************************************************************)
(* Accounts and sessions of the API: apps/api/src/auth, with the guard of  *)
(* apps/api/src/authz that resolves the session of a request, and the two  *)
(* cookies of one browser, whose tabs send the calls.  A call goes through *)
(* the database one query at a time; a session is named after the call     *)
(* that created it.  Passwords that do not match, addresses that are not   *)
(* well formed and the throttling of calls are left out: such a call       *)
(* changes nothing.                                                        *)
(***************************************************************************)
EXTENDS Integers, FiniteSets

CONSTANTS
  User, Email, Subject,  \* ids of accounts, addresses, Google accounts
  MailOf,                \* the verified address of a Google account
  Call,                  \* sign-ins, callbacks of Google and sign-outs
  Attempt,               \* GoogleOAuthAttempt
  Early,                 \* a session from before
  None

ASSUME MailAssumption == MailOf \in [Subject -> Email]
ASSUME NamesAssumption ==
  /\ Early \notin Call \cup {None}
  /\ None \notin User \cup Email \cup Subject \cup Call \cup Attempt

Session == Call \cup {Early}

VARIABLES
  email,     \* User.email, None before the row exists
  password,  \* the users with a passwordHash
  subject,   \* User.googleSubject
  disabled,  \* the users whose status is not ACTIVE
  owner,     \* Session.userId
  dead,      \* the sessions that are revoked or have expired
  open,      \* the attempts that can be consumed
  started,   \* those that were ever made
  binding,   \* GoogleOAuthAttempt.sessionId
  req,       \* what a call asks for, with the cookies it carries
  who,       \* the user a call has found or made
  stage,
  outcome,
  cookie,    \* the session cookie of the browser
  token      \* the attempt whose browser token its gc_google_oauth holds

accounts == <<email, password, subject, disabled>>
sessions == <<owner, dead>>
attempts == <<open, started, binding>>
calls == <<req, who, stage, outcome>>
cookies == <<cookie, token>>
vars == <<accounts, sessions, attempts, calls, cookies>>

Request ==
  [kind : {"register", "login"}, email : Email]
    \cup [kind : {"logout", "logoutAll"}, session : Session \cup {None}]
    \cup [kind : {"callback"}, attempt : Attempt, subject : Subject,
          session : Session \cup {None}]

TypeOK ==
  /\ email \in [User -> Email \cup {None}]
  /\ subject \in [User -> Subject \cup {None}]
  /\ password \subseteq User /\ disabled \subseteq User
  /\ owner \in [Session -> User \cup {None}]
  /\ dead \subseteq Session
  /\ open \subseteq started /\ started \subseteq Attempt
  /\ binding \in [Attempt -> Session \cup {None}]
  /\ req \in [Call -> Request \cup {None}]
  /\ who \in [Call -> User \cup {None}]
  /\ stage \in [Call -> {"idle", "insert", "verify", "guard", "revoke", "find", "delete",
                         "exchange", "resolve", "link", "bySubject", "byEmail",
                         "create", "session", "done", "landed"}]
  /\ cookie \in Session \cup {None} /\ token \in Attempt \cup {None}
  /\ outcome \in [Call -> {"none", "ok", "401", "taken", "linkRequired", "unknown",
                            "failed"}]
  /\ \A c \in Call : stage[c] = "session" => who[c] # None

(* One account with a password and a session, or nothing yet. *)
Init ==
  /\ \E e \in Email \cup {None} :
       email = [[u \in User |-> None] EXCEPT ![CHOOSE v \in User : TRUE] = e]
  /\ password = {u \in User : email[u] # None}
  /\ subject = [u \in User |-> None]
  /\ disabled = {}
  /\ owner = [s \in Session |->
                IF s = Early /\ password # {} THEN CHOOSE u \in password : TRUE ELSE None]
  /\ dead = {}
  /\ open = {} /\ started = {} /\ binding = [a \in Attempt |-> None]
  /\ req = [c \in Call |-> None]
  /\ who = [c \in Call |-> None]
  /\ stage = [c \in Call |-> "idle"]
  /\ outcome = [c \in Call |-> "none"]
  /\ cookie = IF owner[Early] = None THEN None ELSE Early
  /\ token = None
-----------------------------------------------------------------------------
(* resolveActiveSession *)
Live(s) ==
  /\ s \in Session /\ owner[s] # None
  /\ s \notin dead
  /\ owner[s] \notin disabled

Goto(c, s) == stage' = [stage EXCEPT ![c] = s] /\ UNCHANGED <<req, outcome>>

Return(c, how) ==
  /\ stage' = [stage EXCEPT ![c] = "done"]
  /\ outcome' = [outcome EXCEPT ![c] = how]
  /\ UNCHANGED req

Found(c, u) == who' = [who EXCEPT ![c] = u]

(* Calls are taken in one order: they differ in nothing. *)
Begin(c, r) ==
  /\ stage[c] = "idle" /\ c = CHOOSE d \in Call : stage[d] = "idle"
  /\ req' = [req EXCEPT ![c] = r]
  /\ stage' = [stage EXCEPT ![c] =
       [register |-> "insert", login |-> "verify", callback |-> "find",
        logout |-> "guard", logoutAll |-> "guard"][r.kind]]
  /\ UNCHANGED <<accounts, sessions, attempts, who, outcome, cookies>>

(* Mutant: nothing keeps two rows apart. *)
FreeAlways(e, g) == TRUE

(* The unique keys of the table User. *)
Free(e, g) ==
  \A u \in User : email[u] # e /\ (g # None => subject[u] # g)

(* A new row, unless its address or its Google account has one. *)
CreateUser(c, e, g, taken) ==
  \/ /\ ~Free(e, g)
     /\ Return(c, taken)
     /\ UNCHANGED <<accounts, who>>
  \/ /\ Free(e, g) /\ \E v \in User : email[v] = None
     /\ LET u == CHOOSE v \in User : email[v] = None
        IN /\ email' = [email EXCEPT ![u] = e]
           /\ subject' = [subject EXCEPT ![u] = g]
           /\ password' = IF g = None THEN password \cup {u} ELSE password
           /\ Found(c, u)
     /\ Goto(c, "session")
     /\ UNCHANGED disabled

Insert(c) ==
  /\ stage[c] = "insert"
  /\ CreateUser(c, req[c].email, None, "taken")
  /\ UNCHANGED <<sessions, attempts, cookies>>

(* login: the user of the address, with the right password. *)
Verify(c) ==
  /\ stage[c] = "verify"
  /\ IF \E u \in password \ disabled : email[u] = req[c].email
       THEN Found(c, CHOOSE u \in password : email[u] = req[c].email) /\ Goto(c, "session")
       ELSE Return(c, "401") /\ UNCHANGED who
  /\ UNCHANGED <<accounts, sessions, attempts, cookies>>

CreateSession(c) ==
  /\ stage[c] = "session"
  /\ owner' = [owner EXCEPT ![c] = who[c]]
  /\ Return(c, "ok")
  /\ UNCHANGED <<accounts, dead, attempts, who, cookies>>

(* AuthenticatedGuard, in front of a sign-out. *)
Guard(c) ==
  /\ stage[c] = "guard"
  /\ IF Live(req[c].session)
       THEN Goto(c, "revoke") /\ Found(c, owner[req[c].session])
       ELSE Return(c, "401") /\ UNCHANGED who
  /\ UNCHANGED <<accounts, sessions, attempts, cookies>>

(* revokeSession, revokeAllForUser *)
Revoke(c) ==
  /\ stage[c] = "revoke"
  /\ dead' = dead \cup
       IF req[c].kind = "logout" THEN {req[c].session} ELSE {s \in Session : owner[s] = who[c]}
  /\ Return(c, "ok")
  /\ UNCHANGED <<accounts, owner, attempts, who, cookies>>
-----------------------------------------------------------------------------
(* Google. *)

(* start, for a sign-in or bound to the session of its user. *)
Start(link) ==
  /\ link => Live(cookie)
  /\ \E a \in Attempt \ started :
       /\ a = CHOOSE b \in Attempt \ started : TRUE
       /\ open' = open \cup {a} /\ started' = started \cup {a}
       /\ binding' = [binding EXCEPT ![a] = IF link THEN cookie ELSE None]
       /\ token' = a
  /\ UNCHANGED <<accounts, sessions, calls, cookie>>

(* consume: the attempt is found ... *)
FindAttempt(c) ==
  /\ stage[c] = "find"
  /\ IF req[c].attempt \in open THEN Goto(c, "delete") ELSE Return(c, "unknown")
  /\ UNCHANGED <<accounts, sessions, attempts, who, cookies>>

(* Mutant: the number of deleted rows is not looked at. *)
DeleteAny(c) ==
  /\ stage[c] = "delete"
  /\ open' = open \ {req[c].attempt}
  /\ Goto(c, "exchange")
  /\ UNCHANGED <<accounts, sessions, started, binding, who, cookies>>

(* ... and deleted, by one of the calls that have found it. *)
DeleteAttempt(c) ==
  /\ stage[c] = "delete"
  /\ open' = open \ {req[c].attempt}
  /\ IF req[c].attempt \in open THEN Goto(c, "exchange") ELSE Return(c, "unknown")
  /\ UNCHANGED <<accounts, sessions, started, binding, who, cookies>>

(* verify: Google's answer, or the user's refusal. *)
Exchange(c) ==
  /\ stage[c] = "exchange"
  /\ \/ Goto(c, IF binding[req[c].attempt] # None THEN "resolve" ELSE "bySubject")
     \/ Return(c, "failed")
  /\ UNCHANGED <<accounts, sessions, attempts, who, cookies>>

(* Mutant: the address of the account is not compared. *)
ResolveAny(c) ==
  /\ stage[c] = "resolve"
  /\ LET s == req[c].session
     IN IF Live(s) /\ s = binding[req[c].attempt]
          THEN Goto(c, "link") /\ Found(c, owner[s])
          ELSE Return(c, "failed") /\ UNCHANGED who
  /\ UNCHANGED <<accounts, sessions, attempts, cookies>>

(* finish, for an account that is to be linked: the session the attempt    *)
(* was bound to is the one that comes back, and the addresses agree.       *)
Resolve(c) ==
  /\ stage[c] = "resolve"
  /\ LET s == req[c].session
     IN IF /\ Live(s) /\ s = binding[req[c].attempt]
           /\ email[owner[s]] = MailOf[req[c].subject]
          THEN Goto(c, "link") /\ Found(c, owner[s])
          ELSE Return(c, "failed") /\ UNCHANGED who
  /\ UNCHANGED <<accounts, sessions, attempts, cookies>>

Linkable(u, g) == u \notin disabled /\ subject[u] \in {None, g}

(* One update, which never replaces a link and may meet the unique key. *)
Link(c) ==
  /\ stage[c] = "link"
  /\ LET g == req[c].subject
     IN IF Linkable(who[c], g) /\ \A v \in User \ {who[c]} : subject[v] # g
          THEN subject' = [subject EXCEPT ![who[c]] = g] /\ Goto(c, "session")
          ELSE Return(c, "failed") /\ UNCHANGED subject
  /\ UNCHANGED <<email, password, disabled, sessions, attempts, who, cookies>>

(* Mutant: a sign-in goes on without a user. *)
BySubjectAny(c) ==
  /\ stage[c] = "bySubject"
  /\ LET users == {u \in User : subject[u] = req[c].subject}
     IN /\ Goto(c, "session")
        /\ IF users = {} THEN UNCHANGED who ELSE Found(c, CHOOSE v \in users : TRUE)
  /\ UNCHANGED <<accounts, sessions, attempts, cookies>>

(* finish, for a sign-in: the user of the Google account ... *)
BySubject(c) ==
  /\ stage[c] = "bySubject"
  /\ LET users == {u \in User : subject[u] = req[c].subject}
     IN IF users = {} THEN Goto(c, "byEmail") /\ UNCHANGED who
        ELSE LET u == CHOOSE v \in users : TRUE
             IN IF u \in disabled THEN Return(c, "failed") /\ UNCHANGED who
                ELSE Goto(c, "session") /\ Found(c, u)
  /\ UNCHANGED <<accounts, sessions, attempts, cookies>>

(* ... or nobody, if the address has an account ... *)
ByEmail(c) ==
  /\ stage[c] = "byEmail"
  /\ IF \E u \in User : email[u] = MailOf[req[c].subject]
       THEN Return(c, "linkRequired")
       ELSE Goto(c, "create")
  /\ UNCHANGED <<accounts, sessions, attempts, who, cookies>>

(* ... or a new one. *)
Create(c) ==
  /\ stage[c] = "create"
  /\ CreateUser(c, MailOf[req[c].subject], req[c].subject, "failed")
  /\ UNCHANGED <<sessions, attempts, cookies>>

Step(c) ==
  \/ Insert(c)
  \/ Verify(c)
  \/ CreateSession(c)
  \/ Guard(c)
  \/ Revoke(c)
  \/ FindAttempt(c)
  \/ DeleteAttempt(c)
  \/ Exchange(c)
  \/ Resolve(c)
  \/ Link(c)
  \/ BySubject(c)
  \/ ByEmail(c)
  \/ Create(c)

SignsIn(c) == outcome[c] = "ok" /\ req[c].kind \in {"register", "login", "callback"}
SignsOut(c) == outcome[c] = "ok" /\ req[c].kind \in {"logout", "logoutAll"}

(* The answer reaches the browser, with its cookies.  A callback clears    *)
(* the token when it has consumed its attempt.                             *)
Land(c) ==
  /\ stage[c] = "done"
  /\ stage' = [stage EXCEPT ![c] = "landed"]
  /\ cookie' = IF SignsIn(c) THEN c ELSE IF SignsOut(c) THEN None ELSE cookie
  /\ token' = IF req[c].kind = "callback" /\ outcome[c] # "unknown" THEN None ELSE token
  /\ UNCHANGED <<accounts, sessions, attempts, req, who, outcome>>

(* What the browser's tabs may ask; Google may deliver a callback twice.   *)
Requests ==
  [kind : {"register", "login"}, email : Email]
    \cup [kind : {"logout", "logoutAll"}, session : {cookie}]
    \cup IF token = None THEN {}
         ELSE [kind : {"callback"}, attempt : {token}, subject : Subject, session : {cookie}]

(* Time, for sessions and attempts, and an operator. *)
Expire(s) ==
  /\ Live(s)
  /\ dead' = dead \cup {s}
  /\ UNCHANGED <<accounts, owner, attempts, calls, cookies>>

Lapse(a) ==
  /\ a \in open
  /\ open' = open \ {a}
  /\ UNCHANGED <<accounts, sessions, started, binding, calls, cookies>>

Disable(u) ==
  /\ email[u] # None /\ u \notin disabled
  /\ disabled' = disabled \cup {u}
  /\ UNCHANGED <<email, password, subject, sessions, attempts, calls, cookies>>

Server ==
  \/ \E c \in Call : Step(c)
  \/ \E s \in Session : Expire(s)
  \/ \E a \in Attempt : Lapse(a)
  \/ \E u \in User : Disable(u)

Next ==
  \/ Server
  \/ \E c \in Call : Land(c) \/ \E r \in Requests : Begin(c, r)
  \/ \E link \in BOOLEAN : Start(link)

Spec == Init /\ [][Next]_vars
-----------------------------------------------------------------------------
(* Properties. *)

(* An address and a Google account have one account each, although first   *)
(* sign-ins and registrations of one person overlap.                       *)
OneAccount ==
  \A u, v \in User : u # v =>
    /\ email[u] # None => email[u] # email[v]
    /\ subject[u] # None => subject[u] # subject[v]

(* A Google account is linked to the account of its own address, and a     *)
(* callback signs in nobody but the user of its Google account.            *)
LinkedByOwner ==
  /\ \A u \in User : subject[u] # None => email[u] = MailOf[subject[u]]
  /\ \A c \in Call : owner[c] # None /\ req[c].kind = "callback" =>
       subject[owner[c]] = req[c].subject

(* One attempt signs in once, however often its callback is delivered and  *)
(* to whichever instance.                                                  *)
OneSessionPerAttempt ==
  \A c, d \in Call :
    /\ c # d /\ owner[c] # None /\ owner[d] # None
    /\ req[c].kind = "callback" /\ req[d].kind = "callback"
    => req[c].attempt # req[d].attempt

(* A callback that has consumed its attempt and may sign in, or has.        *)
Consumed(c) ==
  /\ stage[c] # "idle" /\ req[c].kind = "callback"
  /\ owner[c] # None \/ stage[c] \in {"exchange", "resolve", "link", "bySubject", "byEmail",
                                     "create", "session"}

(* How far a call has come tells what it has found.                         *)
CallHolds(c) ==
  /\ stage[c] # "idle" => req[c] \in Request
  /\ owner[c] # None => stage[c] \in {"done", "landed"}
  /\ stage[c] \in {"find", "delete", "exchange", "resolve", "link", "bySubject", "byEmail",
                   "create"} => req[c].kind = "callback"
  /\ stage[c] \in {"insert", "verify"} => req[c].kind \in {"register", "login"}
  /\ stage[c] = "session" => req[c].kind \in {"register", "login", "callback"}
  /\ stage[c] \in {"guard", "revoke"} => req[c].kind \in {"logout", "logoutAll"}
  /\ stage[c] = "revoke" => req[c].session \in Session
  /\ stage[c] = "link" => who[c] # None /\ email[who[c]] = MailOf[req[c].subject]
  /\ stage[c] # "idle" /\ req[c].kind = "callback" =>
       /\ stage[c] = "session" => subject[who[c]] = req[c].subject
       /\ owner[c] # None => subject[owner[c]] = req[c].subject
       /\ Consumed(c) => req[c].attempt \in started \ open

OneConsumes ==
  \A c, d \in Call :
    c # d /\ Consumed(c) /\ Consumed(d) => req[c].attempt # req[d].attempt

AccountsInv ==
  /\ TypeOK /\ OneAccount /\ LinkedByOwner /\ OneSessionPerAttempt
  /\ \A c \in Call : CallHolds(c)
  /\ OneConsumes

(* The session that the attempt of a callback is bound to. *)
BoundTo(c) == binding[req[c].attempt]

(* A callback whose attempt was started by a signed-in user signs in that   *)
(* user or nobody, whoever the browser has signed in by the time it comes.  *)
BoundSignsInItsOwner ==
  \A c \in Call : owner[c] # None /\ req[c].kind = "callback" /\ BoundTo(c) # None =>
    owner[c] = owner[BoundTo(c)]

BoundHolds(c) ==
  stage[c] # "idle" /\ req[c].kind = "callback" /\ BoundTo(c) # None =>
    /\ stage[c] \notin {"bySubject", "byEmail", "create"}
    /\ stage[c] \in {"link", "session"} => who[c] = owner[BoundTo(c)]
    /\ owner[c] # None => owner[c] = owner[BoundTo(c)]

(* The inductive invariant. *)
Inv ==
  /\ AccountsInv
  /\ \A a \in Attempt : binding[a] # None => owner[binding[a]] # None
  /\ \A c \in Call : BoundHolds(c)

(* What is written once stays: the address of an account, its link to       *)
(* Google, which nothing replaces, the user of a session, and its end.      *)
NothingUndone ==
  [][/\ \A u \in User : email[u] # None => email'[u] = email[u]
     /\ \A u \in User : subject[u] # None => subject'[u] = subject[u]
     /\ \A s \in Session : owner[s] # None => owner'[s] = owner[s]
     /\ dead \subseteq dead']_vars
=============================================================================
