---------------------------- MODULE AuthProvider ----------------------------
(***************************************************************************)
(* What one tab of the browser of Sessions shows:                          *)
(* apps/web/src/components/auth-provider.tsx with the forms and buttons    *)
(* that call it.  Calls that the tab does not wait for are those of other  *)
(* tabs, and of pages of this one that are gone.                           *)
(***************************************************************************)
EXTENDS Sessions

VARIABLES
  view,      \* AuthStatus with its user; "gone" while the tab is elsewhere
  waiting,   \* the calls the tab waits for
  me,        \* fetchMe: the cookie it carries, then its answer
  page,      \* where the tab is
  form       \* the call that the page's form is submitting

tab == <<view, waiting, me, page, form>>
all == <<vars, tab>>

AUTH_PAGES == {"login", "register"}
Page == AUTH_PAGES \cup {"account", "other"}

(* A page is loaded: fetchMe is on its way. *)
Load ==
  /\ view' = "loading" /\ waiting' = {} /\ me' = [carries |-> cookie']
  /\ page' \in Page /\ form' = None

Away ==
  view' = "gone" /\ waiting' = {} /\ me' = None /\ page' = "other" /\ form' = None

TabInit ==
  /\ Init
  /\ view = "loading" /\ waiting = {} /\ me = [carries |-> cookie]
  /\ page \in Page /\ form = None
-----------------------------------------------------------------------------
Mount == UNCHANGED vars /\ Load

(* A link leads to a page of the same tab, which keeps waiting. *)
Visit(p) ==
  /\ view # "gone" /\ p # page
  /\ page' = p /\ form' = None
  /\ UNCHANGED <<vars, view, waiting, me>>

(* The forms are there unless the tab shows a user, and are submitted once *)
(* at a time.                                                              *)
LoginForm == page = "login" /\ view \in {"loading", "out"} /\ form = None
RegisterForm == page = "register" /\ view \in {"loading", "out"} /\ form = None

(* The button of a form, or of the account page's profile.  (It is hidden  *)
(* if its account was linked when the button was loaded.)                  *)
GoogleButton(link) ==
  IF link THEN page = "account" /\ view \in User ELSE LoginForm \/ RegisterForm

(* The header of every page: one sign-out at a time, for the user shown. *)
HeaderLogout == view \in User /\ \A c \in waiting : req[c].kind # "logout"

(* login, register *)
Submit(c, r) ==
  /\ \/ r.kind = "login" /\ LoginForm
     \/ r.kind = "register" /\ RegisterForm
  /\ Begin(c, r)
  /\ waiting' = waiting \cup {c} /\ form' = c
  /\ UNCHANGED <<view, me, page>>

Logout(c, r) ==
  /\ r.kind = "logout" /\ HeaderLogout
  /\ Begin(c, r)
  /\ waiting' = waiting \cup {c}
  /\ UNCHANGED <<view, me, page, form>>

(* The attempt is made, and the tab goes to Google. *)
ToGoogle(link) == GoogleButton(link) /\ Start(link) /\ Away

Resubmittable(c) == form' = IF form = c THEN None ELSE form

(* A sign-in shows its user and leaves for the page that asked for it, *)
(* even if the tab shows another page by then; ...                      *)
SignedIn(c) ==
  /\ SignsIn(c)
  /\ view' = owner[c]
  /\ page' \in Page \ AUTH_PAGES /\ form' = None

(* ... a refused one gives the form back; ... *)
Refused(c) ==
  /\ ~SignsIn(c) /\ req[c].kind # "logout"
  /\ Resubmittable(c)
  /\ UNCHANGED <<view, page>>

(* ... and a sign-out, or its 401, shows nobody. *)
LoggedOut(c) ==
  /\ req[c].kind = "logout"
  /\ view' = "out"
  /\ UNCHANGED <<page, form>>

(* The answer of a callback is a page, of the tab that went to Google; that *)
(* of any other call the tab does not wait for only brings its cookies.    *)
TabLand(c) ==
  /\ Land(c)
  /\ \/ req[c].kind = "callback" /\ view = "gone" /\ Load
     \/ /\ c \in waiting
        /\ SignedIn(c) \/ Refused(c) \/ LoggedOut(c)
        /\ waiting' = waiting \ {c} /\ UNCHANGED me
     \/ c \notin waiting /\ UNCHANGED tab

(* apiFetch: the connection drops, and the call goes on without the tab. *)
Drop(c) ==
  /\ c \in waiting
  /\ waiting' = waiting \ {c}
  /\ Resubmittable(c)
  /\ UNCHANGED <<vars, view, me, page>>

(* The server reads the session of fetchMe, or the connection drops. *)
Serve ==
  /\ me # None /\ DOMAIN me = {"carries"}
  /\ me' \in {[says |-> IF Live(me.carries) THEN owner[me.carries] ELSE "401"],
             [says |-> "error"]}
  /\ UNCHANGED <<vars, view, waiting, page, form>>

(* The end of fetchMe: any error shows nobody. *)
Me ==
  /\ me # None /\ DOMAIN me = {"says"}
  /\ view' = IF me.says \in User THEN me.says ELSE "out"
  /\ me' = None
  /\ UNCHANGED <<vars, waiting, page, form>>

(* clearSessionAndRedirect: the 401 of any other request shows nobody, and *)
(* leads to the login form.  (The request and its answer are one step.)    *)
Expiry ==
  /\ view \in User /\ ~Live(cookie)
  /\ view' = "out"
  /\ IF page \in AUTH_PAGES THEN UNCHANGED <<page, form>> ELSE page' = "login" /\ form' = None
  /\ UNCHANGED <<vars, waiting, me>>

Tab ==
  \/ Mount
  \/ \E p \in Page : Visit(p)
  \/ \E c \in Call, r \in Requests : Submit(c, r) \/ Logout(c, r)
  \/ \E link \in BOOLEAN : ToGoogle(link)
  \/ \E c \in Call : TabLand(c) \/ Drop(c)
  \/ Serve
  \/ Me
  \/ Expiry

(* The server, and the other tabs. *)
Rest ==
  /\ Server \/ \E c \in Call, r \in Requests : Begin(c, r)
  /\ UNCHANGED tab

TabSpec == TabInit /\ [][Tab \/ Rest]_all
-----------------------------------------------------------------------------
(* "401 = no session: signed out": when the 401 of fetchMe makes the tab    *)
(* show nobody, the session that the browser has is not live.              *)
SignedOutIsTrue == [][Me /\ me.says = "401" => ~Live(cookie)]_all

(* The users that have had a session. *)
SignedInOnce == {owner[s] : s \in Session} \ {None}

TabTypeOK ==
  /\ view \in {"loading", "out", "gone"} \cup User
  /\ me \in {None} \cup [carries : Session \cup {None}] \cup [says : {"401", "error"} \cup User]
  /\ page \in Page
  /\ form \in waiting \cup {None}

(* The tab waits for calls that the server has taken and whose answer is    *)
(* still to come; so the button of a form that is submitted comes back.     *)
WaitsForAnAnswer ==
  \A c \in waiting : stage[c] \notin {"idle", "landed"} /\ req[c].kind \in {"register", "login", "logout"}

(* A user is shown only to a browser that has signed in as that user, also  *)
(* when answers land in another order than their calls were made.           *)
ShownHasSignedIn == view \in User => view \in SignedInOnce

(* Why: a sign-in is answered when its session exists, and fetchMe says     *)
(* whose session it was read for.                                           *)
AnsweredHaveSessions ==
  \A c \in Call : /\ stage[c] = "idle" => outcome[c] = "none"
                  /\ SignsIn(c) => owner[c] # None

TabInv ==
  /\ Inv /\ TabTypeOK
  /\ AnsweredHaveSessions
  /\ waiting \subseteq Call /\ WaitsForAnAnswer
  /\ form # None => req[form].kind # "logout"
  /\ me # None /\ DOMAIN me = {"says"} /\ me.says \in User => me.says \in SignedInOnce
  /\ ShownHasSignedIn
=============================================================================
