------------------------------ MODULE GrantPage ------------------------------
(***************************************************************************)
(* An administrator's page that gives a pass away, on top of Passes:       *)
(* apps/web/src/components/admin-grant-pass.tsx.  It is the only page that *)
(* does, and here it has one tab, so that two grants overlap only when the *)
(* connection of the first one drops, or its page is loaded anew.          *)
(***************************************************************************)
EXTENDS Passes

VARIABLES
  email,         \* the account that the form names, or None
  durationDays,  \* the days it names
  submitting,    \* the grant that disables its button
  said           \* what it says of the last grant

page == <<email, durationDays, submitting, said>>
all == <<vars, page>>

PageTypeOK ==
  /\ TypeOK
  /\ email \in User \cup {None}
  /\ durationDays \in GrantDays
  /\ submitting \in Call \cup {None}
  /\ said \in {"nothing", "error"} \cup User

PageInit ==
  /\ Init
  /\ email = None /\ durationDays \in GrantDays
  /\ submitting = None /\ said = "nothing"
-----------------------------------------------------------------------------
(* The fields can be filled in while a grant is on its way. *)
Fill(u, n) ==
  /\ email' = u /\ durationDays' = n
  /\ UNCHANGED <<vars, submitting, said>>

OnSubmit(c) ==
  /\ email # None /\ submitting = None
  /\ BeginGrant(c, email, durationDays)
  /\ submitting' = c /\ said' = "nothing"
  /\ UNCHANGED <<email, durationDays>>

(* A success empties the field, whatever was entered meanwhile. *)
Granted(c) ==
  /\ submitting = c /\ stage[c] = "done" /\ outcome[c] = "granted"
  /\ submitting' = None /\ said' = user[c] /\ email' = None
  /\ UNCHANGED <<vars, durationDays>>

(* A refusal, a fault, or an answer that is lost, whatever it was, leaves  *)
(* the form as it is.                                                      *)
NotGranted(c) ==
  /\ submitting = c
  /\ submitting' = None /\ said' = "error"
  /\ UNCHANGED <<vars, email, durationDays>>

(* The page is loaded anew, and forgets the grant that it waited for. *)
Mount ==
  /\ email' = None /\ durationDays' \in GrantDays
  /\ submitting' = None /\ said' = "nothing"
  /\ UNCHANGED vars

Page ==
  \/ \E u \in User, n \in GrantDays : Fill(u, n)
  \/ \E c \in Call : OnSubmit(c) \/ Granted(c) \/ NotGranted(c)
  \/ Mount

(* The server, payOS and the checkouts. *)
Rest ==
  /\ \/ Tick
     \/ \E o \in Order : Place(o) \/ Touch(o)
     \/ \E c \in Call : Redeliver(c) \/ Step(c) \/ Fail(c)
     \/ \E c \in Call, o \in Order, n \in Note, r \in Ref : BeginDelivery(c, o, n, r)
     \/ AllDone
  /\ UNCHANGED page

PageSpec == PageInit /\ [][Page \/ Rest]_all
-----------------------------------------------------------------------------
(* Properties. *)

(* What the page says of a grant is true of the rows: the user it names has *)
(* a pass that was given away, whatever was entered in the form meanwhile,  *)
(* and whichever answers came late or were lost.                            *)
SaidIsGranted ==
  said \in User => \E c \in Passes : op[c] = "grant" /\ user[c] = said

(* Why: a grant that is answered as such has made its pass, and the page    *)
(* waits for nothing but grants.                                            *)
GrantedHasPass == \A c \in Call : outcome[c] = "granted" => op[c] = "grant" /\ to[c] # 0

PageInv ==
  /\ Inv /\ PageTypeOK
  /\ submitting # None => op[submitting] = "grant"
  /\ GrantedHasPass
  /\ SaidIsGranted
=============================================================================
