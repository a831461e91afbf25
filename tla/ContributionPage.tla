-------------------------- MODULE ContributionPage --------------------------
(***************************************************************************)
(* The pages that send scrap requests and cleanup reports and list the     *)
(* user's own: apps/web/src/components/sell-scrap-view.tsx and             *)
(* cleanup-report-view.tsx, whose forms are the same program as far as     *)
(* this module goes.  The first list is paged by a keyset cursor           *)
(* (common/pagination.ts), as the marketplace's is; the second is not.     *)
(* A connection may drop at any moment of a request; what the server does  *)
(* with it goes on.                                                        *)
(***************************************************************************)
EXTENDS Contributions

CONSTANTS
  PageSize,    \* PAGINATION_DEFAULT_LIMIT
  MaxLoad,     \* loads of the list in all
  Earlier      \* how many rows of a kind there are at first, one of these

ASSUME PageAssumption ==
  /\ PageSize \in Nat \ {0} /\ MaxLoad \in Nat
  /\ Earlier \in [Kind -> SUBSET (0 .. IF MaxCall < MaxPhoto THEN MaxCall ELSE MaxPhoto)]

VARIABLES
  photo,       \* photoState, with the upload it is about
  submitting,  \* the submission the form waits for
  list,        \* the rows shown, with nextCursor, or how their load stands
  loads,       \* the loads the page waits for, with their answers
  more         \* the next page it waits for, with its answer

form == <<photo, submitting>>
history == <<list, loads, more>>
all == <<server, form, history>>

Load == 1 .. MaxLoad

(* A page of rows, newest first, or the pages of a list; "there" are the   *)
(* rows there were whenever one of its pages was read.                     *)
Page == [rows : Seq(Call), next : Call \cup {None}, there : SUBSET Call]

FormTypeOK ==
  /\ photo \in [is : {"idle", "error"}] \cup [is : {"uploading", "done"}, id : Photo]
  /\ submitting \in Call \cup {None}
  /\ submitting # None => photo = [is |-> "done", id |-> photoOf[submitting]]

HistoryTypeOK ==
  /\ list \in [is : {"loading", "error"}] \cup [is : {"ready"}, page : Page]
  /\ loads \in [Load -> [is : {"idle", "asked", "gone"}] \cup [is : {"read"}, page : Page]]
  /\ more \in [is : {"none"}] \cup [is : {"asked"}, after : Call]
                \cup [is : {"read"}, after : Call, page : Page]

(* A load begins: nothing stops the ones before it. *)
AskFor(requests) ==
  /\ \E m \in Load :
       /\ requests[m].is = "idle" /\ \A k \in 1 .. m - 1 : requests[k].is # "idle"
       /\ loads' = [requests EXCEPT ![m] = [is |-> "asked"]]
  /\ list' = [is |-> "loading"]

Init ==
  /\ \E k \in Kind : \E n \in Earlier[k] : ContributionsInit(k, n)
  /\ photo = [is |-> "idle"] /\ submitting = None
  /\ list = [is |-> "loading"] /\ more = [is |-> "none"]
  /\ loads = [m \in Load |-> [is |-> IF m = 1 THEN "asked" ELSE "idle"]]
-----------------------------------------------------------------------------
(* The form. *)

(* Uploads and submissions are numbered as they begin. *)
NextUpload(p) == \A q \in 1 .. p - 1 : upload[q] # "idle"
NextCall(c) == \A d \in 1 .. c - 1 : submit[d] # "idle"

(* Mutant: the photo can be changed under a submission. *)
WaitsForPhoto == photo.is = "uploading"

(* The photo and the button are there unless the form waits. *)
Waits == submitting # None \/ photo.is = "uploading"

PhotoInput == ~Waits

(* The button sends nothing without a photo: the schema refuses it. *)
SubmitButton == ~Waits /\ photo.is = "done"

OnPhotoChange ==
  /\ PhotoInput
  /\ \E p \in Photo :
       /\ NextUpload(p) /\ BeginUpload(p)
       /\ photo' = [is |-> "uploading", id |-> p]
  /\ UNCHANGED <<kind, submissions, verdicts, submitting, history>>

(* The rest of onPhotoChange: the answer, or NETWORK_ERROR. *)
Uploaded ==
  /\ photo.is = "uploading"
  /\ \/ /\ upload[photo.id] = "done"
        /\ photo' = IF uploaded[photo.id] = "ok" THEN [photo EXCEPT !.is = "done"]
                    ELSE [is |-> "error"]
     \/ photo' = [is |-> "error"]
  /\ UNCHANGED <<server, submitting, history>>

OnSubmit ==
  /\ SubmitButton
  /\ \E c \in Call :
       /\ NextCall(c) /\ BeginSubmit(c, photo.id)
       /\ submitting' = c
  /\ UNCHANGED <<photo, history>>

(* The rest of onSubmit: the form is cleared and the list loaded again, or *)
(* the form stays as it was for another try.                               *)
Submitted ==
  /\ submitting # None
  /\ \/ /\ submit[submitting] = "done" /\ submitted[submitting] = "ok"
        /\ photo' = [is |-> "idle"]
        /\ AskFor(loads)
     \/ UNCHANGED <<photo, list, loads>>
  /\ submitting' = None
  /\ UNCHANGED <<server, more>>

(* The page is left or loaded again. *)
Mount ==
  /\ photo' = [is |-> "idle"] /\ submitting' = None
  /\ more' = [is |-> "none"]
  /\ AskFor([m \in Load |-> IF loads[m].is = "idle" THEN loads[m] ELSE [is |-> "gone"]])
  /\ UNCHANGED server
-----------------------------------------------------------------------------
(* The list. *)

(* The rows after a cursor, newest first, and a cursor if there are more.  *)
PageAfter(c) ==
  LET rest == IF c = None THEN Len(table) ELSE (CHOOSE i \in DOMAIN table : table[i] = c) - 1
      size == IF kind = "cleanup" \/ rest <= PageSize THEN rest ELSE PageSize
  IN [rows |-> [i \in 1 .. size |-> table[rest - i + 1]],
      next |-> IF size < rest THEN table[rest - size + 1] ELSE None,
      there |-> Rows]

ReadLoad(m) ==
  /\ loads[m].is = "asked"
  /\ loads' = [loads EXCEPT ![m] = [is |-> "read", page |-> PageAfter(None)]]
  /\ UNCHANGED <<server, form, list, more>>

(* The answer replaces what is shown, or an error does. *)
LandLoad(m) ==
  /\ loads[m].is \in {"asked", "read"}
  /\ \/ loads[m].is = "read" /\ list' = [is |-> "ready", page |-> loads[m].page]
     \/ list' = [is |-> "error"]
  /\ loads' = [loads EXCEPT ![m] = [is |-> "gone"]]
  /\ UNCHANGED <<server, form, more>>

(* The button under the list, disabled while it waits for a page. *)
MoreButton == list.is = "ready" /\ list.page.next # None /\ more.is = "none"

LoadMore ==
  /\ MoreButton
  /\ more' = [is |-> "asked", after |-> list.page.next]
  /\ UNCHANGED <<server, form, list, loads>>

ReadMore ==
  /\ more.is = "asked"
  /\ more' = [is |-> "read", after |-> more.after, page |-> PageAfter(more.after)]
  /\ UNCHANGED <<server, form, list, loads>>

(* Mutant: the list is taken for the one that the page was asked for. *)
ContinuesAny == list.is = "ready"

(* The page continues the list that is shown now. *)
Continues == list.is = "ready" /\ list.page.next = more.after

LandMore ==
  /\ more.is \in {"asked", "read"}
  /\ \/ /\ more.is = "read" /\ Continues
        /\ list' = [is |-> "ready",
                    page |-> [rows |-> list.page.rows \o more.page.rows,
                              next |-> more.page.next,
                              there |-> list.page.there \cap more.page.there]]
     \/ more.is = "read" /\ ~Continues /\ UNCHANGED list
     \/ UNCHANGED list
  /\ more' = [is |-> "none"]
  /\ UNCHANGED <<server, form, loads>>

(* The rows on screen. *)
Shown == IF list.is = "ready" THEN list.page.rows ELSE <<>>

Client ==
  \/ OnPhotoChange
  \/ Uploaded
  \/ OnSubmit
  \/ Submitted
  \/ Mount
  \/ \E m \in Load : ReadLoad(m) \/ LandLoad(m)
  \/ LoadMore
  \/ ReadMore
  \/ LandMore

Next == Client \/ ((Server \/ Administrator) /\ UNCHANGED <<form, history>>)

Spec == Init /\ [][Next]_all
-----------------------------------------------------------------------------
(* Properties. *)

(* The order of the table. *)
Older(c, d) == \E i, j \in DOMAIN table : i < j /\ table[i] = c /\ table[j] = d

(* The pages of a list join: newest first, no row twice, and none left out *)
(* that was there whenever a page was read, as far as the list goes,       *)
(* whatever is submitted and however loads and pages overtake each other.  *)
PagesJoin ==
  list.is = "ready" =>
    /\ \A i \in 1 .. Len(Shown) - 1 : Older(Shown[i + 1], Shown[i])
    /\ \A c \in list.page.there :
         list.page.next = None \/ Older(list.page.next, c) => c \in ToSet(Shown)

(* Why: a page, or the pages of a list, that was asked for after a row has  *)
(* all that was there between that row and its last one, ...               *)
Follows(page, after) ==
  /\ page.there \subseteq Rows /\ ToSet(page.rows) \subseteq Rows
  /\ \A i, j \in DOMAIN page.rows : i < j => Older(page.rows[j], page.rows[i])
  /\ after # None => \A c \in ToSet(page.rows) : Older(c, after)
  /\ page.next # None => page.rows # <<>> /\ page.next = page.rows[Len(page.rows)]
  /\ \A c \in page.there :
       /\ after = None \/ Older(c, after)
       /\ page.next = None \/ Older(page.next, c)
       => c \in ToSet(page.rows)

(* ... and what is inserted later changes the order of no two rows.        *)
PagesFollow ==
  /\ \A i, j \in DOMAIN table : table[i] = table[j] => i = j
  /\ list.is = "ready" => Follows(list.page, None)
  /\ \A m \in Load : loads[m].is = "read" => Follows(loads[m].page, None)
  /\ more.is # "none" => more.after \in Rows
  /\ more.is = "read" => Follows(more.page, more.after)

(* The server's rows tell one story, and the photo in the form is one that *)
(* the server has taken.                                                   *)
RowsInv ==
  /\ ContributionsTypeOK /\ FormTypeOK
  /\ UploadConsistent /\ SubmissionConsistent /\ VerdictConsistent
  /\ photo.is = "done" => uploaded[photo.id] = "ok"
  /\ PhotoOnce /\ RowHasPhoto /\ PaidIffVerified

(* That, and every page shows what was there.                              *)
Inv == RowsInv /\ HistoryTypeOK /\ PagesFollow
=============================================================================
