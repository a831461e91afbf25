--------------------------- MODULE Contributions ---------------------------
(***************************************************************************)
(* What a user sends in with a photo, on top of MediaUpload: scrap         *)
(* requests and cleanup reports, which the API takes by the same           *)
(* statements (marketplace/scrap-request.service.ts and                    *)
(* cleanup/cleanup.service.ts), and the verdicts of two administrators on  *)
(* the cleanup reports.  Quoting says what becomes of a scrap request.     *)
(* All rows are of one user and one kind; a row is named after the call    *)
(* that made it.                                                           *)
(***************************************************************************)
EXTENDS MediaUpload, SequencesExt

CONSTANTS
  MaxCall,     \* submissions in all
  Verdict      \* calls of an administrator

ASSUME CallAssumption == MaxCall \in Nat

Call == 1 .. MaxCall
Kind == {"scrap", "cleanup"}

VARIABLES
  kind,        \* which of the two tables
  table,       \* the rows, oldest (createdAt, id) first
  photoOf,     \* mediaAssetId of what a call submits
  submit,      \* how far a submission has come
  submitted,   \* what it was answered
  before,      \* how many rows there were when its insert began
  status,      \* CleanupReport.status
  paid,        \* the reports with a PointEntry
  verdict,     \* how far a verdict has come
  about        \* the report it is about

submissions == <<table, photoOf, submit, submitted, before>>
verdicts == <<status, paid, verdict, about>>
server == <<media, kind, submissions, verdicts>>

Rows == ToSet(table)

ContributionsTypeOK ==
  /\ MediaTypeOK
  /\ kind \in {"scrap", "cleanup"}
  /\ table \in Seq(Call)
  /\ photoOf \in [Call -> Photo \cup {None}]
  /\ submit \in [Call -> {"idle", "find", "insert", "done"}]
  /\ submitted \in [Call -> {"none", "ok", "notOwned", "used", "failed"}]
  /\ before \in [Call -> Nat]
  /\ status \in [Call -> {"NONE", "SUBMITTED", "VERIFIED", "REJECTED"}]
  /\ paid \subseteq Call
  /\ verdict \in [Verdict -> {"idle", "verify", "award", "reject", "done"}]
  /\ about \in [Verdict -> Call \cup {None}]

(* The user has sent in n earlier ones. *)
ContributionsInit(k, n) ==
  /\ MediaInit(n)
  /\ kind = k
  /\ table = [i \in 1 .. n |-> i]
  /\ photoOf = [c \in Call |-> IF c <= n THEN c ELSE None]
  /\ submit = [c \in Call |-> IF c <= n THEN "done" ELSE "idle"]
  /\ submitted = [c \in Call |-> IF c <= n THEN "ok" ELSE "none"]
  /\ before = [c \in Call |-> 0]
  /\ status = [c \in Call |-> IF c <= n THEN "SUBMITTED" ELSE "NONE"]
  /\ paid = {}
  /\ verdict = [v \in Verdict |-> "idle"]
  /\ about = [v \in Verdict |-> None]
-----------------------------------------------------------------------------
(* submit, of either service. *)

Reply(c, how) ==
  /\ submit' = [submit EXCEPT ![c] = "done"]
  /\ submitted' = [submitted EXCEPT ![c] = how]

BeginSubmit(c, p) ==
  /\ submit[c] = "idle"
  /\ submit' = [submit EXCEPT ![c] = "find"]
  /\ photoOf' = [photoOf EXCEPT ![c] = p]
  /\ UNCHANGED <<media, kind, table, submitted, before, verdicts>>

FindMedia(c) ==
  /\ submit[c] = "find"
  /\ IF photoOf[c] \in assets
       THEN /\ submit' = [submit EXCEPT ![c] = "insert"]
            /\ before' = [before EXCEPT ![c] = Len(table)]
            /\ UNCHANGED submitted
       ELSE Reply(c, "notOwned") /\ UNCHANGED before
  /\ UNCHANGED <<media, kind, table, photoOf, verdicts>>

(* Mutant: mediaAssetId is not unique. *)
PhotoFreeAlways(p) == TRUE

PhotoFree(p) == \A c \in Rows : photoOf[c] # p

(* The row's createdAt lies between the begin and the commit of its insert, *)
(* so rows that were committed meanwhile may be newer.                      *)
InsertRow(c) ==
  /\ submit[c] = "insert"
  /\ IF PhotoFree(photoOf[c])
       THEN /\ \E i \in before[c] + 1 .. Len(table) + 1 : table' = InsertAt(table, i, c)
            /\ status' = [status EXCEPT ![c] = "SUBMITTED"]
            /\ Reply(c, "ok")
       ELSE Reply(c, "used") /\ UNCHANGED <<table, status>>
  /\ UNCHANGED <<media, kind, photoOf, before, paid, verdict, about>>

SubmitFails(c) ==
  /\ submit[c] \in {"find", "insert"}
  /\ Reply(c, "failed")
  /\ UNCHANGED <<media, kind, table, photoOf, before, verdicts>>
-----------------------------------------------------------------------------
(* adminVerify and adminReject. *)

Judge(v, s) == verdict' = [verdict EXCEPT ![v] = s] /\ UNCHANGED about

(* The reports with buttons in some administrator's queue, which lists     *)
(* what was SUBMITTED when it was loaded: any report, however long ago     *)
(* that was.                                                               *)
Queued == IF kind = "cleanup" THEN Rows ELSE {}

BeginVerdict(v, c, decision) ==
  /\ verdict[v] = "idle" /\ c \in Queued
  /\ verdict' = [verdict EXCEPT ![v] = decision]
  /\ about' = [about EXCEPT ![v] = c]
  /\ UNCHANGED <<media, kind, submissions, status, paid>>

(* The row is locked by a transaction that has updated it. *)
Locked(c) == \E v \in Verdict : verdict[v] = "award" /\ about[v] = c

(* Mutant: the update does not look at the status. *)
PendingAny(c) == TRUE

Pending(c) == status[c] = "SUBMITTED"

(* The update of adminVerify, whose transaction goes on if it met a row. *)
Verify(v) ==
  /\ verdict[v] = "verify" /\ ~Locked(about[v])
  /\ Judge(v, IF Pending(about[v]) THEN "award" ELSE "done")
  /\ UNCHANGED <<media, kind, submissions, status, paid>>

(* Mutant: the points are awarded after the commit. *)
AwardLater(v) ==
  /\ verdict[v] = "award"
  /\ status' = [status EXCEPT ![about[v]] = "VERIFIED"]
  /\ paid' \in {paid, paid \cup {about[v]}}
  /\ Judge(v, "done")
  /\ UNCHANGED <<media, kind, submissions>>

(* awardCleanupVerified and the commit; the unique key of the award would  *)
(* undo it all.                                                            *)
Award(v) ==
  /\ verdict[v] = "award"
  /\ IF about[v] \in paid THEN UNCHANGED <<status, paid>>
     ELSE /\ status' = [status EXCEPT ![about[v]] = "VERIFIED"]
          /\ paid' = paid \cup {about[v]}
  /\ Judge(v, "done")
  /\ UNCHANGED <<media, kind, submissions>>

Reject(v) ==
  /\ verdict[v] = "reject" /\ ~Locked(about[v])
  /\ status' = IF Pending(about[v]) THEN [status EXCEPT ![about[v]] = "REJECTED"] ELSE status
  /\ Judge(v, "done")
  /\ UNCHANGED <<media, kind, submissions, paid>>

VerdictFails(v) ==
  /\ verdict[v] \in {"verify", "award", "reject"}
  /\ Judge(v, "done")
  /\ UNCHANGED <<media, kind, submissions, status, paid>>

Server ==
  \/ \E p \in Photo : Media(p) /\ UNCHANGED <<kind, submissions, verdicts>>
  \/ \E c \in Call : FindMedia(c) \/ InsertRow(c) \/ SubmitFails(c)
  \/ \E v \in Verdict : Verify(v) \/ Award(v) \/ Reject(v) \/ VerdictFails(v)

Administrator ==
  \E v \in Verdict, c \in Call, d \in {"verify", "reject"} : BeginVerdict(v, c, d)
-----------------------------------------------------------------------------
(* Properties. *)

(* A photo backs one row, however often its submission is retried after an *)
(* answer that was lost: a cleanup is not paid twice.                      *)
PhotoOnce ==
  \A c, d \in Rows : c # d => photoOf[c] # photoOf[d]

(* Whatever fails between the storage and the database, the photo that the *)
(* administrator and the public are shown with a row is there.             *)
RowHasPhoto == \A c \in Rows : Readable(photoOf[c])

(* The points of a report are there exactly when it is VERIFIED.           *)
PaidIffVerified == paid = {c \in Call : status[c] = "VERIFIED"}

(* Why: an upload that was answered with success is there to stay, ...      *)
UploadConsistent ==
  \A p \in Photo :
    /\ uploaded[p] = "ok" => upload[p] = "done" /\ Readable(p)
    /\ upload[p] = "insert" => p \in objects

(* ... what is submitted names such an upload and becomes a row once, ...   *)
SubmissionConsistent ==
  \A c \in Call :
    /\ submit[c] # "idle" => photoOf[c] \in Photo /\ uploaded[photoOf[c]] = "ok"
    /\ c \in Rows => submit[c] = "done"
    /\ c \in Rows <=> status[c] # "NONE"

(* ... and whoever is about to award has locked a report that is SUBMITTED. *)
VerdictConsistent ==
  \A v \in Verdict :
    /\ verdict[v] \in {"verify", "award", "reject"} => about[v] \in Rows
    /\ verdict[v] = "award" => Pending(about[v])
    /\ \A w \in Verdict :
         verdict[v] = "award" /\ verdict[w] = "award" /\ about[v] = about[w] => v = w

(* No second verdict replaces the first.                                   *)
VerdictFinal ==
  [][\A c \in Call : status[c] \in {"VERIFIED", "REJECTED"} => status'[c] = status[c]]_status

(* The photos of some reports or requests. *)
PhotosOf(rows) == {photoOf[c] : c \in rows}

Judged(as) == PhotosOf({c \in Call : status[c] = as})

(* Whatever is retried, lost, left half done or judged by two, a photo is   *)
(* kept, sent in once, judged once and credited with its verification.      *)
Photos == INSTANCE Evidence WITH
  kept <- {p \in Photo : uploaded[p] = "ok" /\ Readable(p)},
  sent <- PhotosOf(Rows),
  verified <- Judged("VERIFIED"),
  rejected <- Judged("REJECTED"),
  credited <- PhotosOf(paid)

ImplementsEvidence == Photos!Spec
=============================================================================
