------------------------ MODULE ContributionsProofs ------------------------
(* What is sent in with a photo, for any number of uploads, submissions,   *)
(* verdicts and loads of one user's page.                                  *)
EXTENDS ContributionPage, SequenceTheorems, TLAPS

(* A row that is inserted joins the others, wherever it is put. *)
LEMMA RowsAfterInsert ==
  ASSUME NEW s \in Seq(Call), NEW c \in Call, NEW i \in 1 .. Len(s) + 1
  PROVE  /\ InsertAt(s, i, c) \in Seq(Call) /\ Len(InsertAt(s, i, c)) = Len(s) + 1
         /\ \A j \in 1 .. Len(s) + 1 :
              InsertAt(s, i, c)[j] = IF j < i THEN s[j] ELSE IF j = i THEN c ELSE s[j - 1]
         /\ ToSet(InsertAt(s, i, c)) = ToSet(s) \cup {c}
  <1> DEFINE t == InsertAt(s, i, c)
  <1>1. /\ t \in Seq(Call)
        /\ Len(t) = Len(s) + 1
        /\ \A j \in 1 .. Len(s) + 1 :
             t[j] = IF j < i THEN s[j] ELSE IF j = i THEN c ELSE s[j - 1]
    <2> DEFINE a == SubSeq(s, 1, i - 1)
               b == SubSeq(s, i, Len(s))
               ac == a \o <<c>>
    <2>1. /\ a \in Seq(Call) /\ Len(a) = i - 1
          /\ \A j \in 1 .. i - 1 : a[j] = s[j]
      BY SubSeqProperties
    <2>2. /\ b \in Seq(Call) /\ Len(b) = Len(s) - i + 1
          /\ \A j \in 1 .. Len(s) - i + 1 : b[j] = s[i + j - 1]
      BY SubSeqProperties
    <2>3. t = ac \o b
      BY DEF InsertAt
    <2> HIDE DEF a, b, t
    <2>4. /\ ac \in Seq(Call) /\ Len(ac) = i
          /\ \A j \in 1 .. i : ac[j] = IF j < i THEN s[j] ELSE c
      BY <2>1
    <2> HIDE DEF ac
    <2>5. /\ t \in Seq(Call) /\ Len(t) = Len(s) + 1
          /\ \A j \in 1 .. Len(s) + 1 : t[j] = IF j <= i THEN ac[j] ELSE b[j - i]
      BY <2>2, <2>3, <2>4, ConcatProperties
    <2>6. \A j \in i + 1 .. Len(s) + 1 : b[j - i] = s[j - 1]
      BY <2>2
    <2>7. QED
      BY <2>4, <2>5, <2>6
  <1>2. t[i] = c
    BY <1>1
  <1> HIDE DEF t
  <1>3. \A j \in 1 .. Len(s) : s[j] = t[j] \/ s[j] = t[j + 1]
    BY <1>1
  <1>4. ToSet(t) \subseteq ToSet(s) \cup {c}
    <2> SUFFICES ASSUME NEW j \in 1 .. Len(s) + 1, t[j] # c
                 PROVE  \E k \in 1 .. Len(s) : t[j] = s[k]
      BY <1>1 DEF ToSet
    <2>1. CASE j < i
      BY <1>1, <2>1
    <2>2. CASE j > i
      BY <1>1, <2>2
    <2>3. QED
      BY <1>2, <2>1, <2>2
  <1>5. ToSet(s) \cup {c} \subseteq ToSet(t)
    <2>1. c \in ToSet(t)
      BY <1>1, <1>2 DEF ToSet
    <2>2. \A j \in 1 .. Len(s) + 1 : t[j] \in ToSet(t)
      BY <1>1 DEF ToSet
    <2>3. \A j \in 1 .. Len(s) : s[j] \in ToSet(t)
      BY <1>3, <2>2
    <2>4. QED
      BY <2>1, <2>3 DEF ToSet
  <1>6. QED
    BY <1>1, <1>4, <1>5 DEF t

(* A row's photo is there because it was uploaded. *)
LEMMA UploadedIsThere ==
  ASSUME UploadConsistent, SubmissionConsistent, table \in Seq(Call)
  PROVE  RowHasPhoto
  <1>1. \A c \in Rows : c \in Call
    BY DEF Rows, ToSet
  <1>2. QED
    BY <1>1 DEF UploadConsistent, SubmissionConsistent, RowHasPhoto

LEMMA InitRows == Init => RowsInv
  <1> SUFFICES ASSUME Init PROVE RowsInv
    OBVIOUS
  <1>0. PICK k \in Kind : \E n \in Earlier[k] : ContributionsInit(k, n)
    BY DEF Init
  <1>1. PICK n \in Earlier[k] : ContributionsInit(k, n)
    BY <1>0
  <1>2. /\ n \in Nat /\ n <= MaxCall /\ n <= MaxPhoto
        /\ MaxCall \in Nat /\ MaxPhoto \in Nat
    BY PageAssumption, CallAssumption, PhotoAssumption
  <1>3. table \in Seq(Call) /\ Rows = 1 .. n
    BY <1>1, <1>2 DEF ContributionsInit, Rows, ToSet, Call
  <1>4. ContributionsTypeOK
    BY <1>1, <1>2, <1>3
    DEF ContributionsInit, ContributionsTypeOK, MediaInit, MediaTypeOK, Call, Kind, Photo, None
  <1>5. FormTypeOK /\ photo.is # "done"
    BY DEF Init, FormTypeOK, None
  <1>6. UploadConsistent
    BY <1>1, <1>2 DEF ContributionsInit, MediaInit, UploadConsistent, Readable, Photo
  <1>7. SubmissionConsistent
    BY <1>1, <1>2, <1>3 DEF ContributionsInit, MediaInit, SubmissionConsistent, Call, Photo
  <1>8. VerdictConsistent /\ PaidIffVerified
    BY <1>1 DEF ContributionsInit, VerdictConsistent, PaidIffVerified
  <1>9. PhotoOnce
    BY <1>1, <1>2, <1>3 DEF ContributionsInit, PhotoOnce, Call
  <1>10. QED
    BY <1>3, <1>4, <1>5, <1>6, <1>7, <1>8, <1>9, UploadedIsThere DEF RowsInv

(* What is not about the server's rows. *)
LEMMA ServerKept ==
  ASSUME RowsInv, UNCHANGED server
  PROVE  /\ ContributionsTypeOK'
         /\ UploadConsistent' /\ SubmissionConsistent' /\ VerdictConsistent'
         /\ PhotoOnce' /\ RowHasPhoto' /\ PaidIffVerified'
  <1> USE DEF server, media, submissions, verdicts
  <1>1. ContributionsTypeOK'
    BY DEF RowsInv, ContributionsTypeOK, MediaTypeOK
  <1>2. UploadConsistent' /\ SubmissionConsistent' /\ VerdictConsistent'
    BY DEF RowsInv, UploadConsistent, Readable, SubmissionConsistent, VerdictConsistent,
           Rows, Pending
  <1>3. PhotoOnce' /\ RowHasPhoto' /\ PaidIffVerified'
    BY DEF RowsInv, PhotoOnce, RowHasPhoto, Readable, PaidIffVerified, Rows
  <1>4. QED
    BY <1>1, <1>2, <1>3

(* What only the list of the page is about. *)
LEMMA HistoryInv ==
  ASSUME RowsInv, UNCHANGED <<server, form>>
  PROVE  RowsInv'
  <1>1. UNCHANGED <<photo, submitting, photoOf, uploaded>>
    BY DEF server, form, media, submissions
  <1>2. FormTypeOK'
    BY <1>1 DEF RowsInv, FormTypeOK
  <1>3. QED
    BY <1>1, <1>2, ServerKept DEF RowsInv

(* The upload of a photo goes on: what was answered with success stays. *)
LEMMA UploadInv ==
  ASSUME RowsInv, NEW p \in Photo, Media(p) \/ BeginUpload(p),
         UNCHANGED <<kind, submissions, verdicts>>
  PROVE  /\ ContributionsTypeOK'
         /\ UploadConsistent' /\ SubmissionConsistent' /\ VerdictConsistent'
         /\ \A q \in Photo : uploaded[q] = "ok" => uploaded'[q] = "ok"
         /\ PhotoOnce' /\ RowHasPhoto' /\ PaidIffVerified'
  <1> USE DEF submissions, verdicts
  <1>1. /\ MediaTypeOK' /\ UploadConsistent'
        /\ \A q \in Photo : uploaded[q] = "ok" => uploaded'[q] = "ok"
    <2> USE DEF RowsInv, ContributionsTypeOK, MediaTypeOK, UploadConsistent, Readable,
                UploadTo, Answer
    <2>1. CASE BeginUpload(p)
      BY <2>1 DEF BeginUpload
    <2>2. CASE PutObject(p)
      BY <2>2 DEF PutObject
    <2>3. CASE Store(p)
      <3>1. /\ objects' = objects \cup {p} /\ puts' = puts \ {p}
            /\ assets' = assets /\ uploaded' = uploaded
            /\ \/ upload[p] = "putting" /\ upload' = [upload EXCEPT ![p] = "insert"]
               \/ upload' = upload
        BY <2>3 DEF Store
      <3>2. MediaTypeOK'
        BY <3>1
      <3>3. UploadConsistent'
        BY <3>1
      <3>4. QED
        BY <3>1, <3>2, <3>3
    <2>4. CASE PutFails(p)
      <3>1. puts' \in SUBSET Photo
        BY <2>4 DEF PutFails
      <3>2. QED
        BY <2>4, <3>1 DEF PutFails
    <2>5. CASE CreateAsset(p)
      <3>1. /\ upload[p] = "insert" /\ objects' = objects /\ puts' = puts
            /\ \/ /\ assets' = assets \cup {p}
                  /\ upload' = [upload EXCEPT ![p] = "done"]
                  /\ uploaded' = [uploaded EXCEPT ![p] = "ok"]
               \/ /\ assets' = assets \/ assets' = assets \cup {p}
                  /\ upload' = [upload EXCEPT ![p] = "rollback"]
                  /\ uploaded' = uploaded
        BY <2>5 DEF CreateAsset
      <3>2. MediaTypeOK'
        <4>1. {objects', assets', puts'} \subseteq SUBSET Photo
          BY <3>1
        <4>2. \E s \in {"done", "rollback"} : upload' = [upload EXCEPT ![p] = s]
          BY <3>1
        <4>3. uploaded' \in [Photo -> {"none", "ok", "failed"}]
          <5>1. uploaded' = [uploaded EXCEPT ![p] = "ok"] \/ uploaded' = uploaded
            BY <3>1
          <5>2. uploaded \in [Photo -> {"none", "ok", "failed"}]
            OBVIOUS
          <5> HIDE DEF RowsInv, UploadConsistent, Readable
          <5> QED
            BY <5>1, <5>2
        <4>4. upload' \in [Photo -> {"idle", "put", "putting", "insert", "rollback", "done"}]
          BY <4>2
        <4>5. QED
          BY <4>1, <4>3, <4>4
      <3>3. UploadConsistent'
        BY <3>1
      <3>4. QED
        BY <3>1, <3>2, <3>3
    <2>6. CASE RollBack(p)
      <3>1. objects' \in SUBSET Photo /\ objects \ {p} \subseteq objects'
        BY <2>6 DEF RollBack
      <3>2. QED
        BY <2>6, <3>1 DEF RollBack
    <2>7. CASE Crash(p)
      BY <2>7 DEF Crash
    <2>8. QED
      BY <2>1, <2>2, <2>3, <2>4, <2>5, <2>6, <2>7 DEF Media
  <1>2. ContributionsTypeOK'
    BY <1>1 DEF RowsInv, ContributionsTypeOK
  <1>5. SubmissionConsistent'
    BY <1>1 DEF RowsInv, SubmissionConsistent, Rows
  <1>6. VerdictConsistent' /\ PhotoOnce' /\ PaidIffVerified'
    BY DEF RowsInv, VerdictConsistent, Pending, PhotoOnce, PaidIffVerified, Rows
  <1>7. RowHasPhoto'
    <2>1. \A c \in Rows' : c \in Call
      BY <1>2 DEF ContributionsTypeOK, Rows, ToSet
    <2>2. QED
      BY <1>1, <1>5, <2>1 DEF UploadConsistent, SubmissionConsistent, RowHasPhoto
  <1>8. QED
    BY <1>1, <1>2, <1>5, <1>6, <1>7

(* The uploads that are named by a row or a call are not touched by what   *)
(* leaves the media alone.                                                 *)
LEMMA MediaKept ==
  ASSUME RowsInv, UNCHANGED media
  PROVE  MediaTypeOK' /\ UploadConsistent'
  BY DEF RowsInv, media, ContributionsTypeOK, MediaTypeOK, UploadConsistent, Readable

(* A submission begins with a photo that was uploaded. *)
LEMMA BeginSubmitInv ==
  ASSUME RowsInv, NEW c \in Call, NEW p \in Photo, uploaded[p] = "ok", BeginSubmit(c, p)
  PROVE  /\ ContributionsTypeOK'
         /\ UploadConsistent' /\ SubmissionConsistent' /\ VerdictConsistent'
         /\ PhotoOnce' /\ RowHasPhoto' /\ PaidIffVerified'
  <1> USE DEF BeginSubmit
  <1>1. UNCHANGED <<media, kind, table, submitted, before, status, paid, verdict, about>>
    BY DEF verdicts
  <1>2. c \notin Rows
    BY DEF RowsInv, SubmissionConsistent
  <1>3. MediaTypeOK' /\ UploadConsistent'
    BY <1>1, MediaKept
  <1>4. ContributionsTypeOK'
    BY <1>1, <1>3 DEF RowsInv, ContributionsTypeOK
  <1>5. SubmissionConsistent'
    BY <1>1, <1>2 DEF RowsInv, ContributionsTypeOK, SubmissionConsistent, Rows, media
  <1>6. VerdictConsistent' /\ PaidIffVerified'
    BY <1>1 DEF RowsInv, VerdictConsistent, Pending, PaidIffVerified, Rows
  <1>7. \A d \in Rows : d \in Call /\ photoOf'[d] = photoOf[d]
    BY <1>2 DEF RowsInv, ContributionsTypeOK, Rows, ToSet
  <1>8. PhotoOnce' /\ RowHasPhoto'
    BY <1>1, <1>7 DEF RowsInv, PhotoOnce, RowHasPhoto, Readable, Rows, media
  <1>9. QED
    BY <1>3, <1>4, <1>5, <1>6, <1>8

(* A submission goes on without making a row. *)
LEMMA NoRowInv ==
  ASSUME RowsInv, NEW c \in Call,
         FindMedia(c) \/ SubmitFails(c) \/ (InsertRow(c) /\ ~PhotoFree(photoOf[c]))
  PROVE  /\ ContributionsTypeOK'
         /\ UploadConsistent' /\ SubmissionConsistent' /\ VerdictConsistent'
         /\ PhotoOnce' /\ RowHasPhoto' /\ PaidIffVerified'
         /\ UNCHANGED <<uploaded, photoOf>>
  <1>1. /\ UNCHANGED <<media, kind, table, photoOf, status, paid, verdict, about>>
        /\ submit[c] \in {"find", "insert"}
    BY DEF FindMedia, SubmitFails, InsertRow, Reply, verdicts
  <1>2. /\ \E s \in {"insert", "done"} : submit' = [submit EXCEPT ![c] = s]
        /\ \/ submitted' = submitted
           \/ \E how \in {"notOwned", "used", "failed"} :
                submitted' = [submitted EXCEPT ![c] = how]
        /\ before' = before \/ before' = [before EXCEPT ![c] = Len(table)]
    BY DEF FindMedia, SubmitFails, InsertRow, Reply
  <1>3. MediaTypeOK' /\ UploadConsistent'
    BY <1>1, MediaKept
  <1>4. Len(table) \in Nat /\ before' \in [Call -> Nat]
    <2>1. table \in Seq(Call) /\ before \in [Call -> Nat]
      BY DEF RowsInv, ContributionsTypeOK
    <2>2. Len(table) \in Nat
      BY <2>1
    <2>3. QED
      BY <1>2, <2>1, <2>2
  <1>5. /\ submit' \in [Call -> {"idle", "find", "insert", "done"}]
        /\ submitted' \in [Call -> {"none", "ok", "notOwned", "used", "failed"}]
    BY <1>2 DEF RowsInv, ContributionsTypeOK
  <1>6. ContributionsTypeOK'
    BY <1>1, <1>3, <1>4, <1>5 DEF RowsInv, ContributionsTypeOK
  <1>7. SubmissionConsistent'
    BY <1>1, <1>2 DEF RowsInv, ContributionsTypeOK, SubmissionConsistent, Rows, media
  <1>8. VerdictConsistent' /\ PaidIffVerified' /\ PhotoOnce' /\ RowHasPhoto'
    BY <1>1 DEF RowsInv, VerdictConsistent, Pending, PaidIffVerified, PhotoOnce, RowHasPhoto,
                Readable, Rows, media
  <1>9. QED
    BY <1>1, <1>3, <1>6, <1>7, <1>8 DEF media

(* A submission makes a row, whose photo backs no other. *)
LEMMA RowInv ==
  ASSUME RowsInv, NEW c \in Call, InsertRow(c), PhotoFree(photoOf[c])
  PROVE  /\ ContributionsTypeOK'
         /\ UploadConsistent' /\ SubmissionConsistent' /\ VerdictConsistent'
         /\ PhotoOnce' /\ RowHasPhoto' /\ PaidIffVerified'
         /\ UNCHANGED <<uploaded, photoOf>>
         /\ status[c] = "NONE" /\ status' = [status EXCEPT ![c] = "SUBMITTED"]
  <1>1. /\ UNCHANGED <<media, kind, photoOf, before, paid, verdict, about>>
        /\ submit[c] = "insert" /\ submit' = [submit EXCEPT ![c] = "done"]
        /\ submitted' = [submitted EXCEPT ![c] = "ok"]
        /\ status' = [status EXCEPT ![c] = "SUBMITTED"]
    BY DEF InsertRow, Reply
  <1>2. c \notin Rows /\ status[c] = "NONE"
    BY <1>1 DEF RowsInv, ContributionsTypeOK, SubmissionConsistent
  <1>3. table' \in Seq(Call) /\ Rows' = Rows \cup {c}
    <2>1. PICK i \in before[c] + 1 .. Len(table) + 1 : table' = InsertAt(table, i, c)
      BY DEF InsertRow
    <2>2. table \in Seq(Call) /\ i \in 1 .. Len(table) + 1
      BY DEF RowsInv, ContributionsTypeOK
    <2>3. QED
      BY <2>1, <2>2, RowsAfterInsert DEF Rows
  <1>4. MediaTypeOK' /\ UploadConsistent'
    BY <1>1, MediaKept
  <1>5. ContributionsTypeOK'
    BY <1>1, <1>3, <1>4 DEF RowsInv, ContributionsTypeOK
  <1>6. SubmissionConsistent'
    BY <1>1, <1>2, <1>3 DEF RowsInv, ContributionsTypeOK, SubmissionConsistent, media
  <1>7. VerdictConsistent'
    BY <1>1, <1>2, <1>3 DEF RowsInv, ContributionsTypeOK, VerdictConsistent, Pending
  <1>8. PaidIffVerified'
    BY <1>1, <1>2 DEF RowsInv, ContributionsTypeOK, PaidIffVerified
  <1>9. PhotoOnce'
    BY <1>1, <1>3 DEF RowsInv, PhotoOnce, PhotoFree
  <1>10. RowHasPhoto'
    BY <1>1, <1>3 DEF RowsInv, SubmissionConsistent, UploadConsistent, RowHasPhoto, Readable, media
  <1>11. QED
    BY <1>1, <1>2, <1>4, <1>5, <1>6, <1>7, <1>8, <1>9, <1>10 DEF media

(* The verdicts: whoever awards has the row's lock, so nobody else judges. *)
LEMMA VerdictInv ==
  ASSUME RowsInv, NEW v \in Verdict,
         Verify(v) \/ Award(v) \/ Reject(v) \/ VerdictFails(v) \/
           (\E c \in Call, d \in {"verify", "reject"} : BeginVerdict(v, c, d))
  PROVE  /\ ContributionsTypeOK'
         /\ UploadConsistent' /\ SubmissionConsistent' /\ VerdictConsistent'
         /\ PhotoOnce' /\ RowHasPhoto' /\ PaidIffVerified'
         /\ UNCHANGED <<uploaded, photoOf>>
         /\ \/ status' = status
            \/ status[about[v]] = "SUBMITTED" /\
               \E s \in {"VERIFIED", "REJECTED"} : status' = [status EXCEPT ![about[v]] = s]
  <1> USE DEF Judge
  <1>1. UNCHANGED <<media, kind, submissions>>
    BY DEF Verify, Award, Reject, VerdictFails, BeginVerdict
  <1>2. MediaTypeOK' /\ UploadConsistent'
    BY <1>1, MediaKept
  <1>3. \A c \in Rows : c \in Call
    BY DEF RowsInv, ContributionsTypeOK, Rows, ToSet
  <1>4. /\ VerdictConsistent' /\ PaidIffVerified'
        /\ verdict' \in [Verdict -> {"idle", "verify", "award", "reject", "done"}]
        /\ about' \in [Verdict -> Call \cup {None}]
        /\ status' \in [Call -> {"NONE", "SUBMITTED", "VERIFIED", "REJECTED"}]
        /\ paid' \subseteq Call
        /\ \/ status' = status
           \/ status[about[v]] = "SUBMITTED" /\
              \E s \in {"VERIFIED", "REJECTED"} : status' = [status EXCEPT ![about[v]] = s]
    <2> USE <1>1, <1>3 DEF RowsInv, ContributionsTypeOK, VerdictConsistent, Pending, submissions, Rows
    <2>1. CASE \E c \in Call, d \in {"verify", "reject"} : BeginVerdict(v, c, d)
      <3>1. PICK c \in Rows, d \in {"verify", "reject"} :
              /\ verdict[v] = "idle"
              /\ verdict' = [verdict EXCEPT ![v] = d] /\ about' = [about EXCEPT ![v] = c]
              /\ UNCHANGED <<status, paid>>
        BY <2>1 DEF BeginVerdict, Queued
      <3>2. QED
        BY <3>1 DEF PaidIffVerified
    <2>2. CASE Verify(v)
      BY <2>2 DEF Verify, Locked, PaidIffVerified
    <2>3. CASE Award(v)
      <3>1. status[about[v]] = "SUBMITTED" /\ about[v] \in Call /\ about[v] \notin paid
        BY <2>3 DEF Award, PaidIffVerified
      <3>2. /\ status' = [status EXCEPT ![about[v]] = "VERIFIED"]
            /\ paid' = paid \cup {about[v]}
            /\ verdict' = [verdict EXCEPT ![v] = "done"] /\ about' = about
        BY <2>3, <3>1 DEF Award
      <3>3. PaidIffVerified'
        BY <3>1, <3>2 DEF PaidIffVerified
      <3>4. VerdictConsistent'
        BY <2>3, <3>1, <3>2 DEF Award
      <3>5. QED
        BY <3>1, <3>2, <3>3, <3>4
    <2>4. CASE Reject(v)
      BY <2>4 DEF Reject, Locked, PaidIffVerified
    <2>5. CASE VerdictFails(v)
      BY <2>5 DEF VerdictFails, PaidIffVerified
    <2>6. QED
      BY <2>1, <2>2, <2>3, <2>4, <2>5
  <1>5. ContributionsTypeOK'
    BY <1>1, <1>2, <1>4 DEF RowsInv, ContributionsTypeOK, submissions
  <1>6. SubmissionConsistent'
    <2>1. \A c \in Call : status'[c] = "NONE" <=> status[c] = "NONE"
      BY <1>4 DEF RowsInv, ContributionsTypeOK
    <2>2. QED
      BY <1>1, <2>1 DEF RowsInv, SubmissionConsistent, Rows, submissions, media
  <1>7. PhotoOnce' /\ RowHasPhoto'
    BY <1>1 DEF RowsInv, PhotoOnce, RowHasPhoto, Readable, Rows, submissions, media
  <1>8. QED
    BY <1>1, <1>2, <1>4, <1>5, <1>6, <1>7 DEF submissions, media

(* The form only ever holds what the server has answered. *)
LEMMA PageInv ==
  ASSUME RowsInv,
         \/ OnPhotoChange \/ Uploaded \/ OnSubmit \/ Submitted \/ Mount
         \/ \E m \in Load : ReadLoad(m) \/ LandLoad(m)
         \/ LoadMore \/ ReadMore \/ LandMore
  PROVE  RowsInv' /\ UNCHANGED status
  <1>1. CASE OnPhotoChange
    <2>1. PICK p \in Photo : BeginUpload(p) /\ photo' = [is |-> "uploading", id |-> p]
      BY <1>1 DEF OnPhotoChange
    <2>2. UNCHANGED <<kind, submissions, verdicts, submitting>> /\ submitting = None
      BY <1>1 DEF OnPhotoChange, PhotoInput, Waits
    <2>3. FormTypeOK'
      BY <2>1, <2>2 DEF FormTypeOK
    <2>4. QED
      BY <2>1, <2>2, <2>3, UploadInv DEF RowsInv, verdicts
  <1>2. CASE Uploaded
    <2>1. UNCHANGED <<server, submitting>> /\ photo.is = "uploading"
      BY <1>2 DEF Uploaded
    <2>2. submitting = None /\ photo.id \in Photo
      BY <2>1 DEF RowsInv, FormTypeOK
    <2>3. \/ photo' = [is |-> "error"]
          \/ photo' = [is |-> "done", id |-> photo.id] /\ uploaded[photo.id] = "ok"
      BY <1>2, <2>1 DEF Uploaded, RowsInv, FormTypeOK
    <2>4. FormTypeOK' /\ (photo'.is = "done" => uploaded[photo'.id] = "ok")
      BY <2>1, <2>2, <2>3 DEF FormTypeOK
    <2>5. QED
      BY <2>1, <2>4, ServerKept DEF RowsInv, server, media, verdicts
  <1>3. CASE OnSubmit
    <2>1. PICK c \in Call : BeginSubmit(c, photo.id) /\ submitting' = c
      BY <1>3 DEF OnSubmit
    <2>2. photo.is = "done" /\ photo' = photo
      BY <1>3 DEF OnSubmit, SubmitButton
    <2>3. photo.id \in Photo /\ uploaded[photo.id] = "ok" /\ photo = [is |-> "done", id |-> photo.id]
      BY <2>2 DEF RowsInv, FormTypeOK
    <2>4. uploaded' = uploaded /\ status' = status /\ photoOf' = [photoOf EXCEPT ![c] = photo.id]
      BY <2>1 DEF BeginSubmit, media, verdicts
    <2>5. photoOf'[c] = photo.id
      BY <2>4 DEF RowsInv, ContributionsTypeOK
    <2>6. FormTypeOK'
      BY <2>1, <2>2, <2>3, <2>5 DEF RowsInv, FormTypeOK
    <2>7. QED
      BY <2>1, <2>2, <2>3, <2>4, <2>6, BeginSubmitInv DEF RowsInv
  <1>4. CASE Submitted \/ Mount
    <2>1. /\ UNCHANGED server /\ submitting' = None
          /\ photo' = photo \/ photo' = [is |-> "idle"]
      BY <1>4 DEF Submitted, Mount
    <2>2. FormTypeOK' /\ (photo'.is = "done" => uploaded[photo'.id] = "ok")
      BY <2>1 DEF RowsInv, FormTypeOK
    <2>3. QED
      BY <2>1, <2>2, ServerKept DEF RowsInv, server, media, verdicts
  <1>5. CASE \/ \E m \in Load : ReadLoad(m) \/ LandLoad(m)
             \/ LoadMore \/ ReadMore \/ LandMore
    BY <1>5, HistoryInv DEF ReadLoad, LandLoad, LoadMore, ReadMore, LandMore, server, verdicts
  <1>6. QED
    BY <1>1, <1>2, <1>3, <1>4, <1>5

(* The server and the administrators leave the form alone. *)
LEMMA ServerInv ==
  ASSUME RowsInv, Server \/ Administrator, UNCHANGED form
  PROVE  RowsInv' /\ [\A c \in Call : status[c] \in {"VERIFIED", "REJECTED"} =>
                     status'[c] = status[c]]_status
  <1> USE DEF form
  <1>1. ASSUME NEW p \in Photo, Media(p), UNCHANGED <<kind, submissions, verdicts>>
        PROVE  RowsInv' /\ UNCHANGED status
    <2>1. FormTypeOK' /\ (photo'.is = "done" => uploaded'[photo'.id] = "ok")
      BY <1>1, UploadInv DEF RowsInv, FormTypeOK, submissions
    <2>2. QED
      BY <1>1, <2>1, UploadInv DEF RowsInv, verdicts
  <1>2. ASSUME NEW c \in Call, FindMedia(c) \/ InsertRow(c) \/ SubmitFails(c)
        PROVE  /\ RowsInv'
               /\ \/ UNCHANGED status
                  \/ status[c] = "NONE" /\ status' = [status EXCEPT ![c] = "SUBMITTED"]
    <2>1. UNCHANGED <<uploaded, photoOf>>
      BY <1>2, NoRowInv, RowInv
    <2>2. FormTypeOK' /\ (photo'.is = "done" => uploaded'[photo'.id] = "ok")
      BY <2>1 DEF RowsInv, FormTypeOK
    <2>3. CASE InsertRow(c) /\ PhotoFree(photoOf[c])
      BY <2>2, <2>3, RowInv DEF RowsInv
    <2>4. CASE FindMedia(c) \/ SubmitFails(c) \/ (InsertRow(c) /\ ~PhotoFree(photoOf[c]))
      BY <2>2, <2>4, NoRowInv DEF RowsInv, FindMedia, SubmitFails, InsertRow, verdicts
    <2>5. QED
      BY <1>2, <2>3, <2>4
  <1>3. ASSUME NEW v \in Verdict,
               Verify(v) \/ Award(v) \/ Reject(v) \/ VerdictFails(v) \/
                 (\E c \in Call, d \in {"verify", "reject"} : BeginVerdict(v, c, d))
        PROVE  /\ RowsInv'
               /\ \/ status' = status
                  \/ status[about[v]] = "SUBMITTED" /\
                     \E s \in {"VERIFIED", "REJECTED"} : status' = [status EXCEPT ![about[v]] = s]
    <2>1. UNCHANGED <<uploaded, photoOf>>
      BY <1>3, VerdictInv
    <2>2. FormTypeOK' /\ (photo'.is = "done" => uploaded'[photo'.id] = "ok")
      BY <2>1 DEF RowsInv, FormTypeOK
    <2>3. QED
      BY <1>3, <2>2, VerdictInv DEF RowsInv
  <1>4. status \in [Call -> {"NONE", "SUBMITTED", "VERIFIED", "REJECTED"}]
    BY DEF RowsInv, ContributionsTypeOK
  <1>5. QED
    BY <1>1, <1>2, <1>3, <1>4 DEF Server, Administrator

LEMMA StepRows == RowsInv /\ [Next]_all => RowsInv'
  BY PageInv, ServerInv, HistoryInv DEF Next, Client, all
-----------------------------------------------------------------------------
(* The order of the table, of whose rows none is there twice. *)
Distinct == \A i, j \in DOMAIN table : table[i] = table[j] => i = j

LEMMA OlderOrders ==
  ASSUME Distinct, table \in Seq(Call)
  PROVE  /\ \A c, d, e : Older(c, d) /\ Older(d, e) => Older(c, e)
         /\ \A c, d \in Rows : c = d \/ Older(c, d) \/ Older(d, c)
         /\ \A c, d : Older(c, d) => c \in Rows /\ d \in Rows
  <1>1. DOMAIN table \subseteq Int
    OBVIOUS
  <1>2. ASSUME NEW c, NEW d, NEW e, Older(c, d), Older(d, e)
        PROVE  Older(c, e)
    <2>1. PICK i, j \in DOMAIN table : i < j /\ table[i] = c /\ table[j] = d
      BY <1>2 DEF Older
    <2>2. PICK k, l \in DOMAIN table : k < l /\ table[k] = d /\ table[l] = e
      BY <1>2 DEF Older
    <2>3. j = k
      BY <2>1, <2>2 DEF Distinct
    <2>4. i < l
      BY <1>1, <2>1, <2>2, <2>3
    <2>5. QED
      BY <2>1, <2>2, <2>4 DEF Older
  <1>3. ASSUME NEW c \in Rows, NEW d \in Rows
        PROVE  c = d \/ Older(c, d) \/ Older(d, c)
    <2>1. PICK i, j \in DOMAIN table : table[i] = c /\ table[j] = d
      BY DEF Rows, ToSet
    <2>2. i < j \/ j < i \/ i = j
      BY <1>1
    <2>3. QED
      BY <2>1, <2>2 DEF Older
  <1>4. \A c, d : Older(c, d) => c \in Rows /\ d \in Rows
    BY DEF Older, Rows, ToSet
  <1>5. QED
    BY <1>2, <1>3, <1>4

(* An insert moves rows, but no row past another. *)
LEMMA InsertKeepsOrder ==
  ASSUME Distinct, table \in Seq(Call), NEW c \in Call, c \notin Rows,
         NEW i \in 1 .. Len(table) + 1, table' = InsertAt(table, i, c)
  PROVE  /\ Distinct'
         /\ Rows \subseteq Rows'
         /\ \A d, e \in Rows : Older(d, e) <=> Older(d, e)'
  <1>1. /\ table' \in Seq(Call) /\ Len(table') = Len(table) + 1
        /\ \A j \in 1 .. Len(table) + 1 :
             table'[j] = IF j < i THEN table[j] ELSE IF j = i THEN c ELSE table[j - 1]
        /\ Rows' = Rows \cup {c}
    <2> DEFINE t == InsertAt(table, i, c)
    <2>1. /\ t \in Seq(Call) /\ Len(t) = Len(table) + 1
          /\ \A j \in 1 .. Len(table) + 1 :
               t[j] = IF j < i THEN table[j] ELSE IF j = i THEN c ELSE table[j - 1]
          /\ ToSet(t) = ToSet(table) \cup {c}
      BY RowsAfterInsert
    <2>2. table' = t
      OBVIOUS
    <2> HIDE DEF t
    <2>3. QED
      BY <2>1, <2>2 DEF Rows
  <1>2. /\ DOMAIN table = 1 .. Len(table) /\ DOMAIN table' = 1 .. Len(table) + 1
        /\ Len(table) \in Nat
    BY <1>1
  <1> DEFINE old(j) == IF j < i THEN j ELSE j - 1
  <1>3. \A j \in DOMAIN table' : j # i =>
          old(j) \in DOMAIN table /\ table'[j] = table[old(j)]
    BY <1>1, <1>2
  <1>4. \A j \in DOMAIN table : table[j] # c
    BY DEF Rows, ToSet
  <1>5. \A j \in DOMAIN table' : table'[j] = c <=> j = i
    BY <1>1, <1>2, <1>3, <1>4
  <1>6. \A j, k \in DOMAIN table' : j # i /\ k # i => (old(j) = old(k) => j = k)
                                                 /\ (j < k <=> old(j) < old(k))
    BY <1>2
  <1>7. \A j \in DOMAIN table : \E k \in DOMAIN table' : k # i /\ old(k) = j
    <2> TAKE j \in DOMAIN table
    <2>1. CASE j < i
      BY <1>2, <2>1
    <2>2. CASE ~(j < i)
      <3>1. j + 1 \in DOMAIN table' /\ j + 1 # i /\ old(j + 1) = j
        BY <1>2, <2>2
      <3>2. QED
        BY <3>1
    <2>3. QED
      BY <2>1, <2>2
  <1> HIDE DEF old
  <1>8. Distinct'
    BY <1>3, <1>5, <1>6 DEF Distinct
  <1>9. ASSUME NEW d \in Rows, NEW e \in Rows
        PROVE  Older(d, e) <=> Older(d, e)'
    <2>1. d # c /\ e # c
      OBVIOUS
    <2>2. ASSUME Older(d, e)  PROVE Older(d, e)'
      <3>1. PICK j, k \in DOMAIN table : j < k /\ table[j] = d /\ table[k] = e
        BY <2>2 DEF Older
      <3>2. PICK m \in DOMAIN table' : m # i /\ old(m) = j
        BY <1>7
      <3>3. PICK n \in DOMAIN table' : n # i /\ old(n) = k
        BY <1>7
      <3>4. m < n /\ table'[m] = d /\ table'[n] = e
        BY <1>3, <1>6, <3>1, <3>2, <3>3
      <3>5. QED
        BY <3>4 DEF Older
    <2>3. ASSUME Older(d, e)'  PROVE Older(d, e)
      <3>1. PICK j, k \in DOMAIN table' : j < k /\ table'[j] = d /\ table'[k] = e
        BY <2>3 DEF Older
      <3>2. old(j) < old(k) /\ table[old(j)] = d /\ table[old(k)] = e
        BY <1>3, <1>5, <1>6, <2>1, <3>1
      <3>3. old(j) \in DOMAIN table /\ old(k) \in DOMAIN table
        BY <1>3, <1>5, <2>1, <3>1
      <3>4. QED
        BY <3>2, <3>3 DEF Older
    <2>4. QED
      BY <2>2, <2>3
  <1>10. QED
    BY <1>1, <1>8, <1>9

(* What a page shows stays as it is while the order of its rows does. *)
LEMMA FollowsKept ==
  ASSUME Rows \subseteq Rows', \A d, e \in Rows : Older(d, e) <=> Older(d, e)',
         NEW page \in Page, NEW after \in Rows \cup {None}, Follows(page, after)
  PROVE  Follows(page, after)'
  <1>1. page.there \subseteq Rows' /\ ToSet(page.rows) \subseteq Rows'
    BY DEF Follows
  <1>2. \A i \in DOMAIN page.rows : page.rows[i] \in Rows
    BY DEF Follows, ToSet
  <1>3. \A i, j \in DOMAIN page.rows : i < j => Older(page.rows[j], page.rows[i])'
    BY <1>2 DEF Follows
  <1>4. after # None => \A c \in ToSet(page.rows) : Older(c, after)'
    BY DEF Follows
  <1>5. page.next # None => page.next \in Rows
    <2>1. page.rows \in Seq(Call)
      BY DEF Page
    <2>2. page.rows # <<>> => Len(page.rows) \in DOMAIN page.rows
      BY <2>1
    <2>3. QED
      BY <1>2, <2>2 DEF Follows
  <1>6. \A c \in page.there :
          /\ after = None \/ Older(c, after)'
          /\ page.next = None \/ Older(page.next, c)'
          => c \in ToSet(page.rows)
    BY <1>5 DEF Follows
  <1>7. page.next # None => page.rows # <<>> /\ page.next = page.rows[Len(page.rows)]
    BY DEF Follows
  <1>8. QED
    BY <1>1, <1>3, <1>4, <1>6, <1>7 DEF Follows

(* PageAfter, common/pagination.ts: a page follows its cursor. *)
LEMMA PageFollows ==
  ASSUME Distinct, table \in Seq(Call), NEW c \in Rows \cup {None}
  PROVE  PageAfter(c) \in Page /\ Follows(PageAfter(c), c)
  <1> DEFINE rest == IF c = None THEN Len(table) ELSE (CHOOSE i \in DOMAIN table : table[i] = c) - 1
             size == IF kind = "cleanup" \/ rest <= PageSize THEN rest ELSE PageSize
             rows == [i \in 1 .. size |-> table[rest - i + 1]]
             page == PageAfter(c)
  <1>1. DOMAIN table = 1 .. Len(table) /\ Len(table) \in Nat
    OBVIOUS
  <1>2. /\ rest \in 0 .. Len(table)
        /\ c # None => rest + 1 \in DOMAIN table /\ table[rest + 1] = c
    <2>1. CASE c = None
      BY <1>1, <2>1
    <2>2. CASE c # None
      <3>1. \E i \in DOMAIN table : table[i] = c
        BY <2>2 DEF Rows, ToSet
      <3>2. rest + 1 \in DOMAIN table /\ table[rest + 1] = c
        <4> DEFINE k == CHOOSE i \in DOMAIN table : table[i] = c
        <4>1. k \in DOMAIN table /\ table[k] = c
          BY <3>1
        <4>2. rest = k - 1
          BY <2>2
        <4> HIDE DEF k, rest
        <4>3. rest + 1 = k
          BY <1>1, <4>1, <4>2
        <4>4. QED
          BY <4>1, <4>3
      <3>3. QED
        BY <1>1, <2>2, <3>2
    <2>3. QED
      BY <2>1, <2>2
  <1>3. /\ page.rows = rows /\ page.there = Rows
        /\ page.next = IF size < rest THEN table[rest - size + 1] ELSE None
        /\ page = [rows |-> page.rows, next |-> page.next, there |-> page.there]
    BY DEF PageAfter
  <1> HIDE DEF rest
  <1>4. size \in 0 .. rest /\ (size < rest => size \in 1 .. rest)
    BY <1>2, PageAssumption
  <1> HIDE DEF size, page
  <1>5. rows \in Seq(Call) /\ Len(rows) = size /\ DOMAIN rows = 1 .. size
    <2>1. \A i \in 1 .. size : rest - i + 1 \in DOMAIN table
      BY <1>1, <1>2, <1>4
    <2>2. \A i \in 1 .. size : table[rest - i + 1] \in Call
      BY <2>1
    <2>3. size \in Nat
      BY <1>2, <1>4
    <2>4. QED
      BY <2>2, <2>3
  <1>6. \A i \in 1 .. size : rows[i] = table[rest - i + 1] /\ rest - i + 1 \in DOMAIN table
    BY <1>1, <1>2, <1>4
  <1> HIDE DEF rows
  <1>7. ToSet(rows) \subseteq Rows
    BY <1>5, <1>6 DEF ToSet, Rows
  <1>8. \A i, j \in DOMAIN rows : i < j => Older(rows[j], rows[i])
    <2> SUFFICES ASSUME NEW i \in DOMAIN rows, NEW j \in DOMAIN rows, i < j
                 PROVE  Older(rows[j], rows[i])
      OBVIOUS
    <2>1. rest - j + 1 < rest - i + 1
      BY <1>2, <1>4, <1>5
    <2>2. QED
      BY <1>5, <1>6, <2>1 DEF Older
  <1>9. c # None => \A d \in ToSet(rows) : Older(d, c)
    <2> SUFFICES ASSUME c # None, NEW i \in DOMAIN rows  PROVE Older(rows[i], c)
      BY DEF ToSet
    <2>1. rest - i + 1 < rest + 1
      BY <1>2, <1>4, <1>5
    <2>2. QED
      BY <1>2, <1>5, <1>6, <2>1 DEF Older
  <1>10. page.next # None => /\ size < rest /\ rows # <<>> /\ page.next = rows[Len(rows)]
                             /\ page.next = table[rest - size + 1]
    BY <1>3, <1>4, <1>5, <1>6
  <1>11. page.next = None => size = rest
    <2>1. size < rest => table[rest - size + 1] \in Call
      BY <1>1, <1>2, <1>4
    <2>2. None \notin Call
      BY DEF Call, None
    <2>3. QED
      BY <1>2, <1>3, <1>4, <2>1, <2>2
  <1>12. ASSUME NEW d \in Rows, c = None \/ Older(d, c), page.next = None \/ Older(page.next, d)
         PROVE  d \in ToSet(rows)
    <2>1. PICK k \in DOMAIN table : table[k] = d
      BY DEF Rows, ToSet
    <2>2. k <= rest
      <3>1. CASE c = None
        BY <1>1, <3>1 DEF rest
      <3>2. CASE c # None
        <4>1. PICK i, j \in DOMAIN table : i < j /\ table[i] = d /\ table[j] = c
          BY <1>12, <3>2 DEF Older
        <4>2. i = k /\ j = rest + 1
          BY <1>2, <2>1, <3>2, <4>1 DEF Distinct
        <4>3. QED
          BY <1>1, <1>2, <4>1, <4>2
      <3>3. QED
        BY <3>1, <3>2
    <2>3. k > rest - size
      <3>1. CASE page.next = None
        BY <1>1, <1>2, <1>4, <1>11, <3>1
      <3>2. CASE page.next # None
        <4>1. PICK i, j \in DOMAIN table : i < j /\ table[i] = page.next /\ table[j] = d
          BY <1>12, <3>2 DEF Older
        <4>2. j = k
          BY <2>1, <4>1 DEF Distinct
        <4>3. rest - size + 1 \in DOMAIN table
          BY <1>1, <1>2, <1>4, <1>10, <3>2
        <4>4. i = rest - size + 1
          BY <1>10, <3>2, <4>1, <4>3 DEF Distinct
        <4>5. QED
          BY <1>1, <1>2, <1>4, <4>1, <4>2, <4>4
      <3>3. QED
        BY <3>1, <3>2
    <2>4. rest - k + 1 \in 1 .. size /\ rest - (rest - k + 1) + 1 = k
      BY <1>1, <1>2, <1>4, <2>2, <2>3
    <2>5. rows[rest - k + 1] = d
      BY <1>6, <2>1, <2>4
    <2>6. QED
      BY <1>5, <2>4, <2>5 DEF ToSet
  <1>13. page \in Page
    <2>1. page.next \in Call \cup {None}
      BY <1>5, <1>6, <1>10, <1>7 DEF ToSet
    <2>2. Rows \subseteq Call
      BY DEF Rows, ToSet
    <2>3. QED
      BY <1>3, <1>5, <2>1, <2>2 DEF Page
  <1>14. Follows(page, c)
    BY <1>3, <1>5, <1>7, <1>8, <1>9, <1>10, <1>12 DEF Follows
  <1>15. QED
    BY <1>13, <1>14 DEF page

(* A page that follows the last row of a list continues it. *)
LEMMA PagesContinue ==
  ASSUME Distinct, table \in Seq(Call), NEW p \in Page, NEW q \in Page,
         Follows(p, None), p.next # None, Follows(q, p.next)
  PROVE  LET both == [rows |-> p.rows \o q.rows, next |-> q.next,
                      there |-> p.there \cap q.there]
         IN both \in Page /\ Follows(both, None)
  <1> DEFINE rows == p.rows \o q.rows
             m == Len(p.rows)
             n == Len(q.rows)
  <1>1. p.rows \in Seq(Call) /\ q.rows \in Seq(Call) /\ m \in Nat /\ n \in Nat
    BY DEF Page
  <1>2. /\ rows \in Seq(Call) /\ Len(rows) = m + n /\ DOMAIN rows = 1 .. m + n
        /\ \A i \in 1 .. m + n : rows[i] = IF i <= m THEN p.rows[i] ELSE q.rows[i - m]
        /\ DOMAIN p.rows = 1 .. m /\ DOMAIN q.rows = 1 .. n
    <2>1. ASSUME NEW a \in Seq(Call), NEW b \in Seq(Call)
          PROVE  /\ a \o b \in Seq(Call) /\ Len(a \o b) = Len(a) + Len(b)
                 /\ DOMAIN (a \o b) = 1 .. Len(a) + Len(b)
                 /\ \A i \in 1 .. Len(a) + Len(b) :
                      (a \o b)[i] = IF i <= Len(a) THEN a[i] ELSE b[i - Len(a)]
                 /\ DOMAIN a = 1 .. Len(a) /\ DOMAIN b = 1 .. Len(b)
      BY ConcatProperties
    <2>2. QED
      BY <1>1, <2>1
  <1>3. m # 0 /\ p.next = p.rows[m]
    BY <1>1 DEF Follows
  <1> HIDE DEF rows, m, n
  <1>4. /\ \A i \in 1 .. m : p.rows[i] \in ToSet(p.rows) /\ p.rows[i] \in Rows
        /\ \A i \in 1 .. n : q.rows[i] \in ToSet(q.rows) /\ q.rows[i] \in Rows
    BY <1>2 DEF Follows, ToSet
  <1>5. ToSet(rows) = ToSet(p.rows) \cup ToSet(q.rows)
    <2>1. \A i \in 1 .. m + n : rows[i] \in ToSet(p.rows) \cup ToSet(q.rows)
      <3> TAKE i \in 1 .. m + n
      <3>1. CASE i <= m
        <4>1. i \in 1 .. m /\ rows[i] = p.rows[i]
          BY <1>1, <1>2, <3>1
        <4>2. QED
          BY <1>4, <4>1
      <3>2. CASE i > m
        <4>1. i - m \in 1 .. n /\ rows[i] = q.rows[i - m]
          BY <1>1, <1>2, <3>2
        <4>2. QED
          BY <1>4, <4>1
      <3>3. QED
        BY <1>1, <3>1, <3>2
    <2>2. \A i \in 1 .. m : p.rows[i] \in ToSet(rows)
      <3>1. \A i \in 1 .. m : i \in 1 .. m + n /\ rows[i] = p.rows[i]
        BY <1>1, <1>2
      <3>2. QED
        BY <1>2, <3>1 DEF ToSet
    <2>3. \A i \in 1 .. n : q.rows[i] \in ToSet(rows)
      <3>1. \A i \in 1 .. n : i + m \in 1 .. m + n /\ rows[i + m] = q.rows[i]
        BY <1>1, <1>2
      <3>2. QED
        BY <1>2, <3>1 DEF ToSet
    <2>4. QED
      BY <1>2, <2>1, <2>2, <2>3 DEF ToSet
  <1>6. ToSet(rows) \subseteq Rows /\ p.there \cap q.there \subseteq Rows
    BY <1>5 DEF Follows
  <1>7. ASSUME NEW i \in 1 .. m + n, NEW j \in 1 .. m + n, i < j
        PROVE  Older(rows[j], rows[i])
    <2>1. CASE j <= m
      <3>1. i \in 1 .. m /\ j \in 1 .. m /\ rows[i] = p.rows[i] /\ rows[j] = p.rows[j]
        BY <1>1, <1>2, <1>7, <2>1
      <3>2. QED
        BY <1>2, <1>7, <3>1 DEF Follows
    <2>2. CASE i > m
      <3>1. /\ i - m \in 1 .. n /\ j - m \in 1 .. n /\ i - m < j - m
            /\ rows[i] = q.rows[i - m] /\ rows[j] = q.rows[j - m]
        BY <1>1, <1>2, <1>7, <2>2
      <3>2. QED
        BY <1>2, <3>1 DEF Follows
    <2>3. CASE i <= m /\ j > m
      <3>1. i \in 1 .. m /\ j - m \in 1 .. n /\ rows[i] = p.rows[i] /\ rows[j] = q.rows[j - m]
        BY <1>1, <1>2, <2>3
      <3>2. Older(rows[j], p.next)
        BY <1>4, <3>1 DEF Follows
      <3>3. p.next = rows[i] \/ Older(p.next, rows[i])
        <4>1. i = m \/ (i < m /\ m \in 1 .. m)
          BY <1>1, <3>1
        <4>2. QED
          BY <1>2, <1>3, <3>1, <4>1 DEF Follows
      <3>4. QED
        BY <3>2, <3>3, OlderOrders
    <2>4. QED
      BY <1>1, <2>1, <2>2, <2>3
  <1>8. q.next # None => rows # <<>> /\ q.next = rows[Len(rows)]
    <2> SUFFICES ASSUME q.next # None PROVE rows # <<>> /\ q.next = rows[Len(rows)]
      OBVIOUS
    <2>1. n # 0 /\ q.next = q.rows[n]
      BY <1>1 DEF Follows, n
    <2>2. m + n \in 1 .. m + n /\ ~(m + n <= m) /\ m + n - m = n
      BY <1>1, <2>1
    <2>3. rows[m + n] = q.rows[n] /\ Len(rows) = m + n
      <3> DEFINE k == m + n
      <3>1. k \in 1 .. m + n /\ ~(k <= m) /\ k - m = n
        BY <1>1, <2>1
      <3> HIDE DEF k
      <3>2. rows[k] = q.rows[n]
        BY <1>2, <3>1
      <3>3. QED
        BY <1>2, <3>2 DEF k
    <2>4. rows # <<>>
      BY <1>2, <2>2
    <2>5. QED
      BY <2>1, <2>3, <2>4
  <1>9. ASSUME NEW c \in p.there \cap q.there, q.next = None \/ Older(q.next, c)
        PROVE  c \in ToSet(rows)
    <2>1. c \in Rows /\ p.next \in Rows /\ p.next \in ToSet(p.rows)
      BY <1>1, <1>3, <1>4 DEF Follows
    <2>2. c = p.next \/ Older(p.next, c) \/ Older(c, p.next)
      BY <2>1, OlderOrders
    <2>3. CASE c = p.next
      BY <1>5, <2>1, <2>3
    <2>4. CASE Older(p.next, c)
      BY <1>5, <2>4 DEF Follows
    <2>5. CASE Older(c, p.next)
      BY <1>5, <1>9, <2>5 DEF Follows
    <2>6. QED
      BY <2>2, <2>3, <2>4, <2>5
  <1>10. q.next \in Call \cup {None} /\ p.there \cap q.there \subseteq Call
    BY DEF Page
  <1> DEFINE both == [rows |-> rows, next |-> q.next, there |-> p.there \cap q.there]
  <1>11. both \in Page
    BY <1>2, <1>10 DEF Page
  <1>12. Follows(both, None)
    BY <1>2, <1>6, <1>7, <1>8, <1>9 DEF Follows
  <1>13. QED
    BY <1>11, <1>12 DEF rows
-----------------------------------------------------------------------------
(* The page. *)

LEMMA InitInv == Init => Inv
  <1> SUFFICES ASSUME Init PROVE Inv
    OBVIOUS
  <1>1. \A i, j \in DOMAIN table : table[i] = table[j] => i = j
    BY DEF Init, ContributionsInit
  <1>2. HistoryTypeOK /\ PagesFollow
    BY <1>1 DEF Init, HistoryTypeOK, PagesFollow
  <1>3. QED
    BY <1>2, InitRows DEF Inv

LEMMA TableFacts ==
  ASSUME Inv
  PROVE  Distinct /\ table \in Seq(Call) /\ Rows \subseteq Call
  BY DEF Inv, RowsInv, ContributionsTypeOK, PagesFollow, Distinct, Rows, ToSet

(* What the server does to the table. *)
LEMMA TableStep ==
  ASSUME Inv, Server \/ Administrator
  PROVE  \/ UNCHANGED table
         \/ \E c \in Call : /\ c \notin Rows
                            /\ \E i \in 1 .. Len(table) + 1 : table' = InsertAt(table, i, c)
  <1>1. ASSUME NEW c \in Call, InsertRow(c), ~UNCHANGED table
        PROVE  c \notin Rows /\ \E i \in 1 .. Len(table) + 1 : table' = InsertAt(table, i, c)
    <2>1. PICK i \in before[c] + 1 .. Len(table) + 1 : table' = InsertAt(table, i, c)
      BY <1>1 DEF InsertRow
    <2>2. before[c] \in Nat /\ Len(table) \in Nat
      <3>1. before[c] \in Nat
        BY DEF Inv, RowsInv, ContributionsTypeOK
      <3>2. QED
        BY <3>1, TableFacts
    <2>3. i \in 1 .. Len(table) + 1
      BY <2>2
    <2>4. c \notin Rows
      BY <1>1 DEF InsertRow, Inv, RowsInv, SubmissionConsistent
    <2>5. QED
      BY <2>1, <2>3, <2>4
  <1>2. ASSUME NEW c \in Call, FindMedia(c) \/ SubmitFails(c)
        PROVE  UNCHANGED table
    BY <1>2 DEF FindMedia, SubmitFails
  <1>3. ASSUME NEW v \in Verdict,
               Verify(v) \/ Award(v) \/ Reject(v) \/ VerdictFails(v) \/
                 (\E c \in Call, d \in {"verify", "reject"} : BeginVerdict(v, c, d))
        PROVE  UNCHANGED table
    BY <1>3 DEF Verify, Award, Reject, VerdictFails, BeginVerdict, submissions
  <1>4. QED
    BY <1>1, <1>2, <1>3 DEF Server, Administrator, submissions

LEMMA TableKept ==
  ASSUME Inv, UNCHANGED table
  PROVE  Distinct' /\ Rows' = Rows /\ \A d, e \in Rows : Older(d, e) <=> Older(d, e)'
  BY TableFacts DEF Distinct, Rows, Older

(* PagesFollow, one value at a time. *)
GoodList(l) ==
  /\ l \in [is : {"loading", "error"}] \cup [is : {"ready"}, page : Page]
  /\ l.is = "ready" => Follows(l.page, None)

GoodLoad(l) ==
  /\ l \in [is : {"idle", "asked", "gone"}] \cup [is : {"read"}, page : Page]
  /\ l.is = "read" => Follows(l.page, None)

GoodMore(m) ==
  /\ m \in [is : {"none"}] \cup [is : {"asked"}, after : Call]
             \cup [is : {"read"}, after : Call, page : Page]
  /\ m.is # "none" => m.after \in Rows
  /\ m.is = "read" => Follows(m.page, m.after)

LoadsOK == loads = [m \in Load |-> loads[m]] /\ \A m \in Load : GoodLoad(loads[m])

LEMMA Parts ==
  HistoryTypeOK /\ PagesFollow <=> Distinct /\ GoodList(list) /\ LoadsOK /\ GoodMore(more)
  BY DEF HistoryTypeOK, PagesFollow, Distinct, GoodList, GoodLoad, LoadsOK, GoodMore

(* Rows come in under the pages that are shown. *)
LEMMA GoodStays ==
  ASSUME Rows \subseteq Rows', \A d, e \in Rows : Older(d, e) <=> Older(d, e)'
  PROVE  /\ \A l : GoodList(l) => GoodList(l)'
         /\ \A l : GoodLoad(l) => GoodLoad(l)'
         /\ \A m : GoodMore(m) => GoodMore(m)'
  <1>1. \A page \in Page, after \in Rows \cup {None} :
          Follows(page, after) => Follows(page, after)'
    BY FollowsKept
  <1>2. ASSUME NEW l, GoodList(l) PROVE GoodList(l)'
    BY <1>1, <1>2 DEF GoodList
  <1>3. ASSUME NEW l, GoodLoad(l) PROVE GoodLoad(l)'
    BY <1>1, <1>3 DEF GoodLoad
  <1>4. ASSUME NEW m, GoodMore(m) PROVE GoodMore(m)'
    BY <1>1, <1>4 DEF GoodMore
  <1>5. QED
    BY <1>2, <1>3, <1>4

(* So it is enough that a step leaves what is good over the old table. *)
LEMMA GoodStep ==
  ASSUME Distinct', Rows \subseteq Rows', \A d, e \in Rows : Older(d, e) <=> Older(d, e)',
         GoodList(list'), GoodMore(more'),
         loads' = [m \in Load |-> loads'[m]], \A m \in Load : GoodLoad(loads'[m])
  PROVE  HistoryTypeOK' /\ PagesFollow'
  <1>1. GoodList(list)' /\ GoodMore(more)'
    BY GoodStays
  <1>2. \A m \in Load : GoodLoad(loads[m])'
    BY GoodStays
  <1>3. LoadsOK'
    BY <1>2 DEF LoadsOK
  <1>4. QED
    BY <1>1, <1>3 DEF HistoryTypeOK, PagesFollow, Distinct, GoodList, GoodLoad, LoadsOK, GoodMore

LEMMA AskForGood ==
  ASSUME NEW requests, requests = [m \in Load |-> requests[m]],
         \A m \in Load : GoodLoad(requests[m]), AskFor(requests)
  PROVE  /\ GoodList(list') /\ loads' = [m \in Load |-> loads'[m]]
         /\ \A m \in Load : GoodLoad(loads'[m])
  <1>1. PICK n \in Load : loads' = [requests EXCEPT ![n] = [is |-> "asked"]]
    BY DEF AskFor
  <1>2. GoodLoad([is |-> "asked"])
    BY DEF GoodLoad
  <1>3. GoodList(list')
    BY DEF AskFor, GoodList
  <1>4. QED
    BY <1>1, <1>2, <1>3

(* What the page does with its list. *)
LEMMA ListStep ==
  ASSUME Inv,
         \/ Submitted \/ Mount
         \/ \E m \in Load : ReadLoad(m) \/ LandLoad(m)
         \/ LoadMore \/ ReadMore \/ LandMore
  PROVE  /\ GoodList(list') /\ GoodMore(more')
         /\ loads' = [m \in Load |-> loads'[m]] /\ \A m \in Load : GoodLoad(loads'[m])
  <1>1. Distinct /\ table \in Seq(Call) /\ Rows \subseteq Call
    BY TableFacts
  <1>2. GoodList(list) /\ LoadsOK /\ GoodMore(more)
    BY Parts DEF Inv
  <1>3. loads = [m \in Load |-> loads[m]] /\ \A m \in Load : GoodLoad(loads[m])
    BY <1>2 DEF LoadsOK
  <1>4. GoodMore([is |-> "none"]) /\ GoodList([is |-> "error"]) /\ GoodLoad([is |-> "gone"])
    BY DEF GoodMore, GoodList, GoodLoad
  <1>5. CASE Submitted
    <2>1. GoodMore(more') /\ (UNCHANGED <<list, loads>> \/ AskFor(loads))
      BY <1>2, <1>5 DEF Submitted
    <2>2. QED
      BY <1>2, <1>3, <2>1, AskForGood
  <1>6. CASE Mount
    <2> DEFINE requests == [m \in Load |-> IF loads[m].is = "idle" THEN loads[m]
                                           ELSE [is |-> "gone"]]
    <2>1. GoodMore(more') /\ AskFor(requests)
      BY <1>4, <1>6 DEF Mount
    <2>2. requests = [m \in Load |-> requests[m]] /\ \A m \in Load : GoodLoad(requests[m])
      BY <1>3, <1>4
    <2> HIDE DEF requests
    <2>3. QED
      BY <2>1, <2>2, AskForGood
  <1>7. ASSUME NEW m \in Load, ReadLoad(m)
        PROVE  /\ loads' = [k \in Load |-> loads'[k]] /\ \A k \in Load : GoodLoad(loads'[k])
               /\ UNCHANGED <<list, more>>
    <2> DEFINE answer == [is |-> "read", page |-> PageAfter(None)]
    <2>1. PageAfter(None) \in Page /\ Follows(PageAfter(None), None)
      BY <1>1, PageFollows
    <2>2. GoodLoad(answer)
      BY <2>1 DEF GoodLoad
    <2>3. loads' = [loads EXCEPT ![m] = answer] /\ UNCHANGED <<list, more>>
      BY <1>7 DEF ReadLoad
    <2> HIDE DEF answer
    <2>4. QED
      BY <1>3, <2>2, <2>3
  <1>8. ASSUME NEW m \in Load, LandLoad(m)
        PROVE  /\ loads' = [k \in Load |-> loads'[k]] /\ \A k \in Load : GoodLoad(loads'[k])
               /\ GoodList(list') /\ UNCHANGED more
    <2>1. loads' = [loads EXCEPT ![m] = [is |-> "gone"]] /\ UNCHANGED more
      BY <1>8 DEF LandLoad
    <2>2. \/ loads[m].is = "read" /\ list' = [is |-> "ready", page |-> loads[m].page]
          \/ list' = [is |-> "error"]
      BY <1>8 DEF LandLoad
    <2>3. GoodList(list')
      <3>1. GoodLoad(loads[m])
        BY <1>3
      <3>2. CASE loads[m].is = "read" /\ list' = [is |-> "ready", page |-> loads[m].page]
        BY <3>1, <3>2 DEF GoodList, GoodLoad
      <3>3. QED
        BY <1>4, <2>2, <3>2
    <2>4. QED
      BY <1>3, <1>4, <2>1, <2>3
  <1>9. CASE LoadMore
    <2>1. /\ list.is = "ready" /\ list.page.next # None
          /\ more' = [is |-> "asked", after |-> list.page.next] /\ UNCHANGED <<list, loads>>
      BY <1>9 DEF LoadMore, MoreButton
    <2>2. list.page \in Page /\ Follows(list.page, None)
      BY <1>2, <2>1 DEF GoodList
    <2>3. list.page.next \in Rows
      <3>1. list.page.rows \in Seq(Call) /\ list.page.rows # <<>>
        BY <2>1, <2>2 DEF Page, Follows
      <3>2. Len(list.page.rows) \in DOMAIN list.page.rows
        BY <3>1
      <3>3. QED
        BY <2>1, <2>2, <3>2 DEF Follows, ToSet
    <2>4. GoodMore(more')
      BY <1>1, <2>1, <2>3 DEF GoodMore
    <2>5. QED
      BY <1>2, <1>3, <2>1, <2>4
  <1>10. CASE ReadMore
    <2>1. /\ more.is = "asked" /\ UNCHANGED <<list, loads>>
          /\ more' = [is |-> "read", after |-> more.after, page |-> PageAfter(more.after)]
      BY <1>10 DEF ReadMore
    <2>2. more.after \in Rows /\ more.after \in Call
      BY <1>1, <1>2, <2>1 DEF GoodMore
    <2>3. PageAfter(more.after) \in Page /\ Follows(PageAfter(more.after), more.after)
      BY <1>1, <2>2, PageFollows
    <2>4. GoodMore(more')
      BY <2>1, <2>2, <2>3 DEF GoodMore
    <2>5. QED
      BY <1>2, <1>3, <2>1, <2>4
  <1>11. CASE LandMore
    <2>1. more' = [is |-> "none"] /\ UNCHANGED loads
      BY <1>11 DEF LandMore
    <2>2. CASE UNCHANGED list
      BY <1>2, <1>3, <1>4, <2>1, <2>2
    <2>3. CASE ~UNCHANGED list
      <3> DEFINE p == list.page
                 q == more.page
                 both == [rows |-> p.rows \o q.rows, next |-> q.next, there |-> p.there \cap q.there]
      <3>1. /\ more.is = "read" /\ list.is = "ready" /\ list.page.next = more.after
            /\ list' = [is |-> "ready", page |-> both]
        BY <1>11, <2>3 DEF LandMore, Continues
      <3>2. p \in Page /\ Follows(p, None)
        BY <1>2, <3>1 DEF GoodList
      <3>3. q \in Page /\ Follows(q, p.next) /\ p.next \in Call
        BY <1>2, <3>1 DEF GoodMore
      <3>4. p.next # None
        BY <3>3 DEF Call, None
      <3> HIDE DEF p, q
      <3>5. both \in Page /\ Follows(both, None)
        BY <1>1, <3>2, <3>3, <3>4, PagesContinue
      <3> HIDE DEF both
      <3>6. GoodList(list')
        BY <3>1, <3>5 DEF GoodList
      <3>7. QED
        BY <1>3, <1>4, <2>1, <3>6
    <2>4. QED
      BY <2>2, <2>3
  <1>12. QED
    BY <1>2, <1>3, <1>5, <1>6, <1>7, <1>8, <1>9, <1>10, <1>11

LEMMA StepInv == Inv /\ [Next]_all => Inv'
  <1> SUFFICES ASSUME Inv, [Next]_all PROVE Inv'
    OBVIOUS
  <1>1. RowsInv'
    BY StepRows DEF Inv
  <1>2. /\ GoodList(list) /\ GoodMore(more)
        /\ loads = [m \in Load |-> loads[m]] /\ \A m \in Load : GoodLoad(loads[m])
    BY Parts DEF Inv, LoadsOK
  <1> DEFINE OrderKept == /\ Distinct' /\ Rows \subseteq Rows'
                          /\ \A d, e \in Rows : Older(d, e) <=> Older(d, e)'
  <1>3. UNCHANGED table => OrderKept
    BY TableKept
  <1>4. CASE (Server \/ Administrator) /\ UNCHANGED history
    <2>1. OrderKept
      BY <1>3, <1>4, TableStep, TableFacts, InsertKeepsOrder
    <2>2. QED
      BY <1>1, <1>2, <1>4, <2>1, GoodStep DEF Inv, history
  <1>5. CASE OnPhotoChange \/ Uploaded \/ OnSubmit \/ UNCHANGED all
    <2>1. UNCHANGED <<table, list, loads, more>>
      BY <1>5 DEF OnPhotoChange, Uploaded, OnSubmit, BeginSubmit, all, history, server, submissions
    <2>2. QED
      BY <1>1, <1>2, <1>3, <2>1, GoodStep DEF Inv
  <1>6. CASE \/ Submitted \/ Mount
             \/ \E m \in Load : ReadLoad(m) \/ LandLoad(m)
             \/ LoadMore \/ ReadMore \/ LandMore
    <2>1. UNCHANGED table
      BY <1>6 DEF Submitted, Mount, ReadLoad, LandLoad, LoadMore, ReadMore, LandMore,
                  server, submissions
    <2>2. QED
      BY <1>1, <1>3, <1>6, <2>1, ListStep, GoodStep DEF Inv
  <1>7. QED
    BY <1>4, <1>5, <1>6 DEF Next, Client

(* All of it: the rows, photos, points and verdicts of cleanup.service.ts, *)
(* scrap-request.service.ts and media.service.ts tell one story, and the   *)
(* pages of common/pagination.ts follow each other.                        *)
THEOREM Invariance == Spec => []Inv
  BY InitInv, StepInv, PTL DEF Spec

(* The keyset pages of common/pagination.ts: however loads, pages and      *)
(* inserts overtake each other, a list shows no row twice and skips none   *)
(* that was there whenever one of its pages was read.                      *)
THEOREM PagesDoJoin == Spec => []PagesJoin
<1>1. Inv => PagesJoin
  <2> SUFFICES ASSUME Inv, list.is = "ready"
               PROVE  /\ \A i \in 1 .. Len(Shown) - 1 : Older(Shown[i + 1], Shown[i])
                      /\ \A c \in list.page.there :
                           list.page.next = None \/ Older(list.page.next, c) => c \in ToSet(Shown)
    BY DEF PagesJoin
  <2>1. list.page \in Page /\ Follows(list.page, None) /\ Shown = list.page.rows
    BY DEF Inv, HistoryTypeOK, PagesFollow, Shown
  <2>2. Shown \in Seq(Call)
    BY <2>1 DEF Page
  <2>3. \A i \in 1 .. Len(Shown) - 1 : i \in DOMAIN Shown /\ i + 1 \in DOMAIN Shown /\ i < i + 1
    BY <2>2
  <2>4. QED
    BY <2>1, <2>3 DEF Follows
<1>2. QED
  BY <1>1, Invariance, PTL

(* "mediaAssetId @unique": one photo backs one request or report, although *)
(* a page sends it again after an answer that was lost.                    *)
THEOREM PhotoBacksOneRow == Spec => []PhotoOnce
<1>1. Inv => PhotoOnce
  BY DEF Inv, RowsInv
<1>2. QED
  BY <1>1, Invariance, PTL

(* MediaService.upload: whatever fails between storage and database, a row *)
(* of a request or report has its photo.                                   *)
THEOREM RowsHaveTheirPhotos == Spec => []RowHasPhoto
<1>1. Inv => RowHasPhoto
  BY DEF Inv, RowsInv
<1>2. QED
  BY <1>1, Invariance, PTL

(* CleanupService.adminVerify: the points of a report and its verification *)
(* come together, however many administrators judge it.                    *)
THEOREM PointsFollowVerdicts == Spec => []PaidIffVerified
<1>1. Inv => PaidIffVerified
  BY DEF Inv, RowsInv
<1>2. QED
  BY <1>1, Invariance, PTL

(* adminVerify and adminReject: the first verdict on a report stands.      *)
THEOREM FirstVerdictStands == Spec => VerdictFinal
<1>1. Inv /\ [Next]_all =>
        [\A c \in Call : status[c] \in {"VERIFIED", "REJECTED"} => status'[c] = status[c]]_status
  BY PageInv, ServerInv DEF Next, Client, all, server, verdicts, Inv
<1>2. QED
  BY <1>1, Invariance, PTL DEF Spec, VerdictFinal
-----------------------------------------------------------------------------
(* Evidence: what the rows make of the photos. *)
Held == {p \in Photo : uploaded[p] = "ok" /\ Readable(p)}

LEMMA HeldIsUploaded == ASSUME UploadConsistent PROVE Held = {p \in Photo : uploaded[p] = "ok"}
  BY DEF Held, UploadConsistent

(* A photo that is held stays so, and one at a time comes to be held.       *)
LEMMA MediaKeeps ==
  ASSUME RowsInv, NEW p \in Photo, Media(p) \/ BeginUpload(p),
         UNCHANGED <<kind, submissions, verdicts>>
  PROVE  Held' = Held \/ Held' = Held \cup {p}
  <1>1. uploaded \in [Photo -> {"none", "ok", "failed"}]
    BY DEF RowsInv, ContributionsTypeOK, MediaTypeOK
  <1>2. upload[p] # "done" => uploaded[p] # "ok"
    BY DEF RowsInv, UploadConsistent
  <1>3. \/ uploaded' = uploaded
        \/ uploaded' = [uploaded EXCEPT ![p] = "ok"]
        \/ uploaded' = [uploaded EXCEPT ![p] = "failed"] /\ uploaded[p] # "ok"
    BY <1>2 DEF Media, BeginUpload, PutObject, Store, PutFails, CreateAsset, RollBack, Crash,
                UploadTo, Answer
  <1>4. Held = {q \in Photo : uploaded[q] = "ok"} /\ Held' = {q \in Photo : uploaded'[q] = "ok"}
    <2>1. UploadConsistent /\ UploadConsistent'
      BY UploadInv DEF RowsInv
    <2>2. QED
      BY <2>1 DEF Held, UploadConsistent
  <1>5. QED
    BY <1>1, <1>3, <1>4

(* A row is where its status says it is, and no other row has its photo.    *)
LEMMA RowFacts ==
  ASSUME RowsInv
  PROVE  /\ Rows = {c \in Call : status[c] # "NONE"}
         /\ \A c \in Rows : photoOf[c] \in Held /\ photoOf[c] \in Photo
         /\ \A c, d \in Rows : photoOf[c] = photoOf[d] => c = d
         /\ paid = {c \in Call : status[c] = "VERIFIED"}
         /\ status \in [Call -> {"NONE", "SUBMITTED", "VERIFIED", "REJECTED"}]
         /\ photoOf \in [Call -> Photo \cup {None}]
  <1>1. Rows \subseteq Call
    BY DEF RowsInv, ContributionsTypeOK, Rows, ToSet
  <1>2. \A c \in Rows : photoOf[c] \in Photo /\ uploaded[photoOf[c]] = "ok"
    BY <1>1 DEF RowsInv, SubmissionConsistent
  <1>3. QED
    BY <1>1, <1>2 DEF RowsInv, SubmissionConsistent, RowHasPhoto, PhotoOnce, PaidIffVerified,
                      ContributionsTypeOK, Held

(* What the abstract state is made of. *)
Story == <<Held, PhotosOf(Rows), Judged("VERIFIED"), Judged("REJECTED"), PhotosOf(paid)>>

LEMMA StoryKept ==
  ASSUME UNCHANGED <<table, photoOf, status, paid>>
  PROVE  UNCHANGED <<PhotosOf(Rows), Judged("VERIFIED"), Judged("REJECTED"), PhotosOf(paid)>>
  BY DEF PhotosOf, Judged, Rows

LEMMA StoryStays ==
  ASSUME UNCHANGED <<media, table, photoOf, status, paid>>
  PROVE  UNCHANGED Story
  <1>1. Held' = Held
    BY DEF Held, Readable, media
  <1>2. QED
    BY <1>1, StoryKept DEF Story

(* A submission takes the photo of no row. *)
LEMMA BeginSubmitTells ==
  ASSUME RowsInv, NEW c \in Call, NEW p \in Photo, BeginSubmit(c, p)
  PROVE  UNCHANGED Story
  <1>1. c \notin Rows
    BY DEF RowsInv, SubmissionConsistent, BeginSubmit
  <1>2. /\ UNCHANGED <<media, table, status, paid>>
        /\ \A d \in Call \ {c} : photoOf'[d] = photoOf[d]
    BY RowFacts DEF BeginSubmit, verdicts
  <1>3. Held' = Held /\ Rows' = Rows
    BY <1>2 DEF Held, Readable, media, Rows
  <1>4. Rows \subseteq Call /\ paid \subseteq Rows
    BY RowFacts
  <1>5. PhotosOf(Rows)' = PhotosOf(Rows) /\ PhotosOf(paid)' = PhotosOf(paid)
    BY <1>1, <1>2, <1>3, <1>4 DEF PhotosOf
  <1>6. Judged("VERIFIED")' = Judged("VERIFIED") /\ Judged("REJECTED")' = Judged("REJECTED")
    BY <1>1, <1>2, RowFacts DEF PhotosOf, Judged
  <1>7. QED
    BY <1>3, <1>5, <1>6 DEF Story

(* A row makes its photo evidence. *)
LEMMA RowTells ==
  ASSUME RowsInv, NEW c \in Call, InsertRow(c), PhotoFree(photoOf[c])
  PROVE  Photos!Send
  <1>1. /\ UNCHANGED <<media, photoOf, paid>>
        /\ status[c] = "NONE" /\ status' = [status EXCEPT ![c] = "SUBMITTED"]
    BY RowInv DEF InsertRow
  <1>2. Rows' = {d \in Call : status'[d] # "NONE"}
    BY RowInv DEF SubmissionConsistent, ContributionsTypeOK, Rows, ToSet
  <1>3. Rows' = Rows \cup {c}
    BY <1>1, <1>2, RowFacts
  <1>4. PhotosOf(Rows)' = PhotosOf(Rows) \cup {photoOf[c]}
    BY <1>1, <1>3 DEF PhotosOf
  <1>5. photoOf[c] \in Held
    BY DEF RowsInv, SubmissionConsistent, UploadConsistent, Held, InsertRow
  <1>6. photoOf[c] \notin PhotosOf(Rows)
    BY DEF PhotosOf, PhotoFree
  <1>7. UNCHANGED <<Held, PhotosOf(paid)>>
    BY <1>1 DEF Held, Readable, media, PhotosOf
  <1>8. UNCHANGED <<Judged("VERIFIED"), Judged("REJECTED")>>
    BY <1>1, RowFacts DEF Judged, PhotosOf
  <1>9. QED
    BY <1>4, <1>5, <1>6, <1>7, <1>8 DEF Photos!Send, Held

(* The first verdict on a row is the verdict on its photo. *)
LEMMA VerdictTells ==
  ASSUME RowsInv, NEW c \in Rows, Pending(c), NEW how \in {"VERIFIED", "REJECTED"},
         status' = [status EXCEPT ![c] = how],
         paid' = IF how = "VERIFIED" THEN paid \cup {c} ELSE paid,
         UNCHANGED <<media, table, photoOf>>
  PROVE  Photos!Judge
  <1>1. c \in Call /\ status[c] = "SUBMITTED"
    BY RowFacts DEF Pending
  <1>2. UNCHANGED <<Held, PhotosOf(Rows)>>
    BY DEF Held, Readable, media, PhotosOf, Rows
  <1>3. /\ photoOf[c] \in PhotosOf(Rows)
        /\ photoOf[c] \notin Judged("VERIFIED") \cup Judged("REJECTED")
    <2>1. ASSUME NEW d \in Call, photoOf[d] = photoOf[c], status[d] \in {"VERIFIED", "REJECTED"}
          PROVE  FALSE
      <3>1. d \in Rows
        BY <2>1, RowFacts
      <3>2. d = c
        BY <2>1, <3>1, RowFacts
      <3>3. QED
        BY <1>1, <2>1, <3>2
    <2>2. QED
      BY <2>1 DEF PhotosOf, Judged
  <1>4. ASSUME NEW s \in {"VERIFIED", "REJECTED"}
        PROVE  Judged(s)' = IF how = s THEN Judged(s) \cup {photoOf[c]} ELSE Judged(s)
    <2>1. {d \in Call : status'[d] = s} = IF how = s THEN {d \in Call : status[d] = s} \cup {c}
                                          ELSE {d \in Call : status[d] = s}
      BY <1>1, RowFacts
    <2>2. QED
      BY <2>1 DEF Judged, PhotosOf
  <1>5. PhotosOf(paid)' = IF how = "VERIFIED" THEN PhotosOf(paid) \cup {photoOf[c]} ELSE PhotosOf(paid)
    BY DEF PhotosOf
  <1>6. QED
    BY <1>2, <1>3, <1>4, <1>5 DEF Photos!Judge, Held

LEMMA ServerTells ==
  ASSUME RowsInv, Server \/ Administrator
  PROVE  Photos!Next \/ UNCHANGED Story
  <1>1. ASSUME NEW p \in Photo, Media(p), UNCHANGED <<kind, submissions, verdicts>>
        PROVE  Photos!Next \/ UNCHANGED Story
    <2>1. Held' = Held \/ Held' = Held \cup {p}
      BY <1>1, MediaKeeps
    <2>2. UNCHANGED <<PhotosOf(Rows), Judged("VERIFIED"), Judged("REJECTED"), PhotosOf(paid)>>
      BY <1>1, StoryKept DEF submissions, verdicts
    <2>3. QED
      BY <2>1, <2>2 DEF Story, Held, Photos!Next, Photos!Keep
  <1>2. ASSUME NEW c \in Call, FindMedia(c) \/ InsertRow(c) \/ SubmitFails(c)
        PROVE  Photos!Next \/ UNCHANGED Story
    <2>1. CASE InsertRow(c) /\ PhotoFree(photoOf[c])
      BY <2>1, RowTells DEF Photos!Next
    <2>2. CASE ~(InsertRow(c) /\ PhotoFree(photoOf[c]))
      BY <1>2, <2>2, StoryStays DEF FindMedia, InsertRow, SubmitFails, verdicts
    <2>3. QED
      BY <2>1, <2>2
  <1>3. ASSUME NEW v \in Verdict,
               Verify(v) \/ Award(v) \/ Reject(v) \/ VerdictFails(v) \/
                 (\E c \in Call, d \in {"verify", "reject"} : BeginVerdict(v, c, d))
        PROVE  Photos!Next \/ UNCHANGED Story
    <2>1. verdict[v] \in {"award", "reject"} => about[v] \in Rows
      BY DEF RowsInv, VerdictConsistent
    <2>2. verdict[v] = "award" => Pending(about[v]) /\ about[v] \notin paid
      BY DEF RowsInv, VerdictConsistent, PaidIffVerified, Pending
    <2>3. CASE Award(v)
      BY <2>1, <2>2, <2>3, VerdictTells DEF Award, submissions, Photos!Next
    <2>4. CASE Reject(v) /\ Pending(about[v])
      BY <2>1, <2>4, VerdictTells DEF Reject, submissions, Photos!Next
    <2>5. CASE ~(Award(v) \/ (Reject(v) /\ Pending(about[v])))
      BY <1>3, <2>5, StoryStays DEF Verify, Reject, VerdictFails, BeginVerdict, submissions
    <2>6. QED
      BY <2>3, <2>4, <2>5
  <1>4. QED
    BY <1>1, <1>2, <1>3 DEF Server, Administrator

LEMMA ClientTells ==
  ASSUME RowsInv, Client
  PROVE  UNCHANGED Story
  <1>1. CASE OnPhotoChange
    <2>1. PICK p \in Photo : BeginUpload(p)
      BY <1>1 DEF OnPhotoChange
    <2>2. UNCHANGED <<objects, assets, uploaded, table, photoOf, status, paid>>
      BY <1>1, <2>1 DEF OnPhotoChange, BeginUpload, UploadTo, submissions, verdicts
    <2>3. Held' = Held
      BY <2>2 DEF Held, Readable
    <2>4. QED
      BY <2>2, <2>3, StoryKept DEF Story
  <1>2. CASE OnSubmit
    <2>1. photo.id \in Photo
      BY <1>2 DEF OnSubmit, SubmitButton, RowsInv, FormTypeOK
    <2>2. QED
      BY <1>2, <2>1, BeginSubmitTells DEF OnSubmit
  <1>3. CASE UNCHANGED server
    BY <1>3, StoryStays DEF server, submissions, verdicts
  <1>4. QED
    BY <1>1, <1>2, <1>3 DEF Client, Uploaded, Submitted, Mount, ReadLoad, LandLoad, LoadMore,
                            ReadMore, LandMore

(* Uploads, submissions and verdicts, with all that goes wrong between      *)
(* browser, storage and database, are steps of Evidence or change nothing   *)
(* that it shows: a photo is kept, sent in once, judged once, and credited  *)
(* with its verification.                                                   *)
THEOREM ContributionsImplementEvidence == Spec => ImplementsEvidence
<1>1. Init => Photos!Init
  <2> SUFFICES ASSUME Init PROVE Photos!Init
    OBVIOUS
  <2>1. RowsInv
    BY InitRows
  <2>0. PICK k \in Kind : \E n \in Earlier[k] : ContributionsInit(k, n)
    BY DEF Init
  <2>2. PICK n \in Earlier[k] : ContributionsInit(k, n)
    BY <2>0
  <2>3. /\ uploaded = [q \in Photo |-> IF q <= n THEN "ok" ELSE "none"]
        /\ photoOf = [c \in Call |-> IF c <= n THEN c ELSE None]
        /\ status = [c \in Call |-> IF c <= n THEN "SUBMITTED" ELSE "NONE"]
        /\ paid = {}
    BY <2>2 DEF ContributionsInit, MediaInit
  <2>4. n \in Nat /\ n <= MaxCall /\ n <= MaxPhoto
    BY PageAssumption, CallAssumption, PhotoAssumption
  <2>5. Rows = {c \in Call : c <= n}
    BY <2>1, <2>3, RowFacts
  <2>6. PhotosOf(Rows) = {p \in Photo : p <= n}
    BY <2>3, <2>4, <2>5, CallAssumption, PhotoAssumption DEF PhotosOf, Call, Photo
  <2>7. Held = {p \in Photo : p <= n}
    BY <2>1, <2>3, HeldIsUploaded DEF RowsInv
  <2>8. Judged("VERIFIED") = {} /\ Judged("REJECTED") = {} /\ PhotosOf(paid) = {}
    BY <2>3 DEF Judged, PhotosOf
  <2>9. QED
    BY <2>6, <2>7, <2>8 DEF Photos!Init, Held
<1>2. Inv /\ [Next]_all => [Photos!Next]_Photos!vars
  <2> SUFFICES ASSUME RowsInv, [Next]_all PROVE Photos!Next \/ UNCHANGED Story
    BY DEF Inv, Story, Held, Photos!vars
  <2>1. CASE UNCHANGED all
    BY <2>1, StoryStays DEF all, server, submissions, verdicts
  <2>2. QED
    BY <2>1, ServerTells, ClientTells DEF Next
<1>3. QED
  BY <1>1, <1>2, Invariance, PTL DEF Spec, ImplementsEvidence, Photos!Spec
=============================================================================
