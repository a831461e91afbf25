---------------------------- MODULE MediaUpload ----------------------------
(***************************************************************************)
(* MediaService.upload of apps/api/src/media/media.service.ts on the       *)
(* object storage of apps/api/src/storage: the object is put first, its    *)
(* row follows, and a failed row takes the object away again.  An upload,  *)
(* its object and its row have one name.  The images are good ones: what   *)
(* the pipeline refuses never reaches the storage.                         *)
(***************************************************************************)
EXTENDS Integers

CONSTANT MaxPhoto       \* uploads in all

ASSUME PhotoAssumption == MaxPhoto \in Nat

Photo == 1 .. MaxPhoto
None == 0

VARIABLES
  objects,   \* the objects in the storage
  assets,    \* the rows of MediaAsset
  puts,      \* the uploads whose put is on its way
  upload,    \* how far an upload has come
  uploaded   \* what it was answered

media == <<objects, assets, puts, upload, uploaded>>

MediaTypeOK ==
  /\ {objects, assets, puts} \subseteq SUBSET Photo
  /\ upload \in [Photo -> {"idle", "put", "putting", "insert", "rollback", "done"}]
  /\ uploaded \in [Photo -> {"none", "ok", "failed"}]

(* The uploads up to p were good ones, long ago. *)
MediaInit(p) ==
  /\ objects = 1 .. p /\ assets = 1 .. p /\ puts = {}
  /\ upload = [q \in Photo |-> IF q <= p THEN "done" ELSE "idle"]
  /\ uploaded = [q \in Photo |-> IF q <= p THEN "ok" ELSE "none"]
-----------------------------------------------------------------------------
UploadTo(p, s) == upload' = [upload EXCEPT ![p] = s] /\ UNCHANGED uploaded

Answer(p, how) ==
  /\ upload' = [upload EXCEPT ![p] = "done"]
  /\ uploaded' = [uploaded EXCEPT ![p] = how]

BeginUpload(p) ==
  /\ upload[p] = "idle"
  /\ UploadTo(p, "put")
  /\ UNCHANGED <<objects, assets, puts>>

PutObject(p) ==
  /\ upload[p] = "put"
  /\ puts' = puts \cup {p}
  /\ UploadTo(p, "putting")
  /\ UNCHANGED <<objects, assets>>

(* The storage takes an object, whether or not anybody still waits. *)
Store(p) ==
  /\ p \in puts
  /\ puts' = puts \ {p} /\ objects' = objects \cup {p}
  /\ IF upload[p] = "putting" THEN UploadTo(p, "insert") ELSE UNCHANGED <<upload, uploaded>>
  /\ UNCHANGED assets

(* Mutant: nobody looks how the put has ended. *)
PutFailsUnseen(p) ==
  /\ upload[p] = "putting"
  /\ puts' \in {puts, puts \ {p}}
  /\ UploadTo(p, "insert")
  /\ UNCHANGED <<objects, assets>>

(* A refusal, or the timeout: the put may still arrive. *)
PutFails(p) ==
  /\ upload[p] = "putting"
  /\ puts' \in {puts, puts \ {p}}
  /\ Answer(p, "failed")
  /\ UNCHANGED <<objects, assets>>

(* mediaAsset.create, which may fail, and may fail although it committed. *)
CreateAsset(p) ==
  /\ upload[p] = "insert"
  /\ \/ assets' = assets \cup {p} /\ Answer(p, "ok")
     \/ assets' \in {assets, assets \cup {p}} /\ UploadTo(p, "rollback")
  /\ UNCHANGED <<objects, puts>>

(* deleteObject, which may fail. *)
RollBack(p) ==
  /\ upload[p] = "rollback"
  /\ objects' \in {objects, objects \ {p}}
  /\ Answer(p, "failed")
  /\ UNCHANGED <<assets, puts>>

(* The server stops in the middle. *)
Crash(p) ==
  /\ upload[p] \notin {"idle", "done"}
  /\ Answer(p, "failed")
  /\ UNCHANGED <<objects, assets, puts>>

(* What a photo is read by: its row, and the object the row names. *)
Readable(p) == p \in assets /\ p \in objects

Media(p) ==
  \/ PutObject(p)
  \/ Store(p)
  \/ PutFails(p)
  \/ CreateAsset(p)
  \/ RollBack(p)
  \/ Crash(p)
=============================================================================
