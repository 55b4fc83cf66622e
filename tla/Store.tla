------------------------------- MODULE Store -------------------------------
(***************************************************************************)
(* The state the SnapTrack API processes and the Celery workers share: the *)
(* PostgreSQL tables, the storage volume, the Redis cache, the broker      *)
(* queue and the mail backend, together with what each HTTP request and    *)
(* each worker holds in memory between two of its steps.                   *)
(*                                                                         *)
(* A step is one database transaction, or one statement of a transaction   *)
(* that other transactions can observe through its row locks, or one call  *)
(* to the file system, to Redis or to the broker.                          *)
(***************************************************************************)
EXTENDS Naturals, Sequences, FiniteSets, Functions, BagsExt, Bags

CONSTANTS
    User,                    \* accounts
    Caption,                 \* captions a photo may carry
    Request,                 \* HTTP requests, each handled once
    Worker,                  \* Celery worker processes
    MaxPhotos,               \* bound: how far the photos.id sequence runs
    Calls,                   \* the calls clients may make
    Seeds,                   \* photos uploaded before the run, ids 1..Len(Seeds)
    SeedFlags,               \* pending flags stored before the run
    ThumbnailMaxRetries,     \* settings.thumbnail_task_max_retries
    NotificationMaxRetries,  \* settings.notification_task_max_retries
    FaultLimit,              \* bound: how many faults of each kind may occur
    MaxFaults,               \* bound: how many faults may occur altogether
    None                     \* no row, no message

PhotoId == 1..MaxPhotos
Status  == {"pending", "processing", "ready", "failed"}
Image   == {"good", "truncated"}   \* the blob stored as the original
Blob    == Image \cup {"thumb"}
Fault   == {"api_crash", "worker_crash", "redeliver", "cache", "broker",
            "disk", "rmtree", "db", "mail", "maildir"}

\* A flag is identified by its unique (photo_id, reporter_id) pair, a
\* notification by the decision that queued it and the flag it answers.
FlagId == PhotoId \X User
NoteId == Request \X FlagId

\* A photo row joined with its thumbnail row; "none" stands for a thumbnail
\* the second SELECT of a load no longer found.
Photo == [owner : User, caption : Caption, status : Status, attempts : Nat]
View  == [owner : User, caption : Caption, status : Status \cup {"none"},
          attempts : Nat]

ThumbMessage == [photo : PhotoId, retries : 0..ThumbnailMaxRetries]
NoteMessage  == [note : NoteId, retries : 0..NotificationMaxRetries]
Message      == ThumbMessage \cup NoteMessage

Decision == {"dismiss", "action"}
Audit == [by : Request, flag : FlagId, decision : Decision]
Note  == [status : {"pending", "sent", "failed"}, attempts : Nat]

UploadCall == [op : {"upload"}, user : User, caption : Caption,
               image : Image \cup {"junk", "too_large"}]
PhotoCall  == [op : {"get", "delete", "thumb", "file", "thumb_file", "flag"},
               user : User, photo : PhotoId]
PatchCall  == [op : {"patch"}, user : User, photo : PhotoId, caption : Caption]
DecideCall == [op : Decision, flag : FlagId]
Call == UploadCall \cup PhotoCall \cup PatchCall \cup DecideCall

ASSUME ConstantAssumption ==
    /\ MaxPhotos \in Nat
    /\ ThumbnailMaxRetries \in Nat
    /\ NotificationMaxRetries \in Nat
    /\ FaultLimit \in [Fault -> Nat]
    /\ MaxFaults \in Nat
    /\ Calls \subseteq Call

ASSUME SeedAssumption ==
    /\ Seeds \in Seq([row : Photo, image : Image]) /\ Len(Seeds) <= MaxPhotos
    /\ \A p \in 1..Len(Seeds) :
          \/ Seeds[p].row.status = "pending" /\ Seeds[p].row.attempts = 0
          \/ /\ Seeds[p].row.status = "ready"
             /\ Seeds[p].row.attempts <= ThumbnailMaxRetries + 1
    /\ SeedFlags \subseteq {<<p, Seeds[p].row.owner>> : p \in 1..Len(Seeds)}

ASSUME NoneAssumption == None \notin View /\ None \notin Message

VARIABLES
    photos,   \* photos joined with thumbnails: a function on the live ids
    lastId,   \* the photos.id sequence
    flags,    \* flags: a function on the live flags
    audit,    \* moderation_actions
    outbox,   \* notifications
    files,    \* the storage volume: the blobs in each photo's directory
    cache,    \* Redis photo:{id} keys
    queue,    \* broker: the bag of messages no worker holds
    mails,    \* the bag of messages the mail backend accepted
    call,     \* what each request asks for
    req,      \* what each request holds between its steps
    wk,       \* what each worker holds between its steps
    spent     \* how many faults of each kind have occurred

\* Everything outside the memory of the requests and the workers.
database == <<photos, lastId, flags, audit, outbox>>
shared == <<database, files, cache, queue, mails, spent>>
vars == <<photos, lastId, flags, audit, outbox, files, cache, queue, mails,
          call, req, wk, spent>>

---------------------------------------------------------------------------
(* Tables and keyed stores are functions on the keys present.              *)

Put(t, k, v) == [x \in DOMAIN t \cup {k} |-> IF x = k THEN v ELSE t[x]]
Drop(t, K)   == Restrict(t, DOMAIN t \ K)

HasOriginal(p) == files[p] \cap Image # {}

FlagsOf(p) == {f \in DOMAIN flags : f[1] = p}

FaultCount == FoldFunction(+, 0, spent)

(* One more fault of this kind, within both limits. *)
Spend(kind) ==
    /\ spent[kind] < FaultLimit[kind]
    /\ FaultCount < MaxFaults
    /\ spent' = [spent EXCEPT ![kind] = @ + 1]

(* cache_delete: the key goes, or Redis fails and the error is swallowed. *)
CacheDelete(p) ==
    \/ cache' = Drop(cache, {p}) /\ UNCHANGED spent
    \/ Spend("cache") /\ UNCHANGED cache

(* delete_photo_files: rmtree(ignore_errors=True). *)
DeletePhotoFiles(p) ==
    \/ files' = [files EXCEPT ![p] = {}] /\ UNCHANGED spent
    \/ Spend("rmtree") /\ UNCHANGED files

Publish(m) == queue' = BagAdd(queue, m)

---------------------------------------------------------------------------
(* A request: the step it is at, the photo it is about, the row it read,   *)
(* the flags it loaded, the outbox rows it still has to dispatch, and the  *)
(* row locks its open transaction holds.                                   *)

Step == {"upload", "upload_write", "upload_commit", "upload_refresh",
         "upload_enqueue",
         "get", "load_photo", "load_thumb", "get_fill",
         "patch_commit", "patch_refresh", "patch_invalidate",
         "delete_flags", "lock_flags", "lock_photo", "cascade",
         "delete_files", "delete_invalidate",
         "thumb_send", "file_send", "thumb_file_send",
         "flag_commit", "flag_refresh",
         "decide", "dismiss_commit",
         "action_siblings", "action_resolve", "action_photo",
         "action_files", "action_invalidate", "action_commit",
         "decide_refresh", "dispatch",
         "done", "crashed"}

ReqState == [pc : Step, photo : PhotoId \cup {0}, row : View \cup {None},
             flags : SUBSET FlagId, notes : SUBSET FlagId,
             heldFlags : SUBSET FlagId, heldPhoto : BOOLEAN,
             reply : {0, 200, 201, 204, 400, 404, 409, 413, 500}]

PhotoOf(c) == IF c.op = "upload" THEN 0
              ELSE IF c.op \in Decision THEN c.flag[1]
              ELSE c.photo

FirstStep(op) == CASE op = "upload" -> "upload"
                   [] op = "get" -> "get"
                   [] op \in Decision -> "decide"
                   [] OTHER -> "load_photo"

Fresh(c) == [pc |-> FirstStep(c.op), photo |-> PhotoOf(c), row |-> None,
             flags |-> {}, notes |-> {}, heldFlags |-> {},
             heldPhoto |-> FALSE, reply |-> 0]

Goto(r, step) == req' = [req EXCEPT ![r].pc = step]

(* The handler returns or raises: the session closes and the locks go. *)
AnswerWith(r, code, payload) ==
    req' = [req EXCEPT ![r] =
              [pc |-> "done", photo |-> @.photo, row |-> payload,
               flags |-> {}, notes |-> {}, heldFlags |-> {},
               heldPhoto |-> FALSE, reply |-> code]]

Answer(r, code) == AnswerWith(r, code, None)

---------------------------------------------------------------------------
(* Row locks. The flags and the photo whose lock the next statement of a   *)
(* request takes; it waits while another open transaction holds one.       *)

NeededFlags(r) ==
    CASE req[r].pc \in {"lock_flags", "action_resolve"} -> req[r].flags
      [] req[r].pc = "dismiss_commit" -> {call[r].flag}
      [] req[r].pc = "cascade" -> FlagsOf(req[r].photo)
      [] OTHER -> {}

NeedsPhoto(r) ==
    \/ req[r].pc \in {"lock_photo", "flag_commit"}
    \/ req[r].pc = "patch_commit" /\ call[r].caption # req[r].row.caption

PhotoLocked(p) == \E o \in Request : req[o].heldPhoto /\ req[o].photo = p

WaitsFor(r, o) ==
    /\ o # r
    /\ \/ NeededFlags(r) \cap req[o].heldFlags # {}
       \/ NeedsPhoto(r) /\ req[o].heldPhoto /\ req[o].photo = req[r].photo

Unblocked(r) == \A o \in Request : ~WaitsFor(r, o)

---------------------------------------------------------------------------
(* A worker: idle, or at a step of the task whose message it holds         *)
(* unacknowledged, with the row the task loaded.                           *)

WorkerStep == {"idle", "ack",
               "thumb_processing", "thumb_open", "thumb_save", "thumb_ready",
               "thumb_failed", "thumb_invalidate",
               "thumb_pending", "thumb_pending_invalidate", "thumb_retry",
               "note_send", "note_sent", "note_failed", "note_retry"}

WorkerState == [pc : WorkerStep, msg : Message \cup {None},
                status : Status \cup {"sent", "none"}, attempts : Nat]

IdleWorker == [pc |-> "idle", msg |-> None, status |-> "none", attempts |-> 0]

WGoto(w, step) == wk' = [wk EXCEPT ![w].pc = step]

---------------------------------------------------------------------------
(* Runs start after the uploads in Seeds were answered 201: the original   *)
(* is on disk and the thumbnail is ready within the tries of one delivery, *)
(* or pending and not yet tried with its message still queued.             *)

Init ==
    /\ photos = [p \in 1..Len(Seeds) |-> Seeds[p].row]
    /\ lastId = Len(Seeds)
    /\ flags = [f \in SeedFlags |-> "pending"]
    /\ audit = {}
    /\ outbox = <<>>
    /\ files = [p \in PhotoId |->
                  IF p > Len(Seeds) THEN {}
                  ELSE {Seeds[p].image} \cup
                       (IF Seeds[p].row.status = "ready" THEN {"thumb"} ELSE {})]
    /\ cache = <<>>
    /\ queue = [m \in {[photo |-> p, retries |-> 0] :
                         p \in {q \in 1..Len(Seeds) : Seeds[q].row.status = "pending"}} |-> 1]
    /\ mails = EmptyBag
    /\ call \in [Request -> Calls]
    /\ req = [r \in Request |-> Fresh(call[r])]
    /\ wk = [w \in Worker |-> IdleWorker]
    /\ spent = [k \in Fault |-> 0]
=============================================================================
