------------------------------- MODULE Photos -------------------------------
(***************************************************************************)
(* The photo endpoints: app/api/routes/photos.py over                      *)
(* app/services/photo_service.py.                                          *)
(***************************************************************************)
EXTENDS Store

---------------------------------------------------------------------------
(* POST /photos: INSERT inside a transaction, blob, COMMIT, refresh, then  *)
(* the thumbnail job.                                                      *)

UploadReject(r) ==
    /\ req[r].pc = "upload"
    /\ call[r].image \notin Image
    /\ Answer(r, IF call[r].image = "too_large" THEN 413 ELSE 400)
    /\ UNCHANGED <<shared, call, wk>>

(* The flush assigns the id; the row stays invisible until the commit. *)
UploadFlush(r) ==
    /\ req[r].pc = "upload"
    /\ call[r].image \in Image
    /\ lastId < MaxPhotos
    /\ lastId' = lastId + 1
    /\ req' = [req EXCEPT ![r].pc = "upload_write", ![r].photo = lastId + 1]
    /\ UNCHANGED <<photos, flags, audit, outbox, files, cache, queue, mails,
                   call, wk, spent>>

UploadWrite(r) ==
    /\ req[r].pc = "upload_write"
    /\ files' = [files EXCEPT ![req[r].photo] = @ \cup {call[r].image}]
    /\ Goto(r, "upload_commit")
    /\ UNCHANGED <<database, cache, queue, mails, call, wk, spent>>

(* Mutant: the write error is swallowed and the row committed. *)
UploadWriteErrorIgnored(r) ==
    /\ req[r].pc = "upload_write"
    /\ Spend("disk")
    /\ Goto(r, "upload_commit")
    /\ UNCHANGED <<database, files, cache, queue, mails, call, wk>>

(* write_bytes raises OSError, having written part of the file or nothing. *)
UploadWriteFails(r) ==
    /\ req[r].pc = "upload_write"
    /\ Spend("disk")
    /\ \E left \in {{}, {"truncated"}} :
          files' = [files EXCEPT ![req[r].photo] = @ \cup left]
    /\ Answer(r, 500)
    /\ UNCHANGED <<database, cache, queue, mails, call, wk>>

UploadCommit(r) ==
    /\ req[r].pc = "upload_commit"
    /\ photos' = Put(photos, req[r].photo,
                     [owner |-> call[r].user, caption |-> call[r].caption,
                      status |-> "pending", attempts |-> 0])
    /\ Goto(r, "upload_refresh")
    /\ UNCHANGED <<lastId, flags, audit, outbox, files, cache, queue, mails,
                   call, wk, spent>>

(* db.refresh of a row deleted since raises InvalidRequestError. *)
UploadRefresh(r) ==
    /\ req[r].pc = "upload_refresh"
    /\ IF req[r].photo \in DOMAIN photos THEN Goto(r, "upload_enqueue")
                                         ELSE Answer(r, 500)
    /\ UNCHANGED <<shared, call, wk>>

UploadEnqueue(r) ==
    /\ req[r].pc = "upload_enqueue"
    /\ Publish([photo |-> req[r].photo, retries |-> 0])
    /\ Answer(r, 201)
    /\ UNCHANGED <<database, files, cache, mails, call, wk, spent>>

UploadEnqueueFails(r) ==
    /\ req[r].pc = "upload_enqueue"
    /\ Spend("broker")
    /\ Answer(r, 500)
    /\ UNCHANGED <<database, files, cache, queue, mails, call, wk>>

---------------------------------------------------------------------------
(* _load and its owner check, shared by every endpoint on one photo: the   *)
(* photo is selected first, its thumbnail by a second SELECT.              *)

LoadPhoto(r) ==
    /\ req[r].pc = "load_photo"
    /\ LET p == req[r].photo IN
       IF p \in DOMAIN photos /\ photos[p].owner = call[r].user
       THEN req' = [req EXCEPT ![r].pc = "load_thumb",
                               ![r].row = [photos[p] EXCEPT !.status = "none",
                                                            !.attempts = 0]]
       ELSE Answer(r, 404)
    /\ UNCHANGED <<shared, call, wk>>

AfterLoad == [get |-> "get_fill", patch |-> "patch_commit",
              delete |-> "delete_flags", thumb |-> "thumb_send",
              file |-> "file_send", thumb_file |-> "thumb_file_send",
              flag |-> "flag_commit"]

LoadThumb(r) ==
    /\ req[r].pc = "load_thumb"
    /\ LET p == req[r].photo IN
       IF p \in DOMAIN photos
       THEN req' = [req EXCEPT ![r].pc = AfterLoad[call[r].op],
                               ![r].row = [@ EXCEPT !.status = photos[p].status,
                                                    !.attempts = photos[p].attempts]]
       ELSE Goto(r, AfterLoad[call[r].op])
    /\ UNCHANGED <<shared, call, wk>>

---------------------------------------------------------------------------
(* GET /photos/{id}: cache-aside.                                          *)

GetCached(r) ==
    /\ req[r].pc = "get"
    /\ LET p == req[r].photo IN
       IF p \notin DOMAIN cache THEN Goto(r, "load_photo")
       ELSE IF cache[p].view.owner = call[r].user
            THEN AnswerWith(r, 200, cache[p].view)
            ELSE Answer(r, 404)
    /\ UNCHANGED <<shared, call, wk>>

(* A Redis error on the lookup counts as a miss. *)
GetCacheDown(r) ==
    /\ req[r].pc = "get"
    /\ Spend("cache")
    /\ Goto(r, "load_photo")
    /\ UNCHANGED <<database, files, cache, queue, mails, call, wk>>

(* "overtaken" is history, not data in Redis: the row had already changed  *)
(* when the view read from it was stored, or an action that invalidated    *)
(* the key was about to commit its removal.                                *)
Overtaken(p, view) ==
    \/ p \notin DOMAIN photos \/ photos[p] # view
    \/ \E r \in Request : req[r].pc = "action_commit" /\ req[r].photo = p

GetFill(r) ==
    /\ req[r].pc = "get_fill"
    /\ LET p == req[r].photo
           v == req[r].row
       IN  /\ \/ /\ cache' = Put(cache, p, [view |-> v,
                                            overtaken |-> Overtaken(p, v)])
                 /\ UNCHANGED spent
              \/ Spend("cache") /\ UNCHANGED cache
           /\ AnswerWith(r, 200, v)
    /\ UNCHANGED <<database, files, queue, mails, call, wk>>

---------------------------------------------------------------------------
(* PATCH /photos/{id}.                                                     *)

(* The unit of work emits an UPDATE only for a caption that differs from   *)
(* the one loaded; an UPDATE that matches no row is StaleDataError.        *)
PatchCommit(r) ==
    /\ req[r].pc = "patch_commit"
    /\ Unblocked(r)
    /\ LET p == req[r].photo IN
       \/ /\ ~NeedsPhoto(r)
          /\ Goto(r, "patch_refresh")
          /\ UNCHANGED photos
       \/ /\ NeedsPhoto(r) /\ p \in DOMAIN photos
          /\ photos' = [photos EXCEPT ![p].caption = call[r].caption]
          /\ Goto(r, "patch_refresh")
       \/ /\ NeedsPhoto(r) /\ p \notin DOMAIN photos
          /\ Answer(r, 500)
          /\ UNCHANGED photos
    /\ UNCHANGED <<lastId, flags, audit, outbox, files, cache, queue, mails,
                   call, wk, spent>>

PatchRefresh(r) ==
    /\ req[r].pc = "patch_refresh"
    /\ IF req[r].photo \in DOMAIN photos THEN Goto(r, "patch_invalidate")
                                         ELSE Answer(r, 500)
    /\ UNCHANGED <<shared, call, wk>>

PatchInvalidate(r) ==
    /\ req[r].pc = "patch_invalidate"
    /\ CacheDelete(req[r].photo)
    /\ Answer(r, 200)
    /\ UNCHANGED <<database, files, queue, mails, call, wk>>

---------------------------------------------------------------------------
(* DELETE /photos/{id}. The unit of work deletes the flags it loaded, then *)
(* the photo; flags inserted in between go by ON DELETE CASCADE.           *)

DeleteFlags(r) ==
    /\ req[r].pc = "delete_flags"
    /\ req' = [req EXCEPT ![r].pc = "lock_flags",
                          ![r].flags = FlagsOf(req[r].photo)]
    /\ UNCHANGED <<shared, call, wk>>

(* A DELETE that matches no row is only a warning. *)
LockFlags(r) ==
    /\ req[r].pc = "lock_flags"
    /\ Unblocked(r)
    /\ req' = [req EXCEPT ![r].pc = "lock_photo",
                          ![r].heldFlags = @ \cup (req[r].flags \cap DOMAIN flags)]
    /\ UNCHANGED <<shared, call, wk>>

LockPhoto(r) ==
    /\ req[r].pc = "lock_photo"
    /\ Unblocked(r)
    /\ req' = [req EXCEPT ![r].pc = "cascade",
                          ![r].heldPhoto = req[r].photo \in DOMAIN photos]
    /\ UNCHANGED <<shared, call, wk>>

(* Mutant: the blobs stay. *)
DeleteRowsOnly(r) ==
    /\ req[r].pc = "cascade"
    /\ call[r].op = "delete"
    /\ Unblocked(r)
    /\ photos' = Drop(photos, {req[r].photo})
    /\ flags' = Drop(flags, FlagsOf(req[r].photo))
    /\ req' = [req EXCEPT ![r] = [@ EXCEPT !.pc = "delete_invalidate",
                                  !.heldFlags = {}, !.heldPhoto = FALSE]]
    /\ UNCHANGED <<lastId, audit, outbox, files, cache, queue, mails, call, wk,
                   spent>>

DeleteCommit(r) ==
    /\ req[r].pc = "cascade"
    /\ call[r].op = "delete"
    /\ Unblocked(r)
    /\ photos' = Drop(photos, {req[r].photo})
    /\ flags' = Drop(flags, FlagsOf(req[r].photo))
    /\ req' = [req EXCEPT ![r] = [@ EXCEPT !.pc = "delete_files",
                                  !.heldFlags = {}, !.heldPhoto = FALSE]]
    /\ UNCHANGED <<lastId, audit, outbox, files, cache, queue, mails, call, wk,
                   spent>>

DeleteFiles(r) ==
    /\ req[r].pc = "delete_files"
    /\ DeletePhotoFiles(req[r].photo)
    /\ Goto(r, "delete_invalidate")
    /\ UNCHANGED <<database, cache, queue, mails, call, wk>>

DeleteInvalidate(r) ==
    /\ req[r].pc = "delete_invalidate"
    /\ CacheDelete(req[r].photo)
    /\ Answer(r, 204)
    /\ UNCHANGED <<database, files, queue, mails, call, wk>>

---------------------------------------------------------------------------
(* GET /photos/{id}/thumbnail, /file and /thumbnail/file. FileResponse     *)
(* looks at the file after the handler has returned.                       *)

Served(r, blobs) == IF files[req[r].photo] \cap blobs # {} THEN 200 ELSE 500

ThumbSend(r) ==
    /\ req[r].pc = "thumb_send"
    /\ Answer(r, IF req[r].row.status = "none" THEN 500 ELSE 200)
    /\ UNCHANGED <<shared, call, wk>>

FileSend(r) ==
    /\ req[r].pc = "file_send"
    /\ Answer(r, Served(r, Image))
    /\ UNCHANGED <<shared, call, wk>>

(* Mutant: the file is sent without looking at the status. *)
ThumbFileSendUnchecked(r) ==
    /\ req[r].pc = "thumb_file_send"
    /\ Answer(r, Served(r, {"thumb"}))
    /\ UNCHANGED <<shared, call, wk>>

ThumbFileSend(r) ==
    /\ req[r].pc = "thumb_file_send"
    /\ Answer(r, CASE req[r].row.status = "none"  -> 500
                   [] req[r].row.status = "ready" -> Served(r, {"thumb"})
                   [] OTHER -> 409)
    /\ UNCHANGED <<shared, call, wk>>

PhotoStep(r) ==
    \/ UploadReject(r) \/ UploadFlush(r) \/ UploadWrite(r)
    \/ UploadWriteFails(r) \/ UploadCommit(r) \/ UploadRefresh(r)
    \/ UploadEnqueue(r) \/ UploadEnqueueFails(r)
    \/ LoadPhoto(r) \/ LoadThumb(r)
    \/ GetCached(r) \/ GetCacheDown(r) \/ GetFill(r)
    \/ PatchCommit(r) \/ PatchRefresh(r) \/ PatchInvalidate(r)
    \/ DeleteFlags(r) \/ LockFlags(r) \/ LockPhoto(r) \/ DeleteCommit(r)
    \/ DeleteFiles(r) \/ DeleteInvalidate(r)
    \/ ThumbSend(r) \/ FileSend(r) \/ ThumbFileSend(r)
=============================================================================
