------------------------------- MODULE Tasks -------------------------------
(***************************************************************************)
(* The Celery workers: app/workers/tasks.py under the at-least-once        *)
(* settings of app/workers/celery_app.py (task_acks_late,                  *)
(* task_reject_on_worker_lost). A message stays with the broker, invisible,*)
(* until the task that holds it returns or raises.                         *)
(***************************************************************************)
EXTENDS Store

(* The photo of a worker's thumbnail job. *)
JobPhoto(w) == wk[w].msg.photo
JobNote(w)  == wk[w].msg.note

---------------------------------------------------------------------------
(* generate_thumbnail.                                                     *)

(* The worker takes a message and the task loads its row. A vanished photo *)
(* ends the task.                                                          *)
TakeThumb(w) ==
    /\ wk[w].pc = "idle"
    /\ \E m \in DOMAIN queue \cap ThumbMessage :
          /\ queue' = BagRemove(queue, m)
          /\ wk' = [wk EXCEPT ![w] =
                      IF m.photo \in DOMAIN photos
                      THEN [pc |-> "thumb_processing", msg |-> m,
                            status |-> photos[m.photo].status,
                            attempts |-> photos[m.photo].attempts]
                      ELSE [IdleWorker EXCEPT !.pc = "ack", !.msg = m]]
    /\ UNCHANGED <<database, files, cache, mails, call, req, spent>>

(* An UPDATE of the thumbnail in a transaction of its own, behind any      *)
(* transaction deleting the photo. If the row is gone StaleDataError       *)
(* escapes the task, which ends without a retry.                           *)
UpdateThumb(w, row, next) ==
    /\ ~PhotoLocked(JobPhoto(w))
    /\ IF JobPhoto(w) \in DOMAIN photos
       THEN photos' = [photos EXCEPT ![JobPhoto(w)] = row] /\ WGoto(w, next)
       ELSE UNCHANGED photos /\ WGoto(w, "ack")
    /\ UNCHANGED <<lastId, flags, audit, outbox, files, cache, queue, mails,
                   call, req, spent>>

UpdateStatus(w, status, next) ==
    UpdateThumb(w, [photos[JobPhoto(w)] EXCEPT !.status = status], next)

(* The UPDATE writes status only if the task loaded another one, and       *)
(* attempts as the value loaded plus one. The cache keeps its entry.       *)
ThumbProcessing(w) ==
    /\ wk[w].pc = "thumb_processing"
    /\ UpdateThumb(w,
         [photos[JobPhoto(w)] EXCEPT
            !.status = IF wk[w].status = "processing" THEN @ ELSE "processing",
            !.attempts = wk[w].attempts + 1],
         "thumb_open")

(* Mutant: "ready" is committed before the thumbnail is saved. *)
ThumbOpenOnly(w) ==
    /\ wk[w].pc = "thumb_open"
    /\ WGoto(w, IF ~HasOriginal(JobPhoto(w)) THEN "thumb_failed"
                ELSE IF "good" \in files[JobPhoto(w)] THEN "thumb_ready"
                ELSE "thumb_pending")
    /\ UNCHANGED <<shared, call, req>>

(* make_thumbnail reads the original: gone is a permanent error, truncated *)
(* an OSError and so taken for a transient one.                            *)
ThumbOpen(w) ==
    /\ wk[w].pc = "thumb_open"
    /\ WGoto(w, IF ~HasOriginal(JobPhoto(w)) THEN "thumb_failed"
                ELSE IF "good" \in files[JobPhoto(w)] THEN "thumb_save"
                ELSE "thumb_pending")
    /\ UNCHANGED <<shared, call, req>>

(* make_thumbnail recreates the directory if it is gone. *)
ThumbSave(w) ==
    /\ wk[w].pc = "thumb_save"
    /\ files' = [files EXCEPT ![JobPhoto(w)] = @ \cup {"thumb"}]
    /\ WGoto(w, "thumb_ready")
    /\ UNCHANGED <<database, cache, queue, mails, call, req, spent>>

ThumbSaveFails(w) ==
    /\ wk[w].pc = "thumb_save"
    /\ Spend("disk")
    /\ WGoto(w, "thumb_pending")
    /\ UNCHANGED <<database, files, cache, queue, mails, call, req>>

ThumbReady(w) ==
    wk[w].pc = "thumb_ready" /\ UpdateStatus(w, "ready", "thumb_invalidate")

(* A permanent error, or the retry budget spent. *)
ThumbFailed(w) ==
    wk[w].pc = "thumb_failed" /\ UpdateStatus(w, "failed", "thumb_invalidate")

ThumbPending(w) ==
    /\ wk[w].pc = "thumb_pending"
    /\ UpdateStatus(w, "pending", "thumb_pending_invalidate")

ThumbInvalidate(w) ==
    /\ wk[w].pc = "thumb_invalidate"
    /\ CacheDelete(JobPhoto(w))
    /\ WGoto(w, "ack")
    /\ UNCHANGED <<database, files, queue, mails, call, req>>

(* Mutant: one retry too many. *)
ThumbPendingOneMore(w) ==
    /\ wk[w].pc = "thumb_pending_invalidate"
    /\ CacheDelete(JobPhoto(w))
    /\ WGoto(w, IF wk[w].msg.retries > ThumbnailMaxRetries
                THEN "thumb_failed" ELSE "thumb_retry")
    /\ UNCHANGED <<database, files, queue, mails, call, req>>

ThumbPendingInvalidate(w) ==
    /\ wk[w].pc = "thumb_pending_invalidate"
    /\ CacheDelete(JobPhoto(w))
    /\ WGoto(w, IF wk[w].msg.retries >= ThumbnailMaxRetries
                THEN "thumb_failed" ELSE "thumb_retry")
    /\ UNCHANGED <<database, files, queue, mails, call, req>>

---------------------------------------------------------------------------
(* self.retry publishes the successor message; the one held is then        *)
(* acknowledged. A publish that fails rejects the message without requeue. *)

(* Mutant: the successor starts with a fresh retry budget. *)
RetryFresh(w) ==
    /\ wk[w].pc \in {"thumb_retry", "note_retry"}
    /\ Publish(wk[w].msg)
    /\ WGoto(w, "ack")
    /\ UNCHANGED <<database, files, cache, mails, call, req, spent>>

(* Mutant: the task ends where it should retry. *)
RetryNever(w) ==
    /\ wk[w].pc \in {"thumb_retry", "note_retry"}
    /\ WGoto(w, "ack")
    /\ UNCHANGED <<shared, call, req>>

Retry(w) ==
    /\ wk[w].pc \in {"thumb_retry", "note_retry"}
    /\ \/ Publish([wk[w].msg EXCEPT !.retries = @ + 1]) /\ UNCHANGED spent
       \/ Spend("broker") /\ UNCHANGED queue
    /\ WGoto(w, "ack")
    /\ UNCHANGED <<database, files, cache, mails, call, req>>

Ack(w) ==
    /\ wk[w].pc = "ack"
    /\ wk' = [wk EXCEPT ![w] = IdleWorker]
    /\ UNCHANGED <<shared, call, req>>

---------------------------------------------------------------------------
(* deliver_notification over notification_service.deliver.                 *)

(* Mutant: a row already sent is delivered again. *)
TakeAnyNote(w) ==
    /\ wk[w].pc = "idle"
    /\ \E m \in DOMAIN queue \cap NoteMessage :
          /\ queue' = BagRemove(queue, m)
          /\ wk' = [wk EXCEPT ![w] = [pc |-> "note_send", msg |-> m,
                                      status |-> outbox[m.note].status,
                                      attempts |-> outbox[m.note].attempts]]
    /\ UNCHANGED <<database, files, cache, mails, call, req, spent>>

(* A row already sent ends the task, and so would one that is gone. *)
TakeNote(w) ==
    /\ wk[w].pc = "idle"
    /\ \E m \in DOMAIN queue \cap NoteMessage :
          /\ queue' = BagRemove(queue, m)
          /\ wk' = [wk EXCEPT ![w] =
                      IF m.note \in DOMAIN outbox /\ outbox[m.note].status # "sent"
                      THEN [pc |-> "note_send", msg |-> m,
                            status |-> outbox[m.note].status,
                            attempts |-> outbox[m.note].attempts]
                      ELSE [IdleWorker EXCEPT !.pc = "ack", !.msg = m]]
    /\ UNCHANGED <<database, files, cache, mails, call, req, spent>>

NoteSend(w) ==
    /\ wk[w].pc = "note_send"
    /\ mails' = BagAdd(mails, JobNote(w))
    /\ WGoto(w, "note_sent")
    /\ UNCHANGED <<database, files, cache, queue, call, req, spent>>

(* NotificationDeliveryError. *)
NoteSendFails(w) ==
    /\ wk[w].pc = "note_send"
    /\ Spend("mail")
    /\ WGoto(w, "note_failed")
    /\ UNCHANGED <<database, files, cache, queue, mails, call, req>>

(* mkdir of the mail directory is outside the try: its OSError escapes the *)
(* task, which ends with nothing recorded and no retry.                    *)
NoteMailDirFails(w) ==
    /\ wk[w].pc = "note_send"
    /\ Spend("maildir")
    /\ WGoto(w, "ack")
    /\ UNCHANGED <<database, files, cache, queue, mails, call, req>>

(* As with thumbnails: status is written only if the task loaded another   *)
(* one, attempts as the value loaded plus one.                             *)
UpdateNote(w, status, next) ==
    /\ outbox' = [outbox EXCEPT ![JobNote(w)] =
                    [status |-> IF wk[w].status = status THEN @.status ELSE status,
                     attempts |-> wk[w].attempts + 1]]
    /\ WGoto(w, next)
    /\ UNCHANGED <<photos, lastId, flags, audit, files, cache, queue, mails,
                   call, req, spent>>

NoteSent(w) == wk[w].pc = "note_sent" /\ UpdateNote(w, "sent", "ack")

(* Mutant: every failure is final. *)
NoteFailedForGood(w) ==
    wk[w].pc = "note_failed" /\ UpdateNote(w, "failed", "ack")

(* Mutant: the failure is not recorded. *)
NoteFailedUnrecorded(w) ==
    /\ wk[w].pc = "note_failed"
    /\ WGoto(w, IF wk[w].msg.retries >= NotificationMaxRetries
                THEN "ack" ELSE "note_retry")
    /\ UNCHANGED <<shared, call, req>>

NoteFailed(w) ==
    /\ wk[w].pc = "note_failed"
    /\ UpdateNote(w, "failed",
                  IF wk[w].msg.retries >= NotificationMaxRetries
                  THEN "ack" ELSE "note_retry")

---------------------------------------------------------------------------
(* The worker process dies, or the broker takes the worker for dead: the   *)
(* unacknowledged message becomes visible again.                           *)

(* Mutant: messages are acknowledged when taken. *)
WorkerCrashEarlyAck(w) ==
    /\ wk[w].pc # "idle"
    /\ Spend("worker_crash")
    /\ wk' = [wk EXCEPT ![w] = IdleWorker]
    /\ UNCHANGED <<database, files, cache, queue, mails, call, req>>

WorkerCrash(w) ==
    /\ wk[w].pc # "idle"
    /\ Spend("worker_crash")
    /\ Publish(wk[w].msg)
    /\ wk' = [wk EXCEPT ![w] = IdleWorker]
    /\ UNCHANGED <<database, files, cache, mails, call, req>>

Redeliver(w) ==
    /\ wk[w].pc # "idle"
    /\ Spend("redeliver")
    /\ Publish(wk[w].msg)
    /\ UNCHANGED <<database, files, cache, mails, call, req, wk>>

(* A database error at any statement escapes both tasks: no retry. *)
WorkerDbError(w) ==
    /\ wk[w].pc \in {"thumb_processing", "thumb_ready", "thumb_failed",
                     "thumb_pending", "note_send", "note_sent", "note_failed"}
    /\ Spend("db")
    /\ WGoto(w, "ack")
    /\ UNCHANGED <<database, files, cache, queue, mails, call, req>>

WorkerTurn(w) ==
    \/ TakeThumb(w) \/ ThumbProcessing(w) \/ ThumbOpen(w)
    \/ ThumbSave(w) \/ ThumbSaveFails(w)
    \/ ThumbReady(w) \/ ThumbFailed(w) \/ ThumbPending(w)
    \/ ThumbInvalidate(w) \/ ThumbPendingInvalidate(w)
    \/ TakeNote(w) \/ NoteSend(w) \/ NoteSendFails(w) \/ NoteMailDirFails(w)
    \/ NoteSent(w) \/ NoteFailed(w)
    \/ Retry(w) \/ Ack(w)
=============================================================================
