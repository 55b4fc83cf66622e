----------------------------- MODULE Properties -----------------------------
(***************************************************************************)
(* What the system is meant to guarantee.                                  *)
(***************************************************************************)
EXTENDS SnapTrack

(* None of these kinds of fault has occurred: the condition under which a  *)
(* promise is made that the code does not keep when they do.               *)
Never(kinds) == \A k \in kinds : spent[k] = 0

(* Type correctness of the tables, the stores and the actors' memories. *)
TablesOK ==
    /\ DOMAIN photos \subseteq 1..lastId
    /\ \A p \in DOMAIN photos : photos[p] \in Photo
    /\ lastId \in 0..MaxPhotos
    /\ flags \in [DOMAIN flags -> {"pending", "dismissed"}]
    /\ DOMAIN flags \subseteq FlagId
    /\ audit \subseteq Audit
    /\ DOMAIN outbox \subseteq NoteId
    /\ \A n \in DOMAIN outbox : outbox[n] \in Note

StoresOK ==
    /\ files \in [PhotoId -> SUBSET Blob]
    /\ DOMAIN cache \subseteq PhotoId
    /\ \A p \in DOMAIN cache :
          cache[p] \in [view : View, overtaken : BOOLEAN]
    /\ IsABag(queue) /\ DOMAIN queue \subseteq Message
    /\ IsABag(mails) /\ DOMAIN mails \subseteq NoteId
    /\ spent \in [Fault -> Nat]

ActorsOK ==
    /\ call \in [Request -> Call]
    /\ req \in [Request -> ReqState]
    /\ wk \in [Worker -> WorkerState]

TypeOK == TablesOK /\ StoresOK /\ ActorsOK

---------------------------------------------------------------------------
(* Row locks and what decide relies on.                                    *)

(* A flag never outlives its photo: deletions cascade, and create_flag     *)
(* racing a deletion answers 409 instead of leaving an orphan flag.        *)
FlagsHavePhotos == \A f \in DOMAIN flags : f[1] \in DOMAIN photos

(* What is left of the comment at moderation_service.py:119: an action     *)
(* that did lock a pending flag finds the flagged photo.                   *)
LockedFlagKeepsPhoto ==
    \A r \in Request :
        req[r].pc = "action_photo" /\ req[r].notes # {}
            => req[r].photo \in DOMAIN photos

---------------------------------------------------------------------------
(* Decisions, their audit rows and their outbox rows.                      *)

(* The flag's reporter has been told what became of it. *)
Told(f) == \E n \in DOMAIN outbox : n[2] = f

(* A decision answered 200 is on record; its flag is resolved or gone and  *)
(* never pending again; a dismissal has a notice of its own in the outbox, *)
(* an action has removed the photo for good; and whichever decision came   *)
(* first, the reporter has a notice: when the owner's deletion or another  *)
(* decision comes in between as well.                                      *)
AnsweredDecisionStands ==
    \A r \in Request :
        call[r].op \in Decision /\ req[r].reply = 200 =>
            /\ AuditRow(r) \in audit
            /\ call[r].flag \in DOMAIN flags => flags[call[r].flag] = "dismissed"
            /\ Told(call[r].flag)
            /\ IF call[r].op = "dismiss"
               THEN <<r, call[r].flag>> \in DOMAIN outbox
               ELSE req[r].photo \notin DOMAIN photos

---------------------------------------------------------------------------
(* Blobs and rows.                                                         *)

(* An action decision deletes the blobs while its transaction is open; if  *)
(* it then fails or dies, the photo stays, without its blobs.              *)
ActionHasRemovedFiles(p) ==
    \E r \in Request :
        /\ call[r].op = "action" /\ req[r].photo = p
        /\ \/ req[r].pc \in {"action_invalidate", "action_commit"}
           \/ req[r].pc = "crashed"
           \/ req[r].pc = "done" /\ req[r].reply = 500

(* A visible photo has its original on disk: the upload writes the blob    *)
(* before it commits the row and the deletion removes the row before the   *)
(* blob. The one exception is an action decision, which removes the blob   *)
(* first.                                                                  *)
OriginalOnDisk ==
    \A p \in DOMAIN photos : HasOriginal(p) \/ ActionHasRemovedFiles(p)

(* "ready" is committed after the thumbnail is written, so that whoever    *)
(* reads "ready" finds the file.                                           *)
ReadyThumbOnDisk ==
    \A p \in DOMAIN photos :
        photos[p].status = "ready" =>
            "thumb" \in files[p] \/ ActionHasRemovedFiles(p)

(* No original is left behind: once a visible photo is gone its original   *)
(* stays only while the request that removed it is on its way to delete it.*)
(* Uploads and removals that failed or died may leave one.                 *)
RemovedOriginalGone ==
    Never({"rmtree", "db"}) =>
    \A p \in (1..lastId) \ DOMAIN photos :
        HasOriginal(p) =>
            \E r \in Request :
                /\ req[r].photo = p
                /\ \/ req[r].pc \in {"upload_commit", "delete_files", "crashed"}
                   \/ call[r].op = "upload" /\ req[r].reply = 500

(* Serving a blob of a photo the requester could see fails only because    *)
(* the photo is being removed underneath it.                               *)
ServingFailsOnlyOnRemoval ==
    Never({"db"}) =>
    \A r \in Request :
        call[r].op \in {"thumb", "file", "thumb_file"} /\ req[r].reply = 500 =>
            \/ req[r].photo \notin DOMAIN photos
            \/ ActionHasRemovedFiles(req[r].photo)

---------------------------------------------------------------------------
(* The thumbnail pipeline.                                                 *)

Lost == spent["worker_crash"] + spent["redeliver"]

ThumbJobExists(p) ==
    \/ \E m \in DOMAIN queue \cap ThumbMessage : m.photo = p
    \/ \E w \in Worker : wk[w].msg \in ThumbMessage /\ wk[w].msg.photo = p

(* A photo whose thumbnail is still pending or processing has a job: in    *)
(* the queue, or held unacknowledged by a worker, or about to be enqueued, *)
(* unless the upload itself failed after its commit. Holds across worker   *)
(* crashes and redeliveries.                                               *)
NoStrandedThumbnail ==
    Never({"db", "broker"}) =>
    \A p \in DOMAIN photos :
        photos[p].status \in {"pending", "processing"} =>
            \/ ThumbJobExists(p)
            \/ \E r \in Request :
                  /\ call[r].op = "upload" /\ req[r].photo = p
                  /\ \/ req[r].pc \in {"upload_refresh", "upload_enqueue", "crashed"}
                     \/ req[r].reply = 500

(* The retry budget: a job is attempted at most ThumbnailMaxRetries + 1    *)
(* times, and each crash or redelivery grants at most one more round.      *)
AttemptsWithinBudget ==
    \A p \in DOMAIN photos :
        photos[p].attempts <= (ThumbnailMaxRetries + 1) * (1 + Lost)

---------------------------------------------------------------------------
(* Notification delivery.                                                  *)

(* Jobs are enqueued only after the commit that creates their row, so the  *)
(* worker never finds the row missing.                                     *)
NoteJobHasRow ==
    /\ \A m \in DOMAIN queue \cap NoteMessage : m.note \in DOMAIN outbox
    /\ \A w \in Worker :
          wk[w].msg \in NoteMessage => wk[w].msg.note \in DOMAIN outbox

(* Delivery is at most once per delivery of the message: a reporter gets a *)
(* second copy only if a worker crashed or a message was redelivered.      *)
MailedWithinDeliveries ==
    \A n \in DOMAIN mails : mails[n] <= 1 + Lost

(* Once a row is "sent" no worker is about to mail it again: a crash       *)
(* between the commit and the acknowledgement is harmless.                 *)
SentNotMailedAgain ==
    Never({"redeliver", "mail"}) =>
    \A w \in Worker :
        wk[w].pc = "note_send" => outbox[JobNote(w)].status # "sent"

NoteJobExists(n) ==
    \/ \E m \in DOMAIN queue \cap NoteMessage : m.note = n
    \/ \E w \in Worker : wk[w].msg \in NoteMessage /\ wk[w].msg.note = n

(* An outbox row not yet sent is going to be tried (again), or failed with *)
(* its retries used up, or its decision never got to dispatch it. Under    *)
(* duplicated messages two workers overwrite each other's attempts, so the *)
(* count proves nothing there.                                             *)
NoStrandedNote ==
    Never({"db", "broker", "maildir"}) =>
    \A n \in DOMAIN outbox :
        outbox[n].status # "sent" =>
            \/ NoteJobExists(n)
            \/ /\ outbox[n].status = "failed"
               /\ outbox[n].attempts > NotificationMaxRetries \/ Lost > 0
            \/ req[n[1]].pc \in {"decide_refresh", "dispatch", "crashed"}
            \/ req[n[1]].reply = 500

---------------------------------------------------------------------------
(* The cache.                                                              *)

(* Someone who changed the row of p still has to invalidate its key. *)
InvalidationPending(p) ==
    \/ \E r \in Request :
          /\ req[r].photo = p
          /\ req[r].pc \in {"patch_refresh", "patch_invalidate",
                            "delete_files", "delete_invalidate"}
    \/ \E w \in Worker : /\ wk[w].msg \in ThumbMessage /\ JobPhoto(w) = p
                         /\ wk[w].pc # "ack"
    \/ \E m \in DOMAIN queue \cap ThumbMessage : m.photo = p

(* A cached photo that differs from its row is explained: the entry was    *)
(* overtaken while it was being filled, by a change of the row or by an    *)
(* action whose invalidation precedes its commit, or whoever changed the   *)
(* row has still to invalidate the key. An entry that was there before a   *)
(* write outlives no write, removals by a moderator included.              *)
StaleEntryExplained ==
    Never({"api_crash", "db", "cache"}) =>
    \A p \in DOMAIN cache :
        \/ p \in DOMAIN photos /\ cache[p].view = photos[p]
        \/ cache[p].overtaken
        \/ InvalidationPending(p)

---------------------------------------------------------------------------
(* Liveness.                                                               *)

(* Every request is answered: no wait for a row lock lasts forever, since  *)
(* PostgreSQL breaks the cycles the two deletion paths can form.           *)
RequestsTerminate ==
    \A r \in Request : <>(req[r].pc \in {"done", "crashed"})

(* In the end every thumbnail is ready or failed for good: whatever became *)
(* of its jobs, none of them leaves the row "pending" or "processing".     *)
(* (A process that dies between the commit of an upload and its enqueuing  *)
(* leaves "pending", as a broker that refuses the job does.)               *)
ThumbnailsSettle ==
    <>[](Never({"api_crash", "db", "broker"}) =>
            \A p \in DOMAIN photos : photos[p].status \in {"ready", "failed"})

NoteStatus(n) == IF n \in DOMAIN outbox THEN outbox[n].status ELSE "none"

NoteSettled(n) ==
    \/ outbox[n].status = "sent"
    \/ outbox[n].status = "failed" /\ ~NoteJobExists(n)

(* The notifications of a decision answered 200 end up sent, or failed     *)
(* with the task having given up.                                          *)
NotesSettle ==
    <>[](Never({"db", "broker", "maildir"}) =>
            \A n \in DOMAIN outbox : req[n[1]].reply = 200 => NoteSettled(n))

---------------------------------------------------------------------------
(* What the repository's texts say and the code does not do.               *)

(* docs/moderation-feature.md:49: a flag already resolved is 409, so no    *)
(* flag is decided twice.                                                  *)
FlagDecidedOnce ==
    \A a, b \in audit : a.flag = b.flag => a = b

(* moderation_service.py:119: the photo of a pending flag is never None.   *)
ActionFindsPhoto ==
    \A r \in Request :
        req[r].pc = "action_photo" => req[r].photo \in DOMAIN photos

(* README.md:171-173: a decision writes the affected reporter a message,   *)
(* in the transaction of the resolution.                                   *)
DecisionTellsReporter ==
    \A e \in audit : <<e.by, e.flag>> \in DOMAIN outbox

(* notification_service.py:3-5: a notification is never lost to a crash    *)
(* between the commit and the enqueuing, so it is attempted in the end.    *)
CommittedNoteAttempted ==
    \A n \in NoteId :
        NoteStatus(n) = "pending" ~> NoteStatus(n) # "pending"

(* README.md:176-177: a retryable failure leaves the row "failed" and is   *)
(* retried, so a row still "pending" has its job to come.                  *)
FailedMailRecorded ==
    \A n \in DOMAIN outbox :
        outbox[n].status = "pending" =>
            \/ NoteJobExists(n)
            \/ req[n[1]].pc \in {"decide_refresh", "dispatch"}

(* README.md:42-43: a corrupt source will never succeed on retry and goes  *)
(* straight to "failed", so only photos with a sound one are retried.      *)
CorruptNotRetried ==
    \A m \in DOMAIN queue \cap ThumbMessage :
        m.retries > 0 => "good" \in files[m.photo]

(* README.md:44-45: an unexpected error is retried and lands in "failed",  *)
(* so a row still "processing" has a job working on it or to come.         *)
ProcessingHasJob ==
    \A p \in DOMAIN photos : photos[p].status = "processing" => ThumbJobExists(p)

(* config.py:43-44: every write path invalidates the key explicitly, so a  *)
(* longer TTL trades no correctness: an answered PATCH leaves no older     *)
(* caption in the cache.                                                   *)
NoStaleCaption ==
    \A p \in DOMAIN cache \cap DOMAIN photos :
        \/ cache[p].view.caption = photos[p].caption
        \/ InvalidationPending(p)

(* README.md:46-49: writes invalidate the key, and a Redis outage degrades *)
(* to "always a cache miss": an entry read from an up-to-date row shows    *)
(* the caption of the last answered PATCH whatever Redis calls fail.       *)
OutageOnlyMisses ==
    \A p \in DOMAIN cache \cap DOMAIN photos :
        \/ cache[p].view.caption = photos[p].caption
        \/ cache[p].overtaken
        \/ InvalidationPending(p)

(* docs/moderation-feature.md:60-62: an action invalidates the photo's key *)
(* as delete_photo does, after the commit, so that an entry read from a    *)
(* live row does not outlast the photo.                                    *)
RemovedNotCached ==
    \A p \in DOMAIN cache \ DOMAIN photos : InvalidationPending(p)
=============================================================================
