----------------------------- MODULE Invariants -----------------------------
(***************************************************************************)
(* The inductive invariants behind the theorems about the core.            *)
(***************************************************************************)
EXTENDS Properties

---------------------------------------------------------------------------
(* Types. TypeOK is not inductive: a handler relies on the fields its call *)
(* has, on a row it has loaded and on an id it has been given, a task on   *)
(* the kind of its message and on what is left of its retry budget.        *)

UploadSteps == {"upload", "upload_write", "upload_commit", "upload_refresh",
                "upload_enqueue"}
PatchSteps  == {"patch_commit", "patch_refresh", "patch_invalidate"}
ServeSteps  == {"get_fill", "thumb_send", "file_send", "thumb_file_send",
                "delete_flags", "flag_commit"}
DecideSteps == {"decide", "dismiss_commit", "action_siblings",
                "action_resolve", "action_photo", "action_files",
                "action_invalidate", "action_commit", "decide_refresh",
                "dispatch"}
PhotoOps == {"get", "delete", "thumb", "file", "thumb_file", "flag", "patch"}

LoadSteps   == {"get", "load_photo", "load_thumb"}
ThumbSteps  == {"thumb_processing", "thumb_open", "thumb_save", "thumb_ready",
                "thumb_failed", "thumb_invalidate", "thumb_pending",
                "thumb_pending_invalidate", "thumb_retry"}
NoteSteps   == {"note_send", "note_sent", "note_failed", "note_retry"}

(* q is what a request holds, c its call, n the last id given out. *)
CallFits(q, c) ==
    /\ q.pc \in UploadSteps => c.op = "upload"
    /\ q.pc \in {"upload_write", "upload_commit"} => c.image \in Image
    /\ q.pc \in LoadSteps \cup ServeSteps => c.op \in PhotoOps
    /\ q.pc \in PatchSteps => c.op = "patch"
    /\ q.pc \in {"flag_commit", "flag_refresh"} => c.op = "flag"
    /\ q.pc \in DecideSteps => c.op \in Decision
    /\ q.pc = "delete_flags" => c.op = "delete"
    /\ q.pc \in {"lock_flags", "lock_photo", "cascade", "delete_files",
                 "delete_invalidate"} => c.op \in {"delete"} \cup Decision

PhotoFits(q, c, n) ==
    /\ c.op # "upload" => q.photo \in PhotoId
    /\ q.pc \in UploadSteps \ {"upload"} => q.photo \in 1..n

RowFits(q) ==
    q.pc \in {"load_thumb", "patch_commit"} \cup ServeSteps => q.row \in View

(* s is what a worker holds. *)
MessageFits(s) ==
    /\ s.pc # "idle" => s.msg \in Message
    /\ s.pc \in ThumbSteps => s.msg \in ThumbMessage
    /\ s.pc \in NoteSteps => s.msg \in NoteMessage
    /\ s.pc = "thumb_retry" => s.msg.retries < ThumbnailMaxRetries
    /\ s.pc = "note_retry" => s.msg.retries < NotificationMaxRetries

Fits(q, c, n) == CallFits(q, c) /\ PhotoFits(q, c, n) /\ RowFits(q)

RequestsFit == \A r \in Request : Fits(req[r], call[r], lastId)
WorkersFit  == \A w \in Worker : MessageFits(wk[w])

TypeInv == TypeOK /\ RequestsFit /\ WorkersFit

---------------------------------------------------------------------------
(* Locks. A transaction that decides over rows it holds relies on them to  *)
(* stay, hence on every deletion holding what it deletes, hence on no id   *)
(* coming back to life between the statement that found no row to lock and *)
(* the commit.                                                             *)

(* At any other step a request knows a photo that was visible, or whose id *)
(* the sequence has given to it.                                           *)
Unbound == {"upload", "get", "load_photo", "decide", "done", "crashed"}

FreshSteps   == {"upload_write", "upload_commit"}
RemovedSteps == {"action_files", "action_invalidate", "action_commit"}
LockSteps    == {"action_photo", "lock_flags", "lock_photo", "cascade"} \cup RemovedSteps

\* Below, q and s are what two requests hold, c is the call of q, P and F are
\* the photos and the flags in the tables, n is the last id given out.

(* The id of an upload not yet committed is no row's.                      *)
Knows(q, P, n) ==
    /\ q.pc \notin Unbound => q.photo \in 1..n
    /\ q.pc \in FreshSteps => q.photo \notin P

(* Which locks a request may hold at which step, and on which rows.        *)
Places(q, c) ==
    /\ q.heldPhoto => q.pc \in {"cascade"} \cup RemovedSteps
    /\ q.heldFlags # {} => q.pc \in LockSteps
    /\ \A f \in q.heldFlags : f[1] = q.photo
    /\ q.pc \in {"lock_flags", "action_resolve"} =>
          \A f \in q.flags : f[1] = q.photo
    /\ c.op \in Decision => q.photo = c.flag[1]

(* The rows it holds are there; a deletion past its DELETE holds the photo *)
(* if there is one; an action past its cascade holds every flag of it; an  *)
(* action that resolved flags holds them when it looks for the photo.      *)
Keeps(q, P, F) ==
    /\ q.heldFlags \subseteq F
    /\ q.heldPhoto => q.photo \in P
    /\ q.pc \in {"cascade"} \cup RemovedSteps /\ q.photo \in P => q.heldPhoto
    /\ q.pc \in RemovedSteps => {f \in F : f[1] = q.photo} \subseteq q.heldFlags
    /\ q.pc = "action_photo" => q.notes \subseteq q.heldFlags

(* Two requests hold no row in common, and nobody knows an id before the   *)
(* upload it was given to has committed.                                   *)
Apart(q, s) ==
    /\ q.heldFlags \cap s.heldFlags = {}
    /\ ~(q.heldPhoto /\ s.heldPhoto /\ q.photo = s.photo)
    /\ q.pc \in FreshSteps /\ s.pc \notin Unbound => s.photo # q.photo

Sound(q, c, P, F, n) == Knows(q, P, n) /\ Places(q, c) /\ Keeps(q, P, F)

LockInv ==
    /\ \A r \in Request :
          Sound(req[r], call[r], DOMAIN photos, DOMAIN flags, lastId)
    /\ \A r, o \in Request : r # o => Apart(req[r], req[o])
    /\ FlagsHavePhotos

---------------------------------------------------------------------------
(* Decisions. A photo has one flag at most, its owner's, since create_flag *)
(* loads the photo as any endpoint does: so an action that found the flag  *)
(* gone or decided has nobody to tell, and no flag comes while it runs.    *)

(* The id is in use or has been: no upload will commit it (again).         *)
Given(p) ==
    /\ p \in 1..lastId
    /\ \A r \in Request : req[r].pc \in FreshSteps => req[r].photo # p
Gone(p) == Given(p) /\ p \notin DOMAIN photos

RulingSteps == {"action_siblings", "action_resolve", "action_photo",
                "lock_flags", "lock_photo", "cascade"} \cup RemovedSteps
RuledSteps  == {"decide_refresh", "dispatch"}

OwnersFlag == \A f \in DOMAIN flags : photos[f[1]].owner = f[2]

(* A decision takes the branch its call names. *)
TakesBranch(r) ==
    /\ req[r].pc = "dismiss_commit" => call[r].op = "dismiss"
    /\ req[r].pc \in RulingSteps => call[r].op \in {"action", "delete"}

(* What a request loaded is still the caller's. *)
OwnsLoaded(r) ==
    req[r].pc \in {"load_thumb", "flag_commit"} /\ req[r].photo \in DOMAIN photos
        => photos[req[r].photo].owner = call[r].user

(* The flag an action is about stays as long as the photo; whoever still   *)
(* waits for an answer is among those it is going to tell, and their flags *)
(* are locked from the moment they are resolved.                           *)
Acting(r) == call[r].op = "action" /\ req[r].pc \in RulingSteps
FindsFlag(r) ==
    Acting(r) /\ req[r].photo \in DOMAIN photos => call[r].flag \in DOMAIN flags
TellsAll(r) ==
    Acting(r) /\ req[r].pc # "action_siblings" =>
        \A f \in DOMAIN flags :
            f[1] = req[r].photo /\ flags[f] = "pending" =>
                f \in IF req[r].pc = "action_resolve" THEN req[r].flags
                                                      ELSE req[r].notes
HoldsTold(r) ==
    Acting(r) /\ req[r].pc \notin {"action_siblings", "action_resolve"} =>
        req[r].notes \subseteq req[r].heldFlags

(* From the moment it has found the photo, it tells the reporter of the    *)
(* flag it is about, unless somebody has.                                  *)
InformsReporter(r) ==
    Acting(r) /\ req[r].pc \notin {"action_siblings", "action_resolve", "action_photo"} =>
        call[r].flag \in req[r].notes \/ Told(call[r].flag)

(* A decision is on record from its commit on, and not before.             *)
Recorded(r) ==
    /\ req[r].pc \notin RuledSteps \cup {"done", "crashed"} =>
          \A e \in audit : e.by # r
    /\ \/ req[r].pc \in RuledSteps
       \/ call[r].op \in Decision /\ req[r].reply = 200
       => AuditRow(r) \in audit
    /\ req[r].pc \in RuledSteps =>
          \A f \in req[r].notes : <<r, f>> \in DOMAIN outbox

RemovedForGood == \A e \in audit : e.decision = "action" => Gone(e.flag[1])

(* A flag decided on is resolved, or gone with its photo, and its reporter *)
(* has a notice: a dismissal's own, whoever else's for an action.          *)
Resolved(f) == IF f \in DOMAIN flags THEN flags[f] = "dismissed" ELSE Gone(f[1])
DecidedForGood ==
    \A e \in audit :
        /\ Resolved(e.flag) /\ Told(e.flag)
        /\ e.decision = "dismiss" => <<e.by, e.flag>> \in DOMAIN outbox
DismissedTold == \A f \in DOMAIN flags : flags[f] = "dismissed" => Told(f)

RecordInv ==
    /\ OwnersFlag /\ RemovedForGood /\ NoteJobHasRow
    /\ DecidedForGood /\ DismissedTold
    /\ \A r \in Request :
          /\ TakesBranch(r) /\ OwnsLoaded(r) /\ FindsFlag(r)
          /\ TellsAll(r) /\ HoldsTold(r) /\ InformsReporter(r) /\ Recorded(r)

---------------------------------------------------------------------------
(* Blobs. A row is committed after its blob and deleted before it, but for *)
(* an action; and nobody writes to the directory of an id that is gone but *)
(* a thumbnail job, which writes no original.                              *)

(* A thumbnail found or written stays until the photo is removed. *)
ThumbSafe(p) == "thumb" \in files[p] \/ ActionHasRemovedFiles(p) \/ Gone(p)

SendSteps == {"thumb_send", "file_send", "thumb_file_send"}

(* What an upload, a deletion and a read know of the blobs. *)
UploadWrote(r) == req[r].pc = "upload_commit" => HasOriginal(req[r].photo)
DeletesGone(r) ==
    req[r].pc \in {"delete_files", "delete_invalidate"} => Gone(req[r].photo)
SendsWhatIs(r) ==
    /\ req[r].pc = "load_thumb" => req[r].row.status = "none"
    /\ req[r].pc \in SendSteps /\ req[r].row.status = "none" => Gone(req[r].photo)
    /\ req[r].pc = "thumb_file_send" /\ req[r].row.status = "ready" =>
          ThumbSafe(req[r].photo)

Removed(p) == Gone(p) \/ ActionHasRemovedFiles(p)
ServedUnlessRemoved(r) ==
    /\ req[r].pc # "done" => req[r].reply = 0
    /\ Never({"db"}) /\ call[r].op \in {"thumb", "file", "thumb_file"} /\ req[r].reply = 500
          => Removed(req[r].photo)

(* Jobs are about photos that have been visible. *)
JobsGiven ==
    /\ \A m \in DOMAIN queue : m \in ThumbMessage => Given(m.photo)
    /\ \A w \in Worker : wk[w].msg \in ThumbMessage => Given(JobPhoto(w))
ReadySaved == \A w \in Worker : wk[w].pc = "thumb_ready" => ThumbSafe(JobPhoto(w))

(* No original where none has been written yet, nor where an action has    *)
(* just removed it.                                                        *)
NoOriginalYet ==
    Never({"rmtree"}) =>
        /\ \A p \in PhotoId : p > lastId => ~HasOriginal(p)
        /\ \A r \in Request :
              req[r].pc \in {"action_invalidate", "action_commit"} =>
                  ~HasOriginal(req[r].photo)

BlobInv ==
    /\ OriginalOnDisk /\ ReadyThumbOnDisk /\ JobsGiven /\ ReadySaved
    /\ NoOriginalYet /\ RemovedOriginalGone
    /\ \A r \in Request : /\ UploadWrote(r) /\ DeletesGone(r) /\ SendsWhatIs(r)
                          /\ ServedUnlessRemoved(r)

---------------------------------------------------------------------------
(* The cache. StaleEntryExplained is not inductive: it lets any job or any *)
(* deletion excuse an entry, though only some will ever invalidate it.     *)

(* A worker that is going to invalidate the key if the photo is still there.*)
Refreshes(w, p) ==
    wk[w].pc \in ThumbSteps \ {"thumb_retry"} /\ JobPhoto(w) = p

EntryDue(p) ==
    IF p \in DOMAIN photos
    THEN \/ cache[p].view = photos[p]
         \/ \E r \in Request : /\ req[r].pc \in {"patch_refresh", "patch_invalidate"}
                               /\ req[r].photo = p
         \/ \E w \in Worker : Refreshes(w, p)
         \/ \E m \in DOMAIN queue \cap ThumbMessage : m.photo = p
    ELSE \E r \in Request : /\ req[r].pc \in {"delete_files", "delete_invalidate"}
                            /\ req[r].photo = p

(* An action about to commit has dropped the entry of its photo; who has   *)
(* filled the key since was overtaken.                                     *)
KeyDropped(r) ==
    req[r].pc = "action_commit" /\ req[r].photo \in DOMAIN cache =>
        cache[req[r].photo].overtaken

CacheInv ==
    /\ \A p \in DOMAIN cache : Given(p)
    /\ Never({"api_crash", "db", "cache"}) =>
          /\ \A p \in DOMAIN cache : cache[p].overtaken \/ EntryDue(p)
          /\ \A r \in Request : KeyDropped(r)

---------------------------------------------------------------------------
(* Jobs. ThumbJobExists and NoteJobExists count a worker that only has its *)
(* message to acknowledge; what keeps a row from being stranded is a job   *)
(* that is still going to write it.                                        *)

ThumbDue(p) ==
    \/ \E m \in DOMAIN queue \cap ThumbMessage : m.photo = p
    \/ \E w \in Worker : /\ wk[w].pc \in ThumbSteps \ {"thumb_invalidate"}
                         /\ JobPhoto(w) = p
    \/ \E r \in Request :
          /\ call[r].op = "upload" /\ req[r].photo = p
          /\ \/ req[r].pc \in {"upload_refresh", "upload_enqueue", "crashed"}
             \/ req[r].reply = 500

ThumbsDue ==
    Never({"db", "broker"}) =>
    \A p \in DOMAIN photos :
        photos[p].status \in {"pending", "processing"} => ThumbDue(p)

(* Outbox rows come with the commit of their decision. *)
RowsOfRuled ==
    \A n \in DOMAIN outbox : req[n[1]].pc \in RuledSteps \cup {"done", "crashed"}

(* A row has one job at a time, unless the broker duplicates it: it waits  *)
(* to be dispatched, or is queued, or is held by one worker. S are the     *)
(* steps at which a worker counts: one that has published the retry may    *)
(* still have to acknowledge its own message.                              *)
HoldsJob(w, n, S) == wk[w].pc \in S /\ wk[w].msg \in NoteMessage /\ JobNote(w) = n
Undispatched(n) == n[2] \in req[n[1]].notes

OneJob(S) ==
    /\ \A m \in DOMAIN queue \cap NoteMessage :
          /\ queue[m] = 1 /\ ~Undispatched(m.note)
          /\ \A o \in DOMAIN queue \cap NoteMessage : o.note = m.note => o = m
          /\ \A w \in Worker : ~HoldsJob(w, m.note, S)
    /\ \A n \in NoteId, w \in Worker :
          HoldsJob(w, n, S) =>
              ~Undispatched(n) /\ \A v \in Worker : HoldsJob(v, n, S) => v = w

SentOnce ==
    Never({"redeliver", "mail"}) =>
        /\ OneJob(NoteSteps \cup {"ack"})
        /\ \A w \in Worker :
              /\ wk[w].pc \notin {"note_failed", "note_retry"}
              /\ wk[w].pc = "note_send" => outbox[JobNote(w)].status # "sent"

(* Without duplicates attempts counts the tries, so that a row given up has*)
(* had all of them.                                                        *)
TriesCounted ==
    Lost = 0 =>
        /\ OneJob(NoteSteps)
        /\ \A m \in DOMAIN queue \cap NoteMessage : outbox[m.note].attempts >= m.retries
        /\ \A w \in Worker :
              /\ wk[w].pc \in {"note_send", "note_sent", "note_failed"} =>
                    wk[w].attempts >= wk[w].msg.retries
              /\ wk[w].pc = "note_retry" =>
                    outbox[JobNote(w)].attempts > wk[w].msg.retries

NoteDue(n) ==
    \/ \E m \in DOMAIN queue \cap NoteMessage : m.note = n
    \/ \E w \in Worker : HoldsJob(w, n, NoteSteps)
    \/ /\ outbox[n].status = "failed"
       /\ outbox[n].attempts > NotificationMaxRetries \/ Lost > 0
    \/ req[n[1]].pc \in RuledSteps /\ Undispatched(n)
    \/ req[n[1]].pc = "crashed" \/ req[n[1]].reply = 500

NotesDue ==
    Never({"db", "broker", "maildir"}) =>
    \A n \in DOMAIN outbox : outbox[n].status # "sent" => NoteDue(n)

(* No row goes back to "pending", so that a task that loaded "failed", and *)
(* will not write it again, leaves no "pending" row behind.                *)
FailedLoaded ==
    \A w \in Worker :
        wk[w].pc \in {"note_send", "note_sent", "note_failed"} =>
            /\ wk[w].status # "sent"
            /\ wk[w].status = "failed" => outbox[JobNote(w)].status # "pending"

JobInv ==
    /\ ThumbsDue /\ RowsOfRuled /\ SentOnce /\ TriesCounted /\ FailedLoaded
    /\ NotesDue
---------------------------------------------------------------------------
(* Budgets. What has been tried and what is still to be tried add up to no *)
(* more than the deliveries there have been: a step that consumes a try    *)
(* takes it from those to come, one that hands a job on moves them, and    *)
(* only a crash or a redelivery adds some. A try to come is a pair of the  *)
(* place where its job is and its number.                                  *)

QueuedAt(m) == {"queued"} \X {m} \X (1..queue[m])
HeldAt(w)   == {<<"held", w, 0>>}
DueAt(k)    == {<<"due", k, 0>>}

Mailing == {"note_send", "note_failed", "note_retry"}

MailsQueued(n) ==
    UNION {QueuedAt(m) \X {0} : m \in {k \in DOMAIN queue \cap NoteMessage : k.note = n}}
MailsHeld(n) ==
    UNION {HeldAt(w) \X {0} : w \in {v \in Worker : HoldsJob(v, n, Mailing)}}
MailsDue(n) == UNION {DueAt(f) \X {0} : f \in {n[2]} \cap req[n[1]].notes}

MailsToCome(n) == MailsQueued(n) \cup MailsHeld(n) \cup MailsDue(n)

Mailed(n) == IF n \in DOMAIN mails THEN mails[n] ELSE 0

MailsCounted ==
    /\ DOMAIN mails \subseteq DOMAIN outbox
    /\ \A n \in DOMAIN outbox :
          /\ IsFiniteSet(MailsToCome(n))
          /\ Mailed(n) + Cardinality(MailsToCome(n)) <= 1 + Lost

(* The tries a thumbnail job has left once its message has seen so many    *)
(* retries.                                                                *)
From(retries) == retries..ThumbnailMaxRetries

TriesLeft(w) == From(IF wk[w].pc = "thumb_processing" THEN wk[w].msg.retries
                                                      ELSE wk[w].msg.retries + 1)

TriesQueued(p) ==
    UNION {QueuedAt(m) \X From(m.retries) :
             m \in {k \in DOMAIN queue \cap ThumbMessage : k.photo = p}}
TriesHeld(p) ==
    UNION {HeldAt(w) \X TriesLeft(w) :
             w \in {v \in Worker : wk[v].pc \in ThumbSteps /\ JobPhoto(v) = p}}
TriesDue(p) ==
    UNION {DueAt(r) \X From(0) :
             r \in {o \in Request : /\ req[o].pc \in {"upload_refresh", "upload_enqueue"}
                                    /\ req[o].photo = p}}

TriesToCome(p) == TriesQueued(p) \cup TriesHeld(p) \cup TriesDue(p)

Budget == (ThumbnailMaxRetries + 1) * (1 + Lost)

(* A task writes the attempts it loaded plus one, whatever the row says by *)
(* then.                                                                   *)
TriesFit(p, attempts) ==
    /\ IsFiniteSet(TriesToCome(p))
    /\ attempts + Cardinality(TriesToCome(p)) <= Budget

TriesBudgeted ==
    /\ \A p \in DOMAIN photos : TriesFit(p, photos[p].attempts)
    /\ \A w \in Worker :
          wk[w].pc = "thumb_processing" => TriesFit(JobPhoto(w), wk[w].attempts)

BudgetInv == MailsCounted /\ TriesBudgeted
=============================================================================
