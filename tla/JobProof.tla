------------------------------ MODULE JobProof ------------------------------
(***************************************************************************)
(* What the jobs leave behind, for every value of the constants: the       *)
(* storage volume and the cache follow the photo table; no row is stranded *)
(* without the job that is to settle it, and what the rows record of the   *)
(* jobs is true.                                                           *)
(***************************************************************************)
EXTENDS LedgerProof, FiniteSetTheorems

---------------------------------------------------------------------------
(* Faults only accumulate.                                                 *)

LEMMA SpendCounts ==
    ASSUME TypeInv, NEW k \in Fault, Spend(k)
    PROVE  /\ \A j \in Fault : spent[j] \in Nat /\ spent'[j] >= spent[j]
           /\ spent'[k] # 0
<1>1. spent \in [Fault -> Nat] /\ spent' = [spent EXCEPT ![k] = @ + 1]
  BY DEF TypeInv, TypeOK, StoresOK, Spend
<1> HIDE DEF Fault
<1> QED
  BY <1>1

LEMMA RequestSpends ==
    ASSUME NEW r \in Request, Acts(r)
    PROVE  UNCHANGED spent \/ \E k \in Fault : Spend(k)
<1>1. ASSUME \/ Spend("api_crash") \/ Spend("db") \/ Spend("disk")
             \/ Spend("cache") \/ Spend("rmtree") \/ Spend("broker")
      PROVE  \E k \in Fault : Spend(k)
  BY <1>1 DEF Fault
<1>2. CASE PhotoStep(r)
  <2>1. CASE \/ UploadReject(r) \/ UploadFlush(r) \/ UploadWrite(r)
             \/ UploadWriteFails(r) \/ UploadCommit(r) \/ UploadRefresh(r)
             \/ UploadEnqueue(r) \/ UploadEnqueueFails(r)
    BY <1>1, <2>1 DEF UploadReject, UploadFlush, UploadWrite, UploadWriteFails,
       UploadCommit, UploadRefresh, UploadEnqueue, UploadEnqueueFails, shared
  <2>2. CASE LoadPhoto(r) \/ LoadThumb(r) \/ GetCached(r) \/ GetCacheDown(r) \/ GetFill(r)
    BY <1>1, <2>2 DEF LoadPhoto, LoadThumb, GetCached, GetCacheDown, GetFill, shared
  <2>3. CASE PatchCommit(r) \/ PatchRefresh(r) \/ PatchInvalidate(r)
    BY <1>1, <2>3 DEF PatchCommit, PatchRefresh, PatchInvalidate, CacheDelete, shared
  <2>4. CASE \/ DeleteFlags(r) \/ LockFlags(r) \/ LockPhoto(r) \/ DeleteCommit(r)
             \/ DeleteFiles(r) \/ DeleteInvalidate(r)
    BY <1>1, <2>4 DEF DeleteFlags, LockFlags, LockPhoto, DeleteCommit, DeleteFiles,
       DeleteInvalidate, DeletePhotoFiles, CacheDelete, shared
  <2>5. CASE ThumbSend(r) \/ FileSend(r) \/ ThumbFileSend(r)
    BY <2>5 DEF ThumbSend, FileSend, ThumbFileSend, shared
  <2> QED
    BY <1>2, <2>1, <2>2, <2>3, <2>4, <2>5 DEF PhotoStep
<1>3. CASE ModerationStep(r)
  <2>1. CASE \/ FlagCommit(r) \/ FlagRefresh(r) \/ DecideLoad(r) \/ DismissCommit(r)
             \/ ActionSiblings(r) \/ ActionResolve(r) \/ ActionPhoto(r)
             \/ ActionCascade(r)
    BY <2>1 DEF FlagCommit, FlagRefresh, DecideLoad, DismissCommit, ActionSiblings,
       ActionResolve, ActionPhoto, ActionCascade, shared
  <2>2. CASE ActionFiles(r) \/ ActionInvalidate(r) \/ ActionCommit(r)
    BY <1>1, <2>2 DEF ActionFiles, ActionInvalidate, ActionCommit,
       DeletePhotoFiles, CacheDelete, shared
  <2>3. CASE Dispatch(r) \/ DispatchFails(r) \/ Decided(r) \/ DecideRefresh(r)
    BY <1>1, <2>3 DEF Dispatch, DispatchFails, Decided, DecideRefresh, shared
  <2> QED
    BY <1>3, <2>1, <2>2, <2>3 DEF ModerationStep
<1>4. CASE DeadlockAbort(r) \/ ApiCrash(r) \/ ApiDbError(r)
  BY <1>1, <1>4 DEF DeadlockAbort, ApiCrash, ApiDbError, shared
<1> QED
  BY <1>2, <1>3, <1>4 DEF Acts, RequestTurn

LEMMA WorkerSpends ==
    ASSUME NEW w \in Worker, WorkerActs(w)
    PROVE  UNCHANGED spent \/ \E k \in Fault : Spend(k)
<1>1. ASSUME \/ Spend("worker_crash") \/ Spend("redeliver") \/ Spend("db")
             \/ Spend("disk") \/ Spend("cache") \/ Spend("broker")
             \/ Spend("mail") \/ Spend("maildir")
      PROVE  \E k \in Fault : Spend(k)
  BY <1>1 DEF Fault
<1>2. CASE \/ ThumbProcessing(w) \/ ThumbReady(w) \/ ThumbFailed(w) \/ ThumbPending(w)
  BY <1>2 DEF ThumbProcessing, ThumbReady, ThumbFailed, ThumbPending, UpdateStatus,
     UpdateThumb
<1>3. CASE \/ TakeThumb(w) \/ ThumbOpen(w) \/ ThumbSave(w) \/ ThumbSaveFails(w)
           \/ ThumbInvalidate(w) \/ ThumbPendingInvalidate(w)
  BY <1>1, <1>3 DEF TakeThumb, ThumbOpen, ThumbSave, ThumbSaveFails, ThumbInvalidate,
     ThumbPendingInvalidate, CacheDelete, shared
<1>4. CASE \/ TakeNote(w) \/ NoteSend(w) \/ NoteSendFails(w) \/ NoteMailDirFails(w)
           \/ NoteSent(w) \/ NoteFailed(w)
  BY <1>1, <1>4 DEF TakeNote, NoteSend, NoteSendFails, NoteMailDirFails, NoteSent,
     NoteFailed, UpdateNote
<1>5. CASE Retry(w) \/ Ack(w) \/ WorkerCrash(w) \/ Redeliver(w) \/ WorkerDbError(w)
  BY <1>1, <1>5 DEF Retry, Ack, WorkerCrash, Redeliver, WorkerDbError, shared
<1> QED
  BY <1>2, <1>3, <1>4, <1>5 DEF WorkerActs, WorkerTurn

LEMMA SpentGrows ==
    ASSUME TypeInv, [Next]_vars, NEW k \in Fault, spent'[k] = 0
    PROVE  spent[k] = 0
<1>1. CASE UNCHANGED spent
  BY <1>1
<1>2. CASE \E j \in Fault : Spend(j)
  BY <1>2, SpendCounts
<1> QED
  BY <1>1, <1>2, StepCases, RequestSpends, WorkerSpends DEF Quiet

(* What has never happened had not happened before, and the step is none   *)
(* of those that would have made it happen.                                *)
LEMMA NeverKept ==
    ASSUME TypeInv, [Next]_vars, NEW K \in SUBSET Fault, Never(K)'
    PROVE  Never(K) /\ \A k \in K : ~Spend(k)
<1>1. \A k \in K : spent'[k] = 0
  BY DEF Never
<1>2. \A k \in K : spent[k] = 0
  BY <1>1, SpentGrows
<1> QED
  BY <1>1, <1>2, SpendCounts DEF Never

---------------------------------------------------------------------------
(* Who writes and who removes a blob.                                      *)

\* The steps that empty a directory.
Empties(r) == DeleteFiles(r) \/ ActionFiles(r)

LEMMA BlobMoves ==
    ASSUME TypeInv, NEW r \in Request, Acts(r), NEW p \in PhotoId
    PROVE  /\ \/ files[p] \subseteq files'[p]
              \/ Empties(r) /\ req[r].photo = p /\ files'[p] = {}
           /\ \/ HasOriginal(p)' => HasOriginal(p)
              \/ (UploadWrite(r) \/ UploadWriteFails(r)) /\ req[r].photo = p
<1>0. Effect(r) /\ files \in [PhotoId -> SUBSET Blob]
  BY StepEffect DEF TypeInv, TypeOK, StoresOK
<1>1. CASE files' = files
  BY <1>1 DEF HasOriginal
<1>2. CASE UploadWrite(r)
  BY <1>0, <1>2 DEF UploadWrite, HasOriginal
<1>3. CASE UploadWriteFails(r)
  BY <1>0, <1>3 DEF UploadWriteFails, HasOriginal
<1>4. CASE Empties(r)
  <2>1. files' = files \/ files' = [files EXCEPT ![req[r].photo] = {}]
    BY <1>4 DEF Empties, DeleteFiles, ActionFiles, DeletePhotoFiles
  <2> QED
    BY <1>0, <1>4, <2>1 DEF HasOriginal
<1> QED
  BY <1>0, <1>1, <1>2, <1>3, <1>4 DEF Effect, Stores, Empties

LEMMA WorkerBlobMoves ==
    ASSUME TypeInv, NEW w \in Worker, WorkerActs(w), NEW p \in PhotoId
    PROVE  /\ files[p] \subseteq files'[p]
           /\ HasOriginal(p)' = HasOriginal(p)
<1>0. WorkerEffect(w) /\ files \in [PhotoId -> SUBSET Blob]
  BY WorkerStepEffect DEF TypeInv, TypeOK, StoresOK
<1>1. CASE files' = files
  BY <1>1 DEF HasOriginal
<1>2. CASE ThumbSave(w)
  BY <1>0, <1>2 DEF ThumbSave, HasOriginal, Image
<1> QED
  BY <1>0, <1>1, <1>2 DEF WorkerEffect, WorkerStores

(* A photo removed, or about to be, or left without its blobs, stays so.   *)
LEMMA RemovedStays ==
    ASSUME TypeInv, LockInv, [Next]_vars, NEW p, Removed(p)
    PROVE  Removed(p)'
<1>1. CASE Gone(p)
  BY <1>1, GoneKept DEF Removed
<1>2. CASE ActionHasRemovedFiles(p)
  <2>1. PICK r \in Request : /\ call[r].op = "action" /\ req[r].photo = p
                             /\ \/ req[r].pc \in {"action_invalidate", "action_commit"}
                                \/ req[r].pc = "crashed"
                                \/ req[r].pc = "done" /\ req[r].reply = 500
    BY <1>2 DEF ActionHasRemovedFiles
  <2>2. CASE Acts(r)
    <3>0. /\ Effect(r) /\ req[r] \in ReqState /\ req \in [Request -> ReqState]
      BY <2>2, StepEffect, RequestFacts DEF ActorsOK
    <3>1. req[r].pc \in {"action_invalidate", "action_commit"}
      BY <2>1, <3>0 DEF Effect, Memory, Over
    <3>2. CASE ActionCommit(r)
      <4>1. Given(p)
        BY <2>1, <3>1, KnownGiven DEF Unbound, FreshSteps
      <4>2. Given(p)'
        BY <4>1, GivenKept
      <4> QED
        BY <2>1, <3>2, <4>2 DEF ActionCommit, Drop, Restrict, Gone, Removed
    <3>3. CASE ActionInvalidate(r) \/ ApiCrash(r) \/ ApiDbError(r)
      <4>1. /\ req'[r].pc \in {"action_commit", "crashed"} \/
               (req'[r].pc = "done" /\ req'[r].reply = 500)
            /\ req'[r].photo = p /\ call' = call
        <5>1. CASE ActionInvalidate(r)
          BY <2>1, <3>0, <5>1 DEF ActionInvalidate, Goto, ReqState
        <5>2. CASE ApiCrash(r)
          BY <2>1, <3>0, <5>2 DEF ApiCrash, ReqState
        <5>3. CASE ApiDbError(r)
          BY <2>1, <3>0, <5>3 DEF ApiDbError, Answer, AnswerWith
        <5> QED
          BY <3>3, <5>1, <5>2, <5>3
      <4> QED
        BY <2>1, <4>1 DEF ActionHasRemovedFiles, Removed
    <3> QED
      BY <3>0, <3>1, <3>2, <3>3 DEF Effect, Departs
  <2>3. CASE ~Acts(r)
    <3>1. req'[r] = req[r] /\ call' = call
      BY <2>3, StepCases, StepEffect, WorkerStepEffect
         DEF Effect, Stores, WorkerEffect, WorkerStores, Quiet
    <3> QED
      BY <2>1, <3>1 DEF ActionHasRemovedFiles, Removed
  <2> QED
    BY <2>2, <2>3
<1> QED
  BY <1>1, <1>2 DEF Removed

(* Only an action is at the steps of the branch of decide that removes.    *)
LEMMA BranchOf ==
    ASSUME TypeInv, RecordInv, NEW r \in Request,
           req[r].pc \in {"action_siblings", "action_resolve", "action_photo"}
                          \cup RemovedSteps
    PROVE  call[r].op = "action"
  BY RequestFacts DEF RecordInv, TakesBranch, RulingSteps, RemovedSteps, Fits, CallFits,
     DecideSteps, Decision

(* A blob is there until the photo is removed.                             *)
LEMMA BlobStays ==
    ASSUME TypeInv, LockInv, RecordInv, BlobInv, [Next]_vars, NEW p \in PhotoId
    PROVE  \/ files[p] \subseteq files'[p]
           \/ Removed(p)'
<1>1. CASE \E r \in Request : Acts(r) /\ Empties(r) /\ req[r].photo = p
  <2>1. PICK r \in Request : Acts(r) /\ Empties(r) /\ req[r].photo = p
    BY <1>1
  <2>2. CASE DeleteFiles(r)
    <3>1. Removed(p)
      BY <2>1, <2>2 DEF DeleteFiles, BlobInv, DeletesGone, Removed
    <3> QED
      BY <3>1, RemovedStays
  <2>3. CASE ActionFiles(r)
    <3>1. /\ req[r].pc = "action_files" /\ req'[r].pc = "action_invalidate"
          /\ req'[r].photo = p /\ call' = call
      BY <2>1, <2>3, RequestFacts DEF ActionFiles, Goto, ActorsOK, ReqState
    <3>2. call[r].op = "action"
      BY <2>1, <3>1, BranchOf DEF RemovedSteps
    <3> QED
      BY <3>1, <3>2 DEF ActionHasRemovedFiles, Removed
  <2> QED
    BY <2>1, <2>2, <2>3 DEF Empties
<1>2. CASE ~\E r \in Request : Acts(r) /\ Empties(r) /\ req[r].photo = p
  BY <1>2, StepCases, BlobMoves, WorkerBlobMoves DEF Quiet
<1> QED
  BY <1>1, <1>2

---------------------------------------------------------------------------
(* The blobs follow the rows.                                              *)

Sofar == TypeInv /\ LockInv /\ RecordInv /\ BlobInv /\ [Next]_vars

LEMMA RowIds ==
    ASSUME TypeInv
    PROVE  DOMAIN photos \subseteq PhotoId
  BY ConstantAssumption DEF TypeInv, TypeOK, TablesOK, PhotoId

(* A row appears by the commit of an upload, and by nothing else.          *)
LEMMA NewRow ==
    ASSUME TypeInv, [Next]_vars, NEW p, p \in DOMAIN photos'
    PROVE  \/ p \in DOMAIN photos
           \/ \E r \in Request : Acts(r) /\ UploadCommit(r) /\ p = req[r].photo
  BY StepCases, PhotoRows, WorkerStepEffect DEF WorkerEffect, WorkerStores, Quiet

(* A thumbnail that was found or written is there or not missed.           *)
LEMMA ThumbSafeKept ==
    ASSUME Sofar, NEW p \in PhotoId, ThumbSafe(p)
    PROVE  ThumbSafe(p)'
<1>1. CASE "thumb" \in files[p]
  BY <1>1, BlobStays DEF Sofar, ThumbSafe, Removed
<1>2. CASE Removed(p)
  BY <1>2, RemovedStays DEF Sofar, ThumbSafe, Removed
<1> QED
  BY <1>1, <1>2 DEF ThumbSafe, Removed

LEMMA OriginalKept == Sofar => OriginalOnDisk'
<1> SUFFICES ASSUME Sofar, NEW p, p \in DOMAIN photos'
             PROVE  HasOriginal(p)' \/ ActionHasRemovedFiles(p)'
  BY DEF OriginalOnDisk
<1>1. CASE \E r \in Request : Acts(r) /\ UploadCommit(r) /\ p = req[r].photo
  BY <1>1 DEF Sofar, BlobInv, UploadWrote, UploadCommit, HasOriginal
<1>2. CASE p \in DOMAIN photos
  <2>0. p \in PhotoId
    BY <1>2, RowIds DEF Sofar
  <2>1. CASE HasOriginal(p)
    BY <2>0, <2>1, BlobStays DEF Sofar, HasOriginal, Removed, Gone
  <2>2. CASE ActionHasRemovedFiles(p)
    BY <2>2, RemovedStays DEF Sofar, Removed, Gone
  <2> QED
    BY <1>2, <2>1, <2>2 DEF Sofar, BlobInv, OriginalOnDisk
<1> QED
  BY <1>1, <1>2, NewRow DEF Sofar

(* How the row of a photo that stays may change.                           *)
LEMMA RowChange ==
    ASSUME TypeInv, [Next]_vars, NEW p, p \in DOMAIN photos, p \in DOMAIN photos'
    PROVE  \/ photos'[p] = photos[p]
           \/ \E r \in Request :
                 /\ Acts(r) /\ p = req[r].photo
                 /\ UploadCommit(r) \/ (PatchCommit(r) /\ Goto(r, "patch_refresh"))
                 /\ photos'[p].status \in {"pending", photos[p].status}
           \/ \E w \in Worker :
                 /\ WorkerActs(w) /\ JobPhoto(w) = p
                 /\ \/ ThumbProcessing(w) /\ WGoto(w, "thumb_open")
                    \/ ThumbReady(w) /\ WGoto(w, "thumb_invalidate")
                    \/ ThumbFailed(w) /\ WGoto(w, "thumb_invalidate")
                    \/ ThumbPending(w) /\ WGoto(w, "thumb_pending_invalidate")
                 /\ photos'[p].status = "ready" => ThumbReady(w) \/ photos[p].status = "ready"
<1>0. photos[p] \in Photo
  BY DEF TypeInv, TypeOK, TablesOK
<1>1. ASSUME NEW r \in Request, Acts(r), photos'[p] # photos[p]
      PROVE  /\ p = req[r].photo
             /\ UploadCommit(r) \/ (PatchCommit(r) /\ Goto(r, "patch_refresh"))
             /\ photos'[p].status \in {"pending", photos[p].status}
  <2>1. CASE UploadCommit(r)
    BY <1>1, <2>1 DEF UploadCommit, Put
  <2>2. CASE PatchCommit(r)
    BY <1>0, <1>1, <2>2 DEF PatchCommit, Photo
  <2>3. CASE DeleteCommit(r) \/ ActionCommit(r)
    BY <1>1, <2>3 DEF DeleteCommit, ActionCommit, Drop, Restrict
  <2> QED
    BY <1>1, <2>1, <2>2, <2>3, StepEffect DEF Effect, Stores
<1>2. ASSUME NEW w \in Worker, WorkerActs(w), photos'[p] # photos[p]
      PROVE  /\ JobPhoto(w) = p
             /\ \/ ThumbProcessing(w) /\ WGoto(w, "thumb_open")
                \/ ThumbReady(w) /\ WGoto(w, "thumb_invalidate")
                \/ ThumbFailed(w) /\ WGoto(w, "thumb_invalidate")
                \/ ThumbPending(w) /\ WGoto(w, "thumb_pending_invalidate")
             /\ photos'[p].status = "ready" => ThumbReady(w) \/ photos[p].status = "ready"
  <2>1. CASE ThumbProcessing(w)
    <3> DEFINE row == [photos[JobPhoto(w)] EXCEPT
                         !.status = IF wk[w].status = "processing" THEN @
                                    ELSE "processing",
                         !.attempts = wk[w].attempts + 1]
    <3>1. UpdateThumb(w, row, "thumb_open")
      BY <2>1 DEF ThumbProcessing
    <3>2. JobPhoto(w) = p => row.status \in {"processing", photos[p].status}
      BY <1>0 DEF Photo
    <3> HIDE DEF row
    <3>3. JobPhoto(w) = p /\ photos'[p] = row /\ WGoto(w, "thumb_open")
      BY <1>2, <3>1 DEF UpdateThumb
    <3> QED
      BY <2>1, <3>2, <3>3
  <2>2. CASE ThumbReady(w)
    BY <1>0, <1>2, <2>2 DEF ThumbReady, UpdateStatus, UpdateThumb, Photo
  <2>3. CASE ThumbFailed(w)
    BY <1>0, <1>2, <2>3 DEF ThumbFailed, UpdateStatus, UpdateThumb, Photo
  <2>4. CASE ThumbPending(w)
    BY <1>0, <1>2, <2>4 DEF ThumbPending, UpdateStatus, UpdateThumb, Photo
  <2> QED
    BY <1>2, <2>1, <2>2, <2>3, <2>4, WorkerStepEffect DEF WorkerEffect, WorkerStores
<1> QED
  BY <1>1, <1>2, StepCases DEF Quiet

LEMMA ReadyKept == Sofar => ReadyThumbOnDisk'
<1> SUFFICES ASSUME Sofar, NEW p, p \in DOMAIN photos', photos'[p].status = "ready"
             PROVE  "thumb" \in files'[p] \/ ActionHasRemovedFiles(p)'
  BY DEF ReadyThumbOnDisk
<1>1. ASSUME p \in PhotoId, ThumbSafe(p)
      PROVE  "thumb" \in files'[p] \/ ActionHasRemovedFiles(p)'
  BY <1>1, ThumbSafeKept DEF ThumbSafe, Gone
<1>2. CASE p \in DOMAIN photos /\ photos[p].status = "ready"
  <2>1. p \in PhotoId
    BY <1>2, RowIds DEF Sofar
  <2> QED
    BY <1>1, <1>2, <2>1 DEF Sofar, BlobInv, ReadyThumbOnDisk, ThumbSafe
<1>3. CASE \E w \in Worker : ThumbReady(w) /\ JobPhoto(w) = p
  <2>1. PICK w \in Worker : ThumbReady(w) /\ JobPhoto(w) = p
    BY <1>3
  <2>2. wk[w].pc = "thumb_ready" /\ p \in PhotoId
    BY <2>1, WorkerFacts DEF Sofar, ThumbReady, ThumbSteps
  <2> QED
    BY <1>1, <2>1, <2>2 DEF Sofar, BlobInv, ReadySaved
<1>4. CASE \E r \in Request : UploadCommit(r) /\ p = req[r].photo
  BY <1>4 DEF UploadCommit, Put
<1>5. CASE \E r \in Request : PatchCommit(r) /\ p = req[r].photo /\ p \in DOMAIN photos
  <2>1. photos[p] \in Photo
    BY <1>5 DEF Sofar, TypeInv, TypeOK, TablesOK
  <2> QED
    BY <1>2, <1>5, <2>1 DEF PatchCommit, Photo
<1> QED
  BY <1>2, <1>3, <1>4, <1>5, NewRow, RowChange DEF Sofar

(* Which messages a step puts into the queue or takes out of it.           *)
LEMMA Published ==
    ASSUME TypeInv, NEW r \in Request, Acts(r)
    PROVE  \/ queue' = queue
           \/ /\ UploadEnqueue(r)
              /\ queue' = BagAdd(queue, [photo |-> req[r].photo, retries |-> 0])
              /\ DOMAIN queue' =
                    DOMAIN queue \cup {[photo |-> req[r].photo, retries |-> 0]}
           \/ \E f \in req[r].notes :
                 /\ Dispatch(r) /\ req' = [req EXCEPT ![r].notes = @ \ {f}]
                 /\ queue' = BagAdd(queue, [note |-> <<r, f>>, retries |-> 0])
                 /\ DOMAIN queue' = DOMAIN queue \cup {[note |-> <<r, f>>, retries |-> 0]}
<1>0. IsABag(queue)
  BY DEF TypeInv, TypeOK, StoresOK
<1>1. CASE UploadEnqueue(r)
  <2> DEFINE m == [photo |-> req[r].photo, retries |-> 0]
  <2>1. queue' = BagAdd(queue, m)
    BY <1>1 DEF UploadEnqueue, Publish
  <2> HIDE DEF m
  <2>2. DOMAIN queue' = DOMAIN queue \cup {m}
    BY <1>0, <2>1, BagAddType
  <2> QED
    BY <1>1, <2>1, <2>2 DEF m
<1>2. CASE Dispatch(r)
  <2>1. PICK f \in req[r].notes :
           /\ queue' = BagAdd(queue, [note |-> <<r, f>>, retries |-> 0])
           /\ req' = [req EXCEPT ![r].notes = @ \ {f}]
    BY <1>2 DEF Dispatch, Publish
  <2>2. DOMAIN queue' = DOMAIN queue \cup {[note |-> <<r, f>>, retries |-> 0]}
    BY <1>0, <2>1, BagAddType
  <2> QED
    BY <1>2, <2>1, <2>2
<1> QED
  BY <1>1, <1>2, StepEffect DEF Effect, Stores

\* The message a retry publishes.
Successor(m) == [m EXCEPT !.retries = @ + 1]

(* A successor is of the same kind and about the same row. *)
LEMMA SameJob ==
    ASSUME NEW m \in Message
    PROVE  /\ Successor(m) \in ThumbMessage =>
                 m \in ThumbMessage /\ Successor(m).photo = m.photo
           /\ Successor(m) \in NoteMessage =>
                 m \in NoteMessage /\ Successor(m).note = m.note
           /\ Successor(m).retries = m.retries + 1
           /\ ~(m \in ThumbMessage /\ m \in NoteMessage)
<1>1. m \in ThumbMessage \cup NoteMessage
  BY DEF Message
<1> QED
  BY <1>1 DEF Successor, ThumbMessage, NoteMessage

LEMMA WorkerPublished ==
    ASSUME TypeInv, NEW w \in Worker, WorkerActs(w)
    PROVE  \/ queue' = queue
           \/ /\ TakeThumb(w) \/ TakeNote(w)
              /\ \E m \in DOMAIN queue :
                    /\ queue' = BagRemove(queue, m) /\ wk'[w].msg = m
                    /\ wk'[w].pc # "idle"
                    /\ DOMAIN queue' \subseteq DOMAIN queue
                    /\ TakeThumb(w) => m \in ThumbMessage
                    /\ TakeNote(w) => m \in NoteMessage
           \/ /\ \/ Retry(w) /\ wk[w].pc \in {"thumb_retry", "note_retry"}
                 \/ WorkerCrash(w) \/ Redeliver(w)
              /\ wk[w].pc # "idle"
              /\ \E m \in {wk[w].msg, Successor(wk[w].msg)} :
                    /\ Retry(w) => m = Successor(wk[w].msg)
                    /\ WorkerCrash(w) \/ Redeliver(w) => m = wk[w].msg
                    /\ queue' = BagAdd(queue, m)
                    /\ DOMAIN queue' = DOMAIN queue \cup {m}
<1>0. IsABag(queue) /\ wk \in [Worker -> WorkerState]
  BY DEF TypeInv, TypeOK, StoresOK, ActorsOK
<1>1. CASE TakeThumb(w)
  <2>1. PICK m \in DOMAIN queue \cap ThumbMessage :
           /\ queue' = BagRemove(queue, m)
           /\ wk' = [wk EXCEPT ![w] =
                      IF m.photo \in DOMAIN photos
                      THEN [pc |-> "thumb_processing", msg |-> m,
                            status |-> photos[m.photo].status,
                            attempts |-> photos[m.photo].attempts]
                      ELSE [IdleWorker EXCEPT !.pc = "ack", !.msg = m]]
    BY <1>1 DEF TakeThumb
  <2>2. wk'[w].msg = m /\ wk'[w].pc # "idle"
    BY <1>0, <2>1 DEF IdleWorker
  <2>3. DOMAIN queue' \subseteq DOMAIN queue
    BY <1>0, <2>1, BagRemoveType
  <2>4. ~TakeNote(w)
    <3>1. SUFFICES ASSUME TakeNote(w) PROVE FALSE
      OBVIOUS
    <3>2. PICK n \in NoteMessage : wk'[w].msg = n
      BY <1>0, <3>1 DEF TakeNote, IdleWorker
    <3> QED
      BY <2>1, <2>2, <3>2 DEF ThumbMessage, NoteMessage
  <2> QED
    BY <1>1, <2>1, <2>2, <2>3, <2>4
<1>2. CASE TakeNote(w)
  <2>1. PICK m \in DOMAIN queue \cap NoteMessage :
           /\ queue' = BagRemove(queue, m)
           /\ wk' = [wk EXCEPT ![w] =
                      IF m.note \in DOMAIN outbox /\ outbox[m.note].status # "sent"
                      THEN [pc |-> "note_send", msg |-> m,
                            status |-> outbox[m.note].status,
                            attempts |-> outbox[m.note].attempts]
                      ELSE [IdleWorker EXCEPT !.pc = "ack", !.msg = m]]
    BY <1>2 DEF TakeNote
  <2>2. wk'[w].msg = m /\ wk'[w].pc # "idle"
    BY <1>0, <2>1 DEF IdleWorker
  <2>3. DOMAIN queue' \subseteq DOMAIN queue
    BY <1>0, <2>1, BagRemoveType
  <2>4. ~TakeThumb(w)
    <3>1. SUFFICES ASSUME TakeThumb(w) PROVE FALSE
      OBVIOUS
    <3>2. PICK n \in ThumbMessage : wk'[w].msg = n
      BY <1>0, <3>1 DEF TakeThumb, IdleWorker
    <3> QED
      BY <2>1, <2>2, <3>2 DEF ThumbMessage, NoteMessage
  <2> QED
    BY <1>2, <2>1, <2>2, <2>3, <2>4
<1>3. CASE Retry(w)
  <2>1. queue' = queue \/ queue' = BagAdd(queue, Successor(wk[w].msg))
    BY <1>3 DEF Retry, Publish, Successor
  <2>2. ~WorkerCrash(w) /\ ~Redeliver(w)
    <3>1. wk'[w].pc = "ack" /\ wk[w].pc \in {"thumb_retry", "note_retry"}
      BY <1>0, <1>3 DEF Retry, WGoto, WorkerState
    <3> QED
      BY <1>0, <3>1 DEF WorkerCrash, Redeliver, IdleWorker
  <2> QED
    BY <1>0, <1>3, <2>1, <2>2, BagAddType DEF Retry
<1>4. CASE WorkerCrash(w) \/ Redeliver(w)
  <2>1. queue' = BagAdd(queue, wk[w].msg) /\ wk[w].pc # "idle"
    BY <1>4 DEF WorkerCrash, Redeliver, Publish
  <2>2. ~Retry(w)
    <3>1. wk'[w].pc = "idle" \/ wk' = wk
      BY <1>0, <1>4 DEF WorkerCrash, Redeliver, IdleWorker
    <3> QED
      BY <1>0, <3>1 DEF Retry, WGoto, WorkerState
  <2> QED
    BY <1>0, <1>4, <2>1, <2>2, BagAddType
<1> QED
  BY <1>1, <1>2, <1>3, <1>4, WorkerStepEffect DEF WorkerEffect, WorkerStores

(* A message leaves the queue into the hands of a worker.                  *)
LEMMA TakenByWorker ==
    ASSUME TypeInv, [Next]_vars, NEW m \in DOMAIN queue, m \in Message,
           m \notin DOMAIN queue'
    PROVE  \E w \in Worker : /\ WorkerActs(w) /\ wk'[w].msg = m
                             /\ m \in ThumbMessage => TakeThumb(w)
                             /\ m \in NoteMessage => TakeNote(w)
<1>1. ASSUME NEW r \in Request, Acts(r) PROVE FALSE
  BY <1>1, Published
<1>2. ASSUME NEW w \in Worker, WorkerActs(w)
      PROVE  /\ wk'[w].msg = m
             /\ m \in ThumbMessage => TakeThumb(w)
             /\ m \in NoteMessage => TakeNote(w)
  <2>1. PICK n \in DOMAIN queue : /\ queue' = BagRemove(queue, n) /\ wk'[w].msg = n
                                  /\ TakeThumb(w) \/ TakeNote(w)
                                  /\ TakeThumb(w) => n \in ThumbMessage
                                  /\ TakeNote(w) => n \in NoteMessage
    BY <1>2, WorkerPublished
  <2>2. n = m
    BY <2>1 DEF BagRemove, TypeInv, TypeOK, StoresOK, IsABag
  <2> QED
    BY <2>1, <2>2, SameJob
<1> QED
  BY <1>1, <1>2, StepCases DEF Quiet

LEMMA JobsGivenKept == Sofar => JobsGiven'
<1> SUFFICES ASSUME Sofar PROVE JobsGiven'
  OBVIOUS
<1>0. /\ JobsGiven /\ TypeInv /\ LockInv /\ None \notin Message
      /\ \A w \in Worker : wk[w].pc # "idle" => wk[w].msg \in Message
      /\ ThumbMessage \subseteq Message
  BY WorkerFacts, NoneAssumption DEF Sofar, BlobInv, MessageFits, Message
<1>1. ASSUME NEW p, Given(p) PROVE Given(p)'
  BY <1>1, GivenKept DEF Sofar
<1>2. CASE \E r \in Request : Acts(r)
  <2>1. PICK r \in Request : Acts(r)
    BY <1>2
  <2>2. wk' = wk
    BY <1>0, <2>1, StepEffect DEF Effect, Stores
  <2>3. ASSUME NEW m \in DOMAIN queue', m \in ThumbMessage, m \notin DOMAIN queue
        PROVE  Given(m.photo)
    <3>1. UploadEnqueue(r) /\ m = [photo |-> req[r].photo, retries |-> 0]
      <4>1. \A f : m # [note |-> <<r, f>>, retries |-> 0]
        BY <2>3 DEF ThumbMessage
      <4> DEFINE n == [photo |-> req[r].photo, retries |-> 0]
      <4>2. \/ queue' = queue
            \/ UploadEnqueue(r) /\ DOMAIN queue' = DOMAIN queue \cup {n}
            \/ \E f \in req[r].notes :
                  DOMAIN queue' = DOMAIN queue \cup {[note |-> <<r, f>>, retries |-> 0]}
        BY <1>0, <2>1, Published
      <4> HIDE DEF n
      <4>3. UploadEnqueue(r) /\ m = n
        BY <2>3, <4>1, <4>2
      <4> QED
        BY <4>3 DEF n
    <3>2. req[r].pc = "upload_enqueue"
      BY <3>1 DEF UploadEnqueue
    <3>3. Given(req[r].photo)
      BY <1>0, <3>2, KnownGiven DEF Unbound, FreshSteps
    <3> QED
      BY <3>1, <3>3
  <2> QED
    BY <1>0, <1>1, <2>2, <2>3 DEF JobsGiven, JobPhoto
<1>3. CASE \E w \in Worker : WorkerActs(w)
  <2>1. PICK w \in Worker : WorkerActs(w)
    BY <1>3
  <2>2. /\ \A v \in Worker \ {w} : wk'[v] = wk[v]
        /\ WorkerMemory(w)
    BY <1>0, <2>1, WorkerStepEffect DEF WorkerEffect, WorkerStores
  <2>3. wk[w].pc # "idle" => \A m \in {wk[w].msg, Successor(wk[w].msg)} :
                                m \in ThumbMessage => Given(m.photo)
    BY <1>0, SameJob DEF JobsGiven, JobPhoto
  <2>4. \A m \in DOMAIN queue' : m \in ThumbMessage => Given(m.photo)
    BY <1>0, <2>1, <2>3, WorkerPublished DEF JobsGiven
  <2>5. wk'[w].msg \in ThumbMessage => Given(wk'[w].msg.photo)
    <3>1. CASE TakeThumb(w) \/ TakeNote(w)
      <4>1. \E m \in DOMAIN queue : wk'[w].msg = m
        <5>1. CASE TakeThumb(w)
          BY <1>0, <5>1 DEF TakeThumb, IdleWorker, TypeInv, TypeOK, ActorsOK
        <5>2. CASE TakeNote(w)
          BY <1>0, <5>2 DEF TakeNote, IdleWorker, TypeInv, TypeOK, ActorsOK
        <5> QED
          BY <3>1, <5>1, <5>2
      <4> QED
        BY <1>0, <4>1 DEF JobsGiven
    <3>2. CASE ~(TakeThumb(w) \/ TakeNote(w))
      BY <1>0, <2>2, <3>2 DEF WorkerMemory, IdleWorker, JobsGiven, JobPhoto
    <3> QED
      BY <3>1, <3>2
  <2>6. \A v \in Worker : wk'[v].msg \in ThumbMessage => Given(wk'[v].msg.photo)
    BY <1>0, <2>2, <2>5 DEF JobsGiven, JobPhoto
  <2> QED
    BY <1>1, <2>4, <2>6 DEF JobsGiven, JobPhoto
<1>4. CASE Quiet
  BY <1>0, <1>1, <1>4 DEF Quiet, JobsGiven, JobPhoto
<1> QED
  BY <1>2, <1>3, <1>4, StepCases DEF Sofar

LEMMA ReadySavedKept == Sofar => ReadySaved'
<1> SUFFICES ASSUME Sofar, NEW w \in Worker, wk'[w].pc = "thumb_ready"
             PROVE  ThumbSafe(JobPhoto(w))'
  BY DEF ReadySaved
<1>0. TypeInv /\ wk \in [Worker -> WorkerState] /\ files \in [PhotoId -> SUBSET Blob]
  BY DEF Sofar, TypeInv, TypeOK, StoresOK, ActorsOK
<1>1. CASE WorkerActs(w)
  <2>1. CASE wk' = wk /\ Redeliver(w)
    <3>1. wk[w].pc = "thumb_ready" /\ JobPhoto(w)' = JobPhoto(w)
      BY <2>1 DEF JobPhoto
    <3>2. JobPhoto(w) \in PhotoId /\ ThumbSafe(JobPhoto(w))
      BY <1>0, <3>1, WorkerFacts DEF ThumbSteps, Sofar, BlobInv, ReadySaved
    <3>3. PICK p : p = JobPhoto(w)
      OBVIOUS
    <3> QED
      BY <3>1, <3>2, <3>3, ThumbSafeKept DEF ThumbSafe, Gone, Given
  <2>2. CASE ThumbSave(w)
    <3>1. JobPhoto(w) \in PhotoId /\ JobPhoto(w)' = JobPhoto(w)
      BY <1>0, <2>2, WorkerFacts DEF ThumbSave, WGoto, ThumbSteps, JobPhoto, WorkerState
    <3> QED
      BY <1>0, <2>2, <3>1 DEF ThumbSave, ThumbSafe
  <2> QED
    BY <1>0, <1>1, <2>1, <2>2, WorkerStepEffect DEF WorkerEffect, WorkerArrives
<1>2. CASE ~WorkerActs(w)
  <2>1. wk'[w] = wk[w]
    BY <1>0, <1>2, StepCases, StepEffect, WorkerStepEffect
       DEF Sofar, Effect, Stores, WorkerEffect, WorkerStores, Quiet
  <2>2. wk[w].pc = "thumb_ready" /\ JobPhoto(w)' = JobPhoto(w)
    BY <2>1 DEF JobPhoto
  <2>3. JobPhoto(w) \in PhotoId /\ ThumbSafe(JobPhoto(w))
    BY <1>0, <2>2, WorkerFacts DEF ThumbSteps, Sofar, BlobInv, ReadySaved
  <2>4. PICK p : p = JobPhoto(w)
    OBVIOUS
  <2> QED
    BY <2>2, <2>3, <2>4, ThumbSafeKept DEF ThumbSafe, Gone, Given
<1> QED
  BY <1>1, <1>2

(* A request that does not act keeps what it holds. *)
LEMMA HoldsStill ==
    ASSUME TypeInv, [Next]_vars, NEW r \in Request, ~Acts(r)
    PROVE  req'[r] = req[r] /\ call' = call
  BY StepCases, StepEffect, WorkerStepEffect
     DEF Effect, Stores, WorkerEffect, WorkerStores, Quiet

(* One that acts does so alone and not after its end. *)
LEMMA ActsAlone ==
    ASSUME TypeInv, NEW r \in Request, Acts(r)
    PROVE  /\ Effect(r) /\ call' = call /\ wk' = wk
           /\ req[r].pc \notin Over
           /\ req[r] \in ReqState /\ req \in [Request -> ReqState]
           /\ Fits(req[r], call[r], lastId)
  BY StepEffect, RequestFacts DEF Effect, Stores, Memory, ActorsOK

LEMMA UploadWroteKept ==
    ASSUME Sofar, NEW r \in Request
    PROVE  UploadWrote(r)'
<1> SUFFICES ASSUME req'[r].pc = "upload_commit"
             PROVE  HasOriginal(req[r].photo)'
  BY DEF UploadWrote, HasOriginal
<1>0. TypeInv /\ LockInv /\ files \in [PhotoId -> SUBSET Blob]
  BY DEF Sofar, TypeInv, TypeOK, StoresOK
<1>1. CASE Acts(r)
  <2>1. UploadWrite(r)
    BY <1>0, <1>1, ActsAlone DEF Effect, Arrives
  <2>2. /\ req'[r].photo = req[r].photo /\ req[r].photo \in PhotoId
        /\ call[r].image \in Image
    BY <1>0, <1>1, <2>1, ActsAlone, RequestFacts
       DEF UploadWrite, Goto, ReqState, Fits, CallFits, PhotoFits, UploadSteps
  <2> QED
    BY <1>0, <2>1, <2>2 DEF UploadWrite, HasOriginal
<1>2. CASE ~Acts(r)
  <2>1. req'[r] = req[r]
    BY <1>0, <1>2, HoldsStill DEF Sofar
  <2>2. HasOriginal(req[r].photo) /\ req[r].photo \in PhotoId
    BY <1>0, <2>1, RequestFacts
       DEF Sofar, BlobInv, UploadWrote, Fits, PhotoFits, UploadSteps
  <2>3. ASSUME NEW a \in Request, Acts(a), Empties(a)
        PROVE  req[a].photo # req[r].photo
    <3>1. a # r
      BY <1>2, <2>3
    <3>2. Apart(req[r], req[a])
      BY <1>0, <3>1 DEF LockInv
    <3> QED
      BY <2>1, <2>3, <3>2
         DEF Apart, Empties, DeleteFiles, ActionFiles, FreshSteps, Unbound
  <2>4. files[req[r].photo] \subseteq files'[req[r].photo]
    <3>1. PICK p \in PhotoId : p = req[r].photo
      BY <2>2
    <3>2. files[p] \subseteq files'[p]
      BY <1>0, <2>3, <3>1, StepCases, BlobMoves, WorkerBlobMoves DEF Sofar, Quiet
    <3> QED
      BY <3>1, <3>2
  <2> QED
    BY <2>1, <2>2, <2>4 DEF HasOriginal
<1> QED
  BY <1>1, <1>2

LEMMA DeletesGoneKept ==
    ASSUME Sofar, NEW r \in Request
    PROVE  DeletesGone(r)'
<1> SUFFICES ASSUME req'[r].pc \in {"delete_files", "delete_invalidate"}
             PROVE  Gone(req[r].photo)'
  BY DEF DeletesGone, Gone, Given
<1>0. TypeInv /\ LockInv /\ DeletesGone(r)
  BY DEF Sofar, BlobInv
<1>1. PICK p : p = req[r].photo
  OBVIOUS
<1>2. CASE Acts(r) /\ DeleteCommit(r)
  <2>1. req'[r].photo = p /\ req[r].pc = "cascade" /\ p \notin DOMAIN photos'
    BY <1>0, <1>1, <1>2, ActsAlone DEF DeleteCommit, Drop, Restrict, ReqState
  <2>2. Given(p)
    BY <1>0, <1>1, <2>1, KnownGiven DEF Unbound, FreshSteps
  <2>3. Given(p)'
    BY <1>0, <2>2, GivenKept DEF Sofar
  <2> QED
    BY <2>1, <2>3 DEF Gone
<1>3. CASE Acts(r) /\ DeleteFiles(r)
  <2>1. req'[r].photo = p /\ Gone(p)
    BY <1>0, <1>1, <1>3, ActsAlone DEF DeleteFiles, Goto, ReqState, DeletesGone
  <2> QED
    BY <1>0, <2>1, GoneKept DEF Sofar, Gone, Given
<1>4. CASE ~Acts(r)
  <2>1. req'[r].photo = p /\ Gone(p)
    BY <1>0, <1>1, <1>4, HoldsStill DEF Sofar, DeletesGone
  <2> QED
    BY <1>0, <2>1, GoneKept DEF Sofar, Gone, Given
<1> QED
  BY <1>0, <1>2, <1>3, <1>4, ActsAlone DEF Effect, Arrives

LEMMA SendsKept ==
    ASSUME Sofar, NEW r \in Request
    PROVE  SendsWhatIs(r)'
<1>0. TypeInv /\ LockInv /\ SendsWhatIs(r)
  BY DEF Sofar, BlobInv
<1>1. PICK p : p = req[r].photo
  OBVIOUS
<1>2. CASE ~Acts(r)
  <2>1. req'[r] = req[r]
    BY <1>0, <1>2, HoldsStill DEF Sofar
  <2>2. req[r].pc \in SendSteps => Given(p)
    BY <1>0, <1>1, KnownGiven DEF SendSteps, Unbound, FreshSteps
  <2>3. Gone(p) => Gone(p)'
    BY <1>0, GoneKept DEF Sofar
  <2>4. req[r].pc \in SendSteps => p \in PhotoId
    BY <1>0, <2>2, RequestFacts DEF Given
  <2>5. p \in PhotoId /\ ThumbSafe(p) => ThumbSafe(p)'
    BY ThumbSafeKept
  <2> QED
    BY <1>0, <1>1, <2>1, <2>3, <2>4, <2>5 DEF SendsWhatIs, SendSteps, Gone, Given, ThumbSafe
<1>3. CASE Acts(r) /\ req'[r].pc = "load_thumb"
  <2>1. LoadPhoto(r)
    BY <1>0, <1>3, ActsAlone DEF Effect, Arrives
  <2>2. photos[p] \in Photo \/ p \notin DOMAIN photos
    BY <1>0 DEF TypeInv, TypeOK, TablesOK
  <2>3. req'[r].row.status = "none"
    <3>1. CASE p \in DOMAIN photos /\ photos[p].owner = call[r].user
      <4> DEFINE v == [photos[p] EXCEPT !.status = "none", !.attempts = 0]
      <4>1. v.status = "none"
        BY <2>2, <3>1 DEF Photo
      <4>2. req' = [req EXCEPT ![r].pc = "load_thumb", ![r].row = v]
        BY <1>1, <2>1, <3>1 DEF LoadPhoto
      <4> HIDE DEF v
      <4> QED
        BY <1>0, <1>3, <4>1, <4>2, ActsAlone DEF ReqState
    <3>2. CASE ~(p \in DOMAIN photos /\ photos[p].owner = call[r].user)
      <4>1. Answer(r, 404)
        BY <1>1, <2>1, <3>2 DEF LoadPhoto
      <4> QED
        BY <1>0, <1>3, <4>1, ActsAlone DEF Answer, AnswerWith
    <3> QED
      BY <3>1, <3>2
  <2> QED
    BY <1>3, <2>3 DEF SendsWhatIs, SendSteps
<1>4. CASE Acts(r) /\ req'[r].pc \in SendSteps
  <2>1. LoadThumb(r)
    BY <1>0, <1>4, ActsAlone DEF Effect, Arrives, SendSteps, ServeSteps
  <2>2. req[r].pc = "load_thumb"
    BY <2>1 DEF LoadThumb
  <2>3. Given(p) /\ p \in PhotoId /\ req[r].row.status = "none" /\ req[r].row \in View
    BY <1>0, <1>1, <2>2, KnownGiven, RequestFacts
       DEF Unbound, FreshSteps, SendsWhatIs, Given, Fits, RowFits
  <2>4. photos[p] \in Photo \/ p \notin DOMAIN photos
    BY <1>0 DEF TypeInv, TypeOK, TablesOK
  <2>5. /\ req'[r].photo = p
        /\ req'[r].row.status = IF p \in DOMAIN photos THEN photos[p].status ELSE "none"
    <3>1. CASE p \in DOMAIN photos
      <4> DEFINE v == [req[r].row EXCEPT !.status = photos[p].status,
                                         !.attempts = photos[p].attempts]
      <4>1. v.status = photos[p].status
        BY <2>3 DEF View
      <4>2. req' = [req EXCEPT ![r].pc = AfterLoad[call[r].op], ![r].row = v]
        BY <1>0, <1>1, <1>4, <2>1, <3>1, ActsAlone DEF LoadThumb, ReqState
      <4> HIDE DEF v
      <4> QED
        BY <1>0, <1>1, <1>4, <3>1, <4>1, <4>2, ActsAlone DEF ReqState
    <3>2. CASE p \notin DOMAIN photos
      <4>1. Goto(r, AfterLoad[call[r].op])
        BY <1>1, <2>1, <3>2 DEF LoadThumb
      <4> QED
        BY <1>0, <1>1, <1>4, <2>3, <3>2, <4>1, ActsAlone DEF Goto, ReqState
    <3> QED
      BY <3>1, <3>2
  <2>6. req'[r].row.status = "none" => Gone(p)
    BY <2>3, <2>4, <2>5 DEF Gone, Photo, Status
  <2>7. req'[r].row.status = "ready" => ThumbSafe(p)
    BY <2>5 DEF Sofar, BlobInv, ReadyThumbOnDisk, ThumbSafe
  <2>8. (Gone(p) => Gone(p)') /\ (ThumbSafe(p) => ThumbSafe(p)')
    BY <1>0, <2>3, GoneKept, ThumbSafeKept DEF Sofar
  <2> QED
    BY <1>4, <2>5, <2>6, <2>7, <2>8 DEF SendsWhatIs, SendSteps, Gone, Given, ThumbSafe
<1>5. CASE Acts(r) /\ req'[r].pc \notin SendSteps \cup {"load_thumb"}
  BY <1>5 DEF SendsWhatIs, SendSteps
<1> QED
  BY <1>2, <1>3, <1>4, <1>5

(* What an answer 500 to a request for a blob says when it is given.       *)
LEMMA ServingFails ==
    ASSUME Sofar, NEW r \in Request, Acts(r), ~Spend("db"),
           call[r].op \in {"thumb", "file", "thumb_file"}, req'[r].reply = 500
    PROVE  /\ req'[r].photo = req[r].photo
           /\ Removed(req[r].photo)
<1>0. /\ Effect(r) /\ req[r] \in ReqState /\ req \in [Request -> ReqState]
      /\ Fits(req[r], call[r], lastId) /\ req[r].pc \notin Over
      /\ TypeInv /\ LockInv /\ BlobInv
  BY ActsAlone DEF Sofar
<1>1. req[r].reply = 0
  BY <1>0 DEF BlobInv, ServedUnlessRemoved, Over
<1>2. ThumbSend(r) \/ FileSend(r) \/ ThumbFileSend(r)
  <2>1. ~DeadlockAbort(r)
    BY <1>0, DeadlockedWaits
       DEF DeadlockAbort, WaitSteps, Fits, CallFits, Decision, DecideSteps, PatchSteps
  <2>2. ~ApiDbError(r)
    BY DEF ApiDbError
  <2>3. req[r].pc \notin UploadSteps \cup PatchSteps \cup DecideSteps
                         \cup {"flag_refresh"}
    BY <1>0 DEF Fits, CallFits, Decision
  <2>4. \/ UploadWriteFails(r) \/ UploadRefresh(r) \/ UploadEnqueueFails(r)
        \/ PatchCommit(r) \/ PatchRefresh(r)
        \/ ThumbSend(r) \/ FileSend(r) \/ ThumbFileSend(r)
        \/ FlagRefresh(r) \/ DismissCommit(r) \/ ActionResolve(r) \/ ActionPhoto(r)
        \/ DecideRefresh(r) \/ DispatchFails(r)
    BY <1>0, <1>1, <2>1, <2>2 DEF Effect, Memory
  <2> QED
    BY <2>3, <2>4 DEF UploadSteps, PatchSteps, DecideSteps, UploadWriteFails,
       UploadRefresh, UploadEnqueueFails, PatchCommit, PatchRefresh, FlagRefresh,
       DismissCommit, ActionResolve, ActionPhoto, DecideRefresh, DispatchFails
<1>3. req[r].pc \in SendSteps
  BY <1>2 DEF ThumbSend, FileSend, ThumbFileSend, SendSteps
<1>4. Given(req[r].photo)
  BY <1>0, <1>3, KnownGiven DEF SendSteps, Unbound, FreshSteps
<1>5. req'[r].photo = req[r].photo
  BY <1>0, <1>2 DEF ThumbSend, FileSend, ThumbFileSend, Answer, AnswerWith
<1>6. CASE ThumbSend(r)
  <2>1. req[r].row.status = "none"
    BY <1>0, <1>6 DEF ThumbSend, Answer, AnswerWith
  <2> QED
    BY <1>0, <1>3, <1>5, <2>1 DEF BlobInv, SendsWhatIs, Removed
<1>7. CASE FileSend(r)
  <2>1. ~HasOriginal(req[r].photo)
    BY <1>0, <1>7 DEF FileSend, Served, Answer, AnswerWith, HasOriginal
  <2> QED
    BY <1>0, <1>4, <1>5, <2>1 DEF BlobInv, OriginalOnDisk, Removed, Gone
<1>8. CASE ThumbFileSend(r)
  <2>1. \/ req[r].row.status = "none"
        \/ req[r].row.status = "ready" /\ "thumb" \notin files[req[r].photo]
    BY <1>0, <1>8 DEF ThumbFileSend, Served, Answer, AnswerWith
  <2>2. req[r].pc = "thumb_file_send"
    BY <1>8 DEF ThumbFileSend
  <2> QED
    BY <1>0, <1>3, <1>5, <2>1, <2>2 DEF BlobInv, SendsWhatIs, ThumbSafe, Removed
<1> QED
  BY <1>2, <1>5, <1>6, <1>7, <1>8

LEMMA ServedKept ==
    ASSUME Sofar, NEW r \in Request
    PROVE  ServedUnlessRemoved(r)'
<1>0. TypeInv /\ LockInv /\ ServedUnlessRemoved(r)
  BY DEF Sofar, BlobInv
<1>1. req'[r].pc # "done" => req'[r].reply = 0
  <2>1. CASE Acts(r)
    BY <1>0, <2>1, ActsAlone DEF Effect, Memory, Over, ServedUnlessRemoved
  <2>2. CASE ~Acts(r)
    BY <1>0, <2>2, HoldsStill DEF Sofar, ServedUnlessRemoved
  <2> QED
    BY <2>1, <2>2
<1>2. ASSUME Never({"db"})', call'[r].op \in {"thumb", "file", "thumb_file"},
             req'[r].reply = 500
      PROVE  Removed(req[r].photo)'
  <2>1. Never({"db"}) /\ ~Spend("db")
    BY <1>2, NeverKept DEF Sofar, Fault
  <2>2. req'[r].photo = req[r].photo /\ Removed(req[r].photo)
    <3>1. CASE Acts(r)
      BY <1>0, <1>2, <2>1, <3>1, ActsAlone, ServingFails
    <3>2. CASE ~Acts(r)
      BY <1>0, <1>2, <2>1, <3>2, HoldsStill DEF Sofar, ServedUnlessRemoved
    <3> QED
      BY <3>1, <3>2
  <2>3. PICK p : p = req[r].photo
    OBVIOUS
  <2>4. Removed(p)'
    BY <2>2, <2>3, RemovedStays DEF Sofar
  <2> QED
    BY <2>2, <2>3, <2>4 DEF Removed, Gone, Given, ActionHasRemovedFiles
<1> QED
  BY <1>1, <1>2 DEF ServedUnlessRemoved

LEMMA LastIdGrows ==
    ASSUME TypeInv, [Next]_vars
    PROVE  lastId \in Nat /\ lastId' \in Nat /\ lastId' >= lastId
<1>0. lastId \in Nat
  BY ConstantAssumption DEF TypeInv, TypeOK, TablesOK
<1>1. ASSUME NEW r \in Request, Acts(r)
      PROVE  lastId' = lastId \/ lastId' = lastId + 1
  BY <1>1, ActsAlone DEF Effect, Stores, UploadFlush
<1>2. ASSUME NEW w \in Worker, WorkerActs(w)
      PROVE  lastId' = lastId
  BY <1>2, WorkerStepEffect DEF WorkerEffect, WorkerStores
<1>3. lastId' = lastId \/ lastId' = lastId + 1
  BY <1>1, <1>2, StepCases DEF Quiet
<1> QED
  BY <1>0, <1>3

LEMMA NoOriginalKept == Sofar => NoOriginalYet'
<1> SUFFICES ASSUME Sofar, Never({"rmtree"})'
             PROVE  /\ \A p \in PhotoId : p > lastId' => ~HasOriginal(p)'
                    /\ \A r \in Request :
                          req'[r].pc \in {"action_invalidate", "action_commit"} =>
                              ~HasOriginal(req[r].photo)'
  BY DEF NoOriginalYet, HasOriginal
<1>0. /\ TypeInv /\ LockInv /\ [Next]_vars
      /\ Never({"rmtree"}) /\ ~Spend("rmtree")
  BY NeverKept DEF Sofar, Fault
<1>1. /\ \A p \in PhotoId : p > lastId => ~HasOriginal(p)
      /\ \A r \in Request :
            req[r].pc \in {"action_invalidate", "action_commit"} =>
                ~HasOriginal(req[r].photo)
  BY <1>0 DEF Sofar, BlobInv, NoOriginalYet
<1>2. ASSUME NEW p \in PhotoId, ~HasOriginal(p), HasOriginal(p)'
      PROVE  \E a \in Request : /\ Acts(a) /\ req[a].pc = "upload_write"
                                /\ req[a].photo = p
  BY <1>0, <1>2, StepCases, BlobMoves, WorkerBlobMoves
     DEF Quiet, HasOriginal, UploadWrite, UploadWriteFails
<1>3. ASSUME NEW p \in PhotoId, p > lastId'
      PROVE  ~HasOriginal(p)'
  <2>1. lastId' >= lastId /\ lastId \in Nat /\ lastId' \in Nat
    BY <1>0, LastIdGrows
  <2>2. p > lastId
    BY <1>3, <2>1 DEF PhotoId
  <2>3. ASSUME NEW a \in Request, req[a].pc = "upload_write", req[a].photo = p
        PROVE  FALSE
    BY <1>0, <2>1, <2>2, <2>3, Facts DEF Knows, Unbound
  <2> QED
    BY <1>1, <1>2, <2>2, <2>3
<1>4. ASSUME NEW r \in Request,
             req'[r].pc \in {"action_invalidate", "action_commit"}
      PROVE  ~HasOriginal(req[r].photo)'
  <2>1. CASE Acts(r) /\ ActionFiles(r)
    <3>1. /\ files' = [files EXCEPT ![req[r].photo] = {}]
          /\ req[r].pc = "action_files"
      BY <1>0, <2>1 DEF ActionFiles, DeletePhotoFiles
    <3>2. /\ req'[r].photo = req[r].photo /\ req[r].photo \in PhotoId
          /\ files \in [PhotoId -> SUBSET Blob]
      BY <1>0, <2>1, <3>1, ActsAlone, Facts, RequestFacts
         DEF ActionFiles, Goto, ReqState, Knows, Unbound, StoresOK
    <3> QED
      BY <3>1, <3>2 DEF HasOriginal
  <2>2. CASE ~(Acts(r) /\ ActionFiles(r))
    <3>1. /\ req[r].pc \in {"action_invalidate", "action_commit"}
          /\ req'[r].photo = req[r].photo /\ ~UploadWrite(r) /\ ~UploadWriteFails(r)
      <4>1. CASE Acts(r)
        <5>1. ActionInvalidate(r)
          BY <1>0, <1>4, <2>2, <4>1, ActsAlone DEF Effect, Arrives
        <5> QED
          BY <1>0, <4>1, <5>1, ActsAlone
             DEF ActionInvalidate, Goto, ReqState, UploadWrite, UploadWriteFails
      <4>2. CASE ~Acts(r)
        BY <1>0, <1>4, <4>2, HoldsStill DEF UploadWrite, UploadWriteFails
      <4> QED
        BY <4>1, <4>2
    <3>2. PICK p \in PhotoId : p = req[r].photo
      BY <1>0, <3>1, Facts, RequestFacts DEF Knows, Unbound
    <3>3. ~HasOriginal(p)
      BY <1>1, <3>1, <3>2
    <3>4. ASSUME NEW a \in Request, req[a].pc = "upload_write", req[a].photo = p
          PROVE  FALSE
      <4>1. a # r
        BY <3>1, <3>4
      <4>2. Apart(req[a], req[r])
        BY <1>0, <4>1 DEF LockInv
      <4> QED
        BY <3>1, <3>2, <3>4, <4>2 DEF Apart, FreshSteps, Unbound
    <3>5. ~HasOriginal(p)'
      BY <1>2, <3>3, <3>4
    <3> QED
      BY <3>1, <3>2, <3>5 DEF HasOriginal
  <2> QED
    BY <2>1, <2>2
<1> QED
  BY <1>3, <1>4

(* An upload that ends without a row answers 500 or is dead. *)
LEMMA UploadOver ==
    ASSUME Sofar, NEW r \in Request, Acts(r), req[r].pc = "upload_commit",
           ~UploadCommit(r), ~Spend("db")
    PROVE  req'[r].pc = "crashed" /\ req'[r].photo = req[r].photo
<1>1. ApiCrash(r) /\ req[r] \in ReqState /\ req \in [Request -> ReqState]
  BY ActsAlone DEF Sofar, Effect, Departs, ApiDbError
<1> QED
  BY <1>1 DEF ApiCrash, ReqState

(* A row goes by the commit of a deletion or of an action.                 *)
LEMMA RemovedBy ==
    ASSUME TypeInv, [Next]_vars, NEW p, p \in DOMAIN photos, p \notin DOMAIN photos'
    PROVE  \E r \in Request : /\ Acts(r) /\ req[r].photo = p
                              /\ DeleteCommit(r) \/ ActionCommit(r)
<1>1. ASSUME NEW r \in Request, Acts(r)
      PROVE  (DeleteCommit(r) \/ ActionCommit(r)) /\ req[r].photo = p
  <2>1. CASE photos' = photos \/ UploadCommit(r) \/ PatchCommit(r)
    BY <2>1 DEF UploadCommit, PatchCommit, Put
  <2>2. CASE DeleteCommit(r) \/ ActionCommit(r)
    BY <2>2 DEF DeleteCommit, ActionCommit, Drop, Restrict
  <2> QED
    BY <1>1, <2>1, <2>2, ActsAlone DEF Effect, Stores
<1>2. ASSUME NEW w \in Worker, WorkerActs(w) PROVE FALSE
  BY <1>2, WorkerStepEffect DEF WorkerEffect, WorkerStores
<1> QED
  BY <1>1, <1>2, StepCases DEF Quiet

LEMMA RemovedOriginalKept == Sofar => RemovedOriginalGone'
<1> DEFINE Excused(r, p) ==
             /\ req[r].photo = p
             /\ \/ req[r].pc \in {"upload_commit", "delete_files", "crashed"}
                \/ call[r].op = "upload" /\ req[r].reply = 500
<1> SUFFICES ASSUME Sofar, Never({"rmtree", "db"})',
                    NEW p, p \in (1..lastId') \ DOMAIN photos', HasOriginal(p)'
             PROVE  \E r \in Request : Excused(r, p)'
  BY DEF RemovedOriginalGone
<1>0. /\ TypeInv /\ LockInv /\ RecordInv /\ BlobInv /\ [Next]_vars
      /\ Never({"rmtree", "db"}) /\ ~Spend("rmtree") /\ ~Spend("db")
      /\ Never({"rmtree"})
      /\ files \in [PhotoId -> SUBSET Blob]
  <2>1. Never({"rmtree", "db"}) /\ ~Spend("rmtree") /\ ~Spend("db")
    BY NeverKept DEF Sofar, Fault
  <2> QED
    BY <2>1 DEF Sofar, Never, TypeInv, TypeOK, StoresOK
<1>1. p \in PhotoId
  <2>1. lastId' <= MaxPhotos /\ MaxPhotos \in Nat /\ lastId' \in Nat
    BY <1>0, TypeStep, ConstantAssumption DEF TypeInv, TypeOK, TablesOK
  <2> QED
    BY <2>1 DEF PhotoId
<1>2. CASE p \notin 1..lastId
  <2>1. lastId' # lastId /\ p > lastId
    BY <1>0, <1>2, LastIdGrows
  <2>2. PICK r \in Request : Acts(r) /\ UploadFlush(r)
    <3>1. ASSUME NEW r \in Request, Acts(r) PROVE UploadFlush(r)
      BY <1>0, <2>1, <3>1, ActsAlone DEF Effect, Stores
    <3>2. ASSUME NEW w \in Worker, WorkerActs(w) PROVE FALSE
      BY <1>0, <2>1, <3>2, WorkerStepEffect DEF WorkerEffect, WorkerStores
    <3> QED
      BY <1>0, <2>1, <3>1, <3>2, StepCases DEF Quiet
  <2>3. ~HasOriginal(p)
    BY <1>0, <1>1, <2>1 DEF BlobInv, NoOriginalYet
  <2> QED
    BY <2>2, <2>3 DEF UploadFlush, HasOriginal
<1>3. CASE p \in DOMAIN photos
  <2>1. PICK r \in Request : /\ Acts(r) /\ req[r].photo = p
                             /\ DeleteCommit(r) \/ ActionCommit(r)
    BY <1>0, <1>3, RemovedBy
  <2>2. CASE DeleteCommit(r)
    <3>0. req[r] \in ReqState /\ req \in [Request -> ReqState]
      BY <1>0, <2>1, ActsAlone
    <3>1. req'[r].photo = p /\ req'[r].pc = "delete_files"
      BY <2>1, <2>2, <3>0 DEF DeleteCommit, ReqState
    <3> QED
      BY <3>1
  <2>3. CASE ActionCommit(r)
    <3>1. ~HasOriginal(p)
      BY <1>0, <2>1, <2>3 DEF ActionCommit, BlobInv, NoOriginalYet
    <3> QED
      BY <2>3, <3>1 DEF ActionCommit, HasOriginal
  <2> QED
    BY <2>1, <2>2, <2>3
<1>4. CASE p \in (1..lastId) \ DOMAIN photos /\ ~HasOriginal(p)
  <2>1. PICK r \in Request : /\ Acts(r) /\ req[r].photo = p
                             /\ UploadWrite(r) \/ UploadWriteFails(r)
    BY <1>0, <1>1, <1>4, StepCases, BlobMoves, WorkerBlobMoves DEF Quiet, HasOriginal
  <2>2. /\ req'[r].photo = p
        /\ req'[r].pc = "upload_commit" \/ req'[r].reply = 500
    <3>1. CASE UploadWrite(r)
      BY <1>0, <2>1, <3>1, ActsAlone DEF UploadWrite, Goto, ReqState
    <3>2. CASE UploadWriteFails(r)
      <4>1. Answer(r, 500)
        BY <3>2 DEF UploadWriteFails
      <4> QED
        BY <1>0, <2>1, <4>1, ActsAlone DEF Answer, AnswerWith
    <3> QED
      BY <2>1, <3>1, <3>2
  <2>3. call'[r].op = "upload"
    BY <1>0, <2>1, ActsAlone
       DEF UploadWrite, UploadWriteFails, Fits, CallFits, UploadSteps
  <2> QED
    BY <2>2, <2>3
<1>5. CASE p \in (1..lastId) \ DOMAIN photos /\ HasOriginal(p)
  <2>1. PICK r \in Request : Excused(r, p)
    BY <1>0, <1>5 DEF BlobInv, RemovedOriginalGone
  <2>2. CASE ~Acts(r)
    BY <1>0, <2>1, <2>2, HoldsStill
  <2>3. CASE Acts(r)
    <3>1. req[r].pc \in {"upload_commit", "delete_files"}
      BY <1>0, <2>1, <2>3, ActsAlone DEF BlobInv, ServedUnlessRemoved, Over
    <3>2. CASE req[r].pc = "upload_commit"
      <4>1. ~UploadCommit(r)
        BY <2>1 DEF UploadCommit, Put
      <4> QED
        BY <1>0, <2>1, <2>3, <3>2, <4>1, UploadOver
    <3>3. CASE req[r].pc = "delete_files"
      <4>1. DeleteFiles(r) \/ ApiCrash(r)
        BY <1>0, <2>3, <3>3, ActsAlone DEF Effect, Departs
      <4>2. ~DeleteFiles(r)
        BY <1>0, <1>1, <2>1 DEF DeleteFiles, DeletePhotoFiles, HasOriginal
      <4>3. req[r] \in ReqState /\ req \in [Request -> ReqState]
        BY <1>0, <2>3, ActsAlone
      <4>4. req'[r].pc = "crashed" /\ req'[r].photo = p
        <5>1. req[r].photo = p /\ ApiCrash(r)
          BY <2>1, <4>1, <4>2
        <5> HIDE DEF Excused
        <5> QED
          BY <4>3, <5>1 DEF ApiCrash, ReqState
      <4> QED
        BY <4>4
    <3> QED
      BY <3>1, <3>2, <3>3
  <2> QED
    BY <2>2, <2>3
<1> QED
  BY <1>2, <1>3, <1>4, <1>5

LEMMA BlobStep == TypeInv /\ LockInv /\ RecordInv /\ BlobInv /\ [Next]_vars => BlobInv'
  BY OriginalKept, ReadyKept, JobsGivenKept, ReadySavedKept, NoOriginalKept,
     RemovedOriginalKept, UploadWroteKept, DeletesGoneKept, SendsKept, ServedKept
     DEF Sofar, BlobInv

LEMMA BlobInit == Init => BlobInv
<1> SUFFICES ASSUME Init PROVE BlobInv
  OBVIOUS
<1>0. /\ TypeInv /\ LockInv
      /\ \A r \in Request : /\ req[r].pc \in {"upload", "get", "decide", "load_photo"}
                            /\ req[r].reply = 0
      /\ \A w \in Worker : wk[w].pc = "idle" /\ wk[w].msg \notin ThumbMessage
  BY TypeInit, LockInit, NoneAssumption
     DEF Init, Fresh, FirstStep, IdleWorker, Message
<1>1. \A p \in DOMAIN photos : p \in 1..Len(Seeds) /\ photos[p] = Seeds[p].row
  BY DEF Init
<1>2. ASSUME NEW p \in 1..Len(Seeds)
      PROVE  /\ Seeds[p].image \in files[p] /\ Seeds[p].image \in Image
             /\ Seeds[p].row.status = "ready" => "thumb" \in files[p]
  <2>1. p \in PhotoId /\ ~(p > Len(Seeds))
    BY SeedAssumption, ConstantAssumption DEF PhotoId
  <2>2. Seeds[p] \in [row : Photo, image : Image]
    <3> DEFINE S == [row : Photo, image : Image]
    <3>1. Seeds \in Seq(S)
      BY SeedAssumption
    <3> HIDE DEF S
    <3>2. \A q \in 1..Len(Seeds) : Seeds[q] \in S
      BY <3>1
    <3> QED
      BY <3>2 DEF S
  <2> QED
    BY <2>1, <2>2 DEF Init
<1>3. OriginalOnDisk /\ ReadyThumbOnDisk
  BY <1>1, <1>2 DEF OriginalOnDisk, ReadyThumbOnDisk, HasOriginal
<1>4. JobsGiven
  <2>1. ASSUME NEW m \in DOMAIN queue PROVE m.photo \in DOMAIN photos
    BY DEF Init
  <2> QED
    BY <1>0, <2>1, VisibleGiven DEF JobsGiven
<1>5. ReadySaved
  BY <1>0 DEF ReadySaved
<1>6. NoOriginalYet
  <2>1. \A p \in PhotoId : p > lastId => files[p] = {}
    BY DEF Init
  <2> QED
    BY <1>0, <2>1 DEF NoOriginalYet, HasOriginal
<1>7. RemovedOriginalGone
  BY DEF Init, RemovedOriginalGone
<1>8. ASSUME NEW r \in Request
      PROVE  UploadWrote(r) /\ DeletesGone(r) /\ SendsWhatIs(r) /\ ServedUnlessRemoved(r)
  BY <1>0 DEF UploadWrote, DeletesGone, SendsWhatIs, ServedUnlessRemoved, SendSteps
<1> QED
  BY <1>3, <1>4, <1>5, <1>6, <1>7, <1>8 DEF BlobInv

(* Blobs are written before the row is committed and removed after it is   *)
(* gone, but for an action, and nobody serves what was never written.      *)
THEOREM BlobInvCorrect == Spec => []BlobInv
  BY TypeInvCorrect, LockInvCorrect, RecordInvCorrect, BlobInit, BlobStep, PTL DEF Spec

(* A visible photo has its original, unless a moderator's action has taken *)
(* it off the disk: uploads write before they commit, deletions commit     *)
(* before they remove.                                                     *)
THEOREM OriginalThere == Spec => []OriginalOnDisk
<1>1. BlobInv => OriginalOnDisk
  BY DEF BlobInv
<1> QED
  BY <1>1, BlobInvCorrect, PTL

(* Whoever reads "ready" finds the thumbnail: generate_thumbnail commits   *)
(* the status after it has saved the file.                                 *)
THEOREM ReadyThumbThere == Spec => []ReadyThumbOnDisk
<1>1. BlobInv => ReadyThumbOnDisk
  BY DEF BlobInv
<1> QED
  BY <1>1, BlobInvCorrect, PTL

(* The original of a removed photo is gone or about to go, as long as      *)
(* neither the database nor rmtree fails.                                  *)
THEOREM NoOriginalLeft == Spec => []RemovedOriginalGone
<1>1. BlobInv => RemovedOriginalGone
  BY DEF BlobInv
<1> QED
  BY <1>1, BlobInvCorrect, PTL

(* A blob is answered 500 only for a photo that is being removed.          *)
THEOREM ServingFailsForRemoved == Spec => []ServingFailsOnlyOnRemoval
<1>1. BlobInv => ServingFailsOnlyOnRemoval
  BY DEF BlobInv, ServedUnlessRemoved, ServingFailsOnlyOnRemoval, Removed, Gone
<1> QED
  BY <1>1, BlobInvCorrect, PTL

---------------------------------------------------------------------------
(* How a worker gets on.                                                   *)

\* What may befall a task at its statements, and at any other time.
Lapses(w) == WorkerCrash(w) \/ Redeliver(w) \/ WorkerDbError(w)
Falls(w)  == WorkerCrash(w) \/ Redeliver(w)

WorkerDeparts(w) ==
    /\ wk[w].pc = "idle" => TakeThumb(w) \/ TakeNote(w)
    /\ wk[w].pc = "ack" => Ack(w) \/ Falls(w)
    /\ wk[w].pc = "thumb_processing" => ThumbProcessing(w) \/ Lapses(w)
    /\ wk[w].pc = "thumb_open" => ThumbOpen(w) \/ Falls(w)
    /\ wk[w].pc = "thumb_save" => ThumbSave(w) \/ ThumbSaveFails(w) \/ Falls(w)
    /\ wk[w].pc = "thumb_ready" => ThumbReady(w) \/ Lapses(w)
    /\ wk[w].pc = "thumb_failed" => ThumbFailed(w) \/ Lapses(w)
    /\ wk[w].pc = "thumb_invalidate" => ThumbInvalidate(w) \/ Falls(w)
    /\ wk[w].pc = "thumb_pending" => ThumbPending(w) \/ Lapses(w)
    /\ wk[w].pc = "thumb_pending_invalidate" => ThumbPendingInvalidate(w) \/ Falls(w)
    /\ wk[w].pc \in {"thumb_retry", "note_retry"} => Retry(w) \/ Falls(w)
    /\ wk[w].pc = "note_send" =>
          NoteSend(w) \/ NoteSendFails(w) \/ NoteMailDirFails(w) \/ Lapses(w)
    /\ wk[w].pc = "note_sent" => NoteSent(w) \/ Lapses(w)
    /\ wk[w].pc = "note_failed" => NoteFailed(w) \/ Lapses(w)

LEMMA WorkerDeparture ==
    ASSUME NEW w \in Worker, WorkerActs(w)
    PROVE  WorkerDeparts(w)
<1>1. /\ TakeThumb(w) \/ TakeNote(w) => wk[w].pc = "idle"
      /\ Ack(w) => wk[w].pc = "ack"
  BY DEF TakeThumb, TakeNote, Ack
<1>2. /\ ThumbProcessing(w) => wk[w].pc = "thumb_processing"
      /\ ThumbOpen(w) => wk[w].pc = "thumb_open"
      /\ ThumbSave(w) \/ ThumbSaveFails(w) => wk[w].pc = "thumb_save"
      /\ ThumbReady(w) => wk[w].pc = "thumb_ready"
      /\ ThumbFailed(w) => wk[w].pc = "thumb_failed"
      /\ ThumbPending(w) => wk[w].pc = "thumb_pending"
  BY DEF ThumbProcessing, ThumbOpen, ThumbSave, ThumbSaveFails, ThumbReady,
     ThumbFailed, ThumbPending
<1>3. /\ ThumbInvalidate(w) => wk[w].pc = "thumb_invalidate"
      /\ ThumbPendingInvalidate(w) => wk[w].pc = "thumb_pending_invalidate"
      /\ Retry(w) => wk[w].pc \in {"thumb_retry", "note_retry"}
  BY DEF ThumbInvalidate, ThumbPendingInvalidate, Retry
<1>4. /\ NoteSend(w) \/ NoteSendFails(w) \/ NoteMailDirFails(w) =>
            wk[w].pc = "note_send"
      /\ NoteSent(w) => wk[w].pc = "note_sent"
      /\ NoteFailed(w) => wk[w].pc = "note_failed"
  BY DEF NoteSend, NoteSendFails, NoteMailDirFails, NoteSent, NoteFailed
<1>5. /\ WorkerCrash(w) \/ Redeliver(w) => wk[w].pc # "idle"
      /\ WorkerDbError(w) =>
            wk[w].pc \in {"thumb_processing", "thumb_ready", "thumb_failed",
                          "thumb_pending", "note_send", "note_sent", "note_failed"}
  BY DEF WorkerCrash, Redeliver, WorkerDbError
<1> QED
  BY <1>1, <1>2, <1>3, <1>4, <1>5 DEF WorkerActs, WorkerTurn, WorkerDeparts, Lapses, Falls

---------------------------------------------------------------------------
(* The cache follows the rows.                                             *)

(* No action that has dropped the key is about to commit. *)
KeptByActions(p) ==
    \A r \in Request : req[r].pc = "action_commit" => req[r].photo # p

LEMMA FillAddsEntry ==
    ASSUME TypeInv, NEW r \in Request, GetFill(r), NEW p, p \in DOMAIN cache'
    PROVE  \/ p \in DOMAIN cache /\ cache'[p] = cache[p]
           \/ /\ p = req[r].photo /\ req[r].pc = "get_fill" /\ UNCHANGED photos
              /\ \/ cache'[p].overtaken
                 \/ /\ p \in DOMAIN photos /\ cache'[p].view = photos[p]
                    /\ KeptByActions(p)
<1> DEFINE q == req[r].photo
           e == [view |-> req[r].row, overtaken |-> Overtaken(q, req[r].row)]
           Filled == \/ p \in DOMAIN cache /\ cache'[p] = cache[p]
                     \/ p = q /\ cache'[p] = e
<1>1. ASSUME cache' = Put(cache, q, e)
      PROVE  Filled
  <2> HIDE DEF e
  <2> QED
    BY <1>1 DEF Put
<1>2. ASSUME cache' = cache
      PROVE  Filled
  BY <1>2
<1>3. req[r].pc = "get_fill" /\ UNCHANGED photos /\ Filled
  <2> HIDE DEF Filled
  <2> QED
    BY <1>1, <1>2 DEF GetFill, database
<1>4. \/ e.overtaken
      \/ q \in DOMAIN photos /\ e.view = photos[q] /\ KeptByActions(q)
  BY DEF Overtaken, KeptByActions
<1> HIDE DEF e
<1> QED
  BY <1>3, <1>4

(* An entry is there since before the step, or GET has just filled it.     *)
LEMMA CacheEntry ==
    ASSUME TypeInv, [Next]_vars, NEW p, p \in DOMAIN cache'
    PROVE  \/ p \in DOMAIN cache /\ cache'[p] = cache[p]
           \/ \E r \in Request :
                 /\ Acts(r) /\ GetFill(r) /\ p = req[r].photo
                 /\ req[r].pc = "get_fill" /\ UNCHANGED photos
                 /\ \/ cache'[p].overtaken
                    \/ /\ p \in DOMAIN photos /\ cache'[p].view = photos[p]
                       /\ KeptByActions(p)
<1>1. ASSUME NEW q, CacheDelete(q)
      PROVE  p \in DOMAIN cache /\ cache'[p] = cache[p]
  BY <1>1 DEF CacheDelete, Drop, Restrict
<1>2. ASSUME NEW r \in Request, Acts(r), ~GetFill(r)
      PROVE  p \in DOMAIN cache /\ cache'[p] = cache[p]
  <2>1. \/ cache' = cache
        \/ PatchInvalidate(r) \/ DeleteInvalidate(r) \/ ActionInvalidate(r)
    BY <1>2, StepEffect DEF Effect, Stores
  <2> QED
    BY <1>1, <2>1 DEF PatchInvalidate, DeleteInvalidate, ActionInvalidate
<1>3. ASSUME NEW w \in Worker, WorkerActs(w)
      PROVE  p \in DOMAIN cache /\ cache'[p] = cache[p]
  <2>1. cache' = cache \/ ThumbInvalidate(w) \/ ThumbPendingInvalidate(w)
    BY <1>3, WorkerStepEffect DEF WorkerEffect, WorkerStores
  <2> QED
    BY <1>1, <2>1 DEF ThumbInvalidate, ThumbPendingInvalidate
<1>4. CASE \E q \in PhotoId : Expire(q)
  BY <1>4 DEF Expire, Drop, Restrict
<1>5. CASE cache' = cache
  BY <1>5
<1>6. \/ \E r \in Request : Acts(r)
      \/ \E w \in Worker : WorkerActs(w)
      \/ \E q \in PhotoId : Expire(q)
      \/ cache' = cache
  BY DEF Next, Acts, WorkerActs, Idle, vars
<1> QED
  BY <1>2, <1>3, <1>4, <1>5, <1>6, FillAddsEntry

(* A worker that is to invalidate the key goes on until it has, or the     *)
(* message is back in the queue.                                           *)
LEMMA RefreshGoesOn ==
    ASSUME TypeInv, NEW w \in Worker, WorkerActs(w), NEW p \in DOMAIN photos,
           Refreshes(w, p), p \in DOMAIN cache', ~Spend("cache"), ~Spend("db")
    PROVE  Refreshes(w, p)' \/ \E m \in DOMAIN queue' \cap ThumbMessage : m.photo = p
<1>0. /\ wk \in [Worker -> WorkerState] /\ wk[w].msg \in ThumbMessage
      /\ wk[w] \in WorkerState /\ WorkerDeparts(w) /\ JobPhoto(w) = p
      /\ wk[w].pc \in ThumbSteps \ {"thumb_retry"}
  BY WorkerFacts, WorkerDeparture DEF ActorsOK, Refreshes
<1>1. CASE WorkerCrash(w)
  <2>1. wk[w].msg \in DOMAIN queue'
    <3>1. queue' = BagAdd(queue, wk[w].msg) /\ IsABag(queue)
      BY <1>1 DEF WorkerCrash, Publish, TypeInv, TypeOK, StoresOK
    <3>2. DOMAIN queue' = DOMAIN queue \cup {wk[w].msg}
      BY <3>1, BagAddType
    <3> QED
      BY <3>2
  <2> QED
    BY <1>0, <2>1 DEF JobPhoto
<1>2. CASE Redeliver(w)
  BY <1>0, <1>2 DEF Redeliver, Refreshes, JobPhoto
<1>3. ~WorkerDbError(w)
  BY DEF WorkerDbError
<1>4. ~ThumbInvalidate(w) /\ ~ThumbPendingInvalidate(w)
  BY <1>0 DEF ThumbInvalidate, ThumbPendingInvalidate, CacheDelete, Drop, Restrict
<1>5. ASSUME NEW next \in ThumbSteps \ {"thumb_retry"}, WGoto(w, next)
      PROVE  Refreshes(w, p)'
  BY <1>0, <1>5 DEF WGoto, WorkerState, Refreshes, JobPhoto
<1>6. CASE ThumbProcessing(w)
  <2>1. WGoto(w, "thumb_open")
    BY <1>0, <1>6 DEF ThumbProcessing, UpdateThumb
  <2> QED
    BY <1>5, <2>1 DEF ThumbSteps
<1>7. CASE ThumbReady(w) \/ ThumbFailed(w)
  <2>1. WGoto(w, "thumb_invalidate")
    BY <1>0, <1>7 DEF ThumbReady, ThumbFailed, UpdateStatus, UpdateThumb
  <2> QED
    BY <1>5, <2>1 DEF ThumbSteps
<1>8. CASE ThumbPending(w)
  <2>1. WGoto(w, "thumb_pending_invalidate")
    BY <1>0, <1>8 DEF ThumbPending, UpdateStatus, UpdateThumb
  <2> QED
    BY <1>5, <2>1 DEF ThumbSteps
<1>9. CASE ThumbOpen(w)
  <2>1. \E next \in {"thumb_failed", "thumb_save", "thumb_pending"} : WGoto(w, next)
    BY <1>9 DEF ThumbOpen
  <2> QED
    BY <1>5, <2>1 DEF ThumbSteps
<1>10. CASE ThumbSave(w) \/ ThumbSaveFails(w)
  <2>1. \E next \in {"thumb_ready", "thumb_pending"} : WGoto(w, next)
    BY <1>10 DEF ThumbSave, ThumbSaveFails
  <2> QED
    BY <1>5, <2>1 DEF ThumbSteps
<1> QED
  BY <1>0, <1>1, <1>2, <1>3, <1>4, <1>6, <1>7, <1>8, <1>9, <1>10
     DEF WorkerDeparts, Lapses, Falls, ThumbSteps

LEMMA CacheGivenKept ==
    ASSUME TypeInv, LockInv, CacheInv, [Next]_vars, NEW p, p \in DOMAIN cache'
    PROVE  Given(p) /\ Given(p)'
<1>1. Given(p)
  <2>1. CASE p \in DOMAIN cache
    BY <2>1 DEF CacheInv
  <2>2. CASE \E r \in Request : p = req[r].photo /\ req[r].pc = "get_fill"
    BY <2>2, KnownGiven DEF Unbound, FreshSteps
  <2> QED
    BY <2>1, <2>2, CacheEntry
<1> QED
  BY <1>1, GivenKept

(* An entry of a photo that is there and stays.                            *)
LEMMA EntryOfRow ==
    ASSUME TypeInv, LockInv, [Next]_vars,
           NEW p, p \in DOMAIN photos, p \in DOMAIN photos',
           p \in DOMAIN cache, p \in DOMAIN cache', cache'[p] = cache[p],
           EntryDue(p), ~Spend("api_crash"), ~Spend("db"), ~Spend("cache")
    PROVE  EntryDue(p)'
<1>1. CASE cache[p].view = photos[p]
  <2>1. CASE photos'[p] = photos[p]
    BY <1>1, <2>1 DEF EntryDue
  <2>2. CASE \E r \in Request :
                /\ Acts(r) /\ p = req[r].photo
                /\ UploadCommit(r) \/ (PatchCommit(r) /\ Goto(r, "patch_refresh"))
    <3>1. PICK r \in Request :
                /\ Acts(r) /\ p = req[r].photo
                /\ UploadCommit(r) \/ (PatchCommit(r) /\ Goto(r, "patch_refresh"))
      BY <2>2
    <3>2. ~UploadCommit(r)
      BY <3>1, Facts DEF UploadCommit, Knows, FreshSteps
    <3>3. req'[r].pc = "patch_refresh" /\ req'[r].photo = p
      BY <3>1, <3>2, ActsAlone DEF Goto, ReqState
    <3> QED
      BY <3>3 DEF EntryDue
  <2>3. CASE \E w \in Worker :
                /\ WorkerActs(w) /\ JobPhoto(w) = p
                /\ \/ ThumbProcessing(w) /\ WGoto(w, "thumb_open")
                   \/ ThumbReady(w) /\ WGoto(w, "thumb_invalidate")
                   \/ ThumbFailed(w) /\ WGoto(w, "thumb_invalidate")
                   \/ ThumbPending(w) /\ WGoto(w, "thumb_pending_invalidate")
    <3>1. PICK w \in Worker :
                /\ WorkerActs(w) /\ JobPhoto(w) = p
                /\ \E next \in ThumbSteps \ {"thumb_retry"} : WGoto(w, next)
      BY <2>3 DEF ThumbSteps
    <3>2. wk[w] \in WorkerState /\ wk \in [Worker -> WorkerState]
      BY WorkerFacts DEF ActorsOK
    <3>3. Refreshes(w, p)'
      BY <3>1, <3>2 DEF WGoto, WorkerState, Refreshes, JobPhoto
    <3> QED
      BY <3>3 DEF EntryDue
  <2> QED
    BY <2>1, <2>2, <2>3, RowChange
<1>2. CASE \E r \in Request : /\ req[r].pc \in {"patch_refresh", "patch_invalidate"}
                              /\ req[r].photo = p
  <2>1. PICK r \in Request : /\ req[r].pc \in {"patch_refresh", "patch_invalidate"}
                             /\ req[r].photo = p
    BY <1>2
  <2>2. CASE Acts(r)
    <3>1. ~ApiCrash(r) /\ ~ApiDbError(r)
      BY DEF ApiCrash, ApiDbError
    <3>2. ~PatchInvalidate(r)
      BY <2>1 DEF PatchInvalidate, CacheDelete, Drop, Restrict
    <3>3. PatchRefresh(r)
      BY <2>1, <2>2, <3>1, <3>2, ActsAlone DEF Effect, Departs
    <3>4. req'[r].pc = "patch_invalidate" /\ req'[r].photo = p
      BY <2>1, <2>2, <3>3, ActsAlone DEF PatchRefresh, Goto, ReqState
    <3> QED
      BY <3>4 DEF EntryDue
  <2>3. CASE ~Acts(r)
    BY <2>1, <2>3, HoldsStill DEF EntryDue
  <2> QED
    BY <2>2, <2>3
<1>3. CASE \E w \in Worker : Refreshes(w, p)
  <2>1. PICK w \in Worker : Refreshes(w, p)
    BY <1>3
  <2>2. CASE WorkerActs(w)
    BY <2>1, <2>2, RefreshGoesOn DEF EntryDue
  <2>3. CASE ~WorkerActs(w)
    <3>1. wk'[w] = wk[w]
      BY <2>3, StepCases, StepEffect, WorkerStepEffect
         DEF Effect, Stores, WorkerEffect, WorkerStores, Quiet
    <3> QED
      BY <2>1, <3>1 DEF Refreshes, JobPhoto, EntryDue
  <2> QED
    BY <2>2, <2>3
<1>4. CASE \E m \in DOMAIN queue \cap ThumbMessage : m.photo = p
  <2>1. PICK m \in DOMAIN queue \cap ThumbMessage : m.photo = p
    BY <1>4
  <2>2. CASE m \in DOMAIN queue'
    BY <2>1, <2>2 DEF EntryDue
  <2>3. CASE m \notin DOMAIN queue'
    <3>1. PICK w \in Worker : WorkerActs(w) /\ TakeThumb(w) /\ wk'[w].msg = m
      BY <2>1, <2>3, TakenByWorker DEF Message
    <3>2. wk'[w].pc = "thumb_processing"
      <4>1. wk \in [Worker -> WorkerState]
        BY DEF TypeInv, TypeOK, ActorsOK
      <4> QED
        BY <2>1, <3>1, <4>1 DEF TakeThumb, IdleWorker
    <3>3. Refreshes(w, p)'
      BY <2>1, <3>1, <3>2 DEF Refreshes, JobPhoto, ThumbSteps
    <3> QED
      BY <3>3 DEF EntryDue
  <2> QED
    BY <2>2, <2>3
<1> QED
  BY <1>1, <1>2, <1>3, <1>4 DEF EntryDue

(* An entry of a photo that is gone, or is removed by this step.           *)
LEMMA EntryWithoutRow ==
    ASSUME TypeInv, LockInv, RecordInv, [Next]_vars,
           NEW p, p \notin DOMAIN photos', p \in DOMAIN cache',
           EntryDue(p), KeptByActions(p), ~Spend("api_crash"), ~Spend("cache")
    PROVE  EntryDue(p)'
<1>1. CASE p \in DOMAIN photos
  <2>1. PICK r \in Request : /\ Acts(r) /\ req[r].photo = p
                             /\ DeleteCommit(r) \/ ActionCommit(r)
    BY <1>1, RemovedBy
  <2>2. CASE DeleteCommit(r)
    <3>1. req[r] \in ReqState /\ req \in [Request -> ReqState]
      BY <2>1, ActsAlone
    <3>2. req'[r].photo = p /\ req'[r].pc = "delete_files"
      BY <2>1, <2>2, <3>1 DEF DeleteCommit, ReqState
    <3> QED
      BY <3>2 DEF EntryDue
  <2>3. ~ActionCommit(r)
    BY <2>1 DEF ActionCommit, KeptByActions
  <2> QED
    BY <2>1, <2>2, <2>3
<1>2. CASE \E r \in Request : /\ req[r].pc \in {"delete_files", "delete_invalidate"}
                              /\ req[r].photo = p
  <2>1. PICK r \in Request : /\ req[r].pc \in {"delete_files", "delete_invalidate"}
                             /\ req[r].photo = p
    BY <1>2
  <2>2. CASE Acts(r)
    <3>1. ~ApiCrash(r)
      BY DEF ApiCrash
    <3>2. ~DeleteInvalidate(r)
      BY <2>1 DEF DeleteInvalidate, CacheDelete, Drop, Restrict
    <3>3. DeleteFiles(r)
      BY <2>1, <2>2, <3>1, <3>2, ActsAlone DEF Effect, Departs
    <3>4. req'[r].pc = "delete_invalidate" /\ req'[r].photo = p
      BY <2>1, <2>2, <3>3, ActsAlone DEF DeleteFiles, Goto, ReqState
    <3> QED
      BY <3>4 DEF EntryDue
  <2>3. CASE ~Acts(r)
    BY <2>1, <2>3, HoldsStill DEF EntryDue
  <2> QED
    BY <2>2, <2>3
<1> QED
  BY <1>1, <1>2 DEF EntryDue

(* An action comes to its commit by dropping the key, and only an overtaken *)
(* GET fills it again before that.                                         *)
LEMMA KeyDroppedKept ==
    ASSUME TypeInv, LockInv, [Next]_vars, NEW r \in Request, KeyDropped(r),
           ~Spend("cache")
    PROVE  KeyDropped(r)'
<1> SUFFICES ASSUME req'[r].pc = "action_commit", req'[r].photo \in DOMAIN cache'
             PROVE  cache'[req'[r].photo].overtaken
  BY DEF KeyDropped
<1>1. ~Acts(r)
  <2>1. SUFFICES ASSUME Acts(r) PROVE FALSE
    OBVIOUS
  <2>2. ActionInvalidate(r)
    BY <2>1, ActsAlone DEF Effect, Arrives
  <2>3. req'[r].photo = req[r].photo
    BY <2>2, <2>1, ActsAlone DEF ActionInvalidate, Goto, ReqState
  <2> QED
    BY <2>2, <2>3 DEF ActionInvalidate, CacheDelete, Drop, Restrict
<1>2. req'[r] = req[r]
  BY <1>1, HoldsStill
<1> DEFINE p == req[r].photo
<1>3. CASE p \in DOMAIN cache /\ cache'[p] = cache[p]
  BY <1>2, <1>3 DEF KeyDropped
<1>4. CASE cache'[p].overtaken \/ KeptByActions(p)
  BY <1>2, <1>4 DEF KeptByActions
<1> QED
  BY <1>2, <1>3, <1>4, CacheEntry

LEMMA CacheStep ==
    TypeInv /\ LockInv /\ RecordInv /\ CacheInv /\ [Next]_vars => CacheInv'
<1> SUFFICES ASSUME TypeInv, LockInv, RecordInv, CacheInv, [Next]_vars PROVE CacheInv'
  OBVIOUS
<1>1. \A p \in DOMAIN cache' : Given(p)'
  BY CacheGivenKept
<1>2. ASSUME Never({"api_crash", "db", "cache"})', NEW p, p \in DOMAIN cache'
      PROVE  cache'[p].overtaken \/ EntryDue(p)'
  <2>1. /\ Never({"api_crash", "db", "cache"})
        /\ ~Spend("api_crash") /\ ~Spend("db") /\ ~Spend("cache")
    BY <1>2, NeverKept DEF Fault
  <2>2. CASE p \in DOMAIN cache /\ cache'[p] = cache[p]
    <3>1. cache[p].overtaken \/ EntryDue(p)
      BY <2>1, <2>2 DEF CacheInv
    <3>2. CASE cache[p].overtaken
      BY <2>2, <3>2
    <3>3. CASE EntryDue(p) /\ ~cache[p].overtaken /\ p \notin DOMAIN photos'
      <4>1. KeptByActions(p)
        BY <2>1, <2>2, <3>3 DEF CacheInv, KeyDropped, KeptByActions
      <4> QED
        BY <1>2, <2>1, <3>3, <4>1, EntryWithoutRow
    <3>4. CASE EntryDue(p) /\ p \in DOMAIN photos'
      <4>1. p \in DOMAIN photos
        <5>1. Given(p)
          BY <2>2 DEF CacheInv
        <5>2. p \notin DOMAIN photos => Gone(p)'
          BY <5>1, GoneKept DEF Gone
        <5> QED
          BY <3>4, <5>2 DEF Gone
      <4> QED
        BY <1>2, <2>1, <2>2, <3>4, <4>1, EntryOfRow
    <3> QED
      BY <3>1, <3>2, <3>3, <3>4
  <2>3. CASE UNCHANGED photos /\ p \in DOMAIN photos /\ cache'[p].view = photos[p]
    BY <2>3 DEF EntryDue
  <2> QED
    BY <1>2, <2>2, <2>3, CacheEntry
<1>3. ASSUME Never({"api_crash", "db", "cache"})', NEW r \in Request
      PROVE  KeyDropped(r)'
  <2>1. Never({"api_crash", "db", "cache"}) /\ ~Spend("cache")
    BY <1>3, NeverKept DEF Fault
  <2> QED
    BY <2>1, KeyDroppedKept DEF CacheInv
<1> QED
  BY <1>1, <1>2, <1>3 DEF CacheInv

LEMMA CacheInit == Init => CacheInv
  BY DEF Init, CacheInv, KeyDropped

(* Every cached photo has been visible, and shows its row or has somebody  *)
(* who is going to drop it.                                                *)
THEOREM CacheInvCorrect == Spec => []CacheInv
  BY TypeInvCorrect, LockInvCorrect, RecordInvCorrect, CacheInit, CacheStep, PTL DEF Spec

(* A stale cache entry was overtaken by a change of the row while GET was  *)
(* filling it, or filled while an action was about to commit, or its       *)
(* invalidation is still to come.                                          *)
THEOREM StaleEntryHasCause == Spec => []StaleEntryExplained
<1>1. TypeInv /\ CacheInv => StaleEntryExplained
  <2>1. SUFFICES ASSUME TypeInv, CacheInv, Never({"api_crash", "db", "cache"}),
                        NEW p \in DOMAIN cache
                 PROVE  \/ p \in DOMAIN photos /\ cache[p].view = photos[p]
                        \/ cache[p].overtaken
                        \/ InvalidationPending(p)
    BY DEF StaleEntryExplained
  <2>2. \A w \in Worker : Refreshes(w, p) => /\ wk[w].msg \in ThumbMessage
                                             /\ JobPhoto(w) = p /\ wk[w].pc # "ack"
    BY <2>1, WorkerFacts DEF Refreshes, ThumbSteps
  <2> QED
    BY <2>1, <2>2 DEF CacheInv, EntryDue, InvalidationPending
<1> QED
  BY <1>1, TypeInvCorrect, CacheInvCorrect, PTL

---------------------------------------------------------------------------
(* What the jobs do to the rows.                                           *)

(* A worker that does not act keeps what it holds. *)
LEMMA WorkerHoldsStill ==
    ASSUME TypeInv, [Next]_vars, NEW w \in Worker, ~WorkerActs(w)
    PROVE  wk'[w] = wk[w]
  BY StepCases, StepEffect, WorkerStepEffect
     DEF Effect, Stores, WorkerEffect, WorkerStores, Quiet

---------------------------------------------------------------------------
(* Thumbnails.                                                             *)

Unsettled == {"pending", "processing"}
Thumbs(w, p) ==
    wk[w].pc \in ThumbSteps \ {"thumb_invalidate"} /\ JobPhoto(w) = p
Enqueues(r, p) ==
    /\ call[r].op = "upload" /\ req[r].photo = p
    /\ \/ req[r].pc \in {"upload_refresh", "upload_enqueue", "crashed"}
       \/ req[r].reply = 500

(* A message is taken by a worker that finds the photo. *)
LEMMA QueuedThumbGoesOn ==
    ASSUME TypeInv, [Next]_vars, NEW p \in DOMAIN photos,
           NEW m \in DOMAIN queue \cap ThumbMessage, m.photo = p
    PROVE  ThumbDue(p)'
<1>1. CASE m \in DOMAIN queue'
  BY <1>1 DEF ThumbDue
<1>2. CASE m \notin DOMAIN queue'
  <2>1. PICK w \in Worker : WorkerActs(w) /\ wk'[w].msg = m /\ TakeThumb(w)
    BY <1>2, TakenByWorker DEF Message
  <2>2. wk \in [Worker -> WorkerState]
    BY DEF TypeInv, TypeOK, ActorsOK
  <2>3. PICK n \in DOMAIN queue \cap ThumbMessage :
           wk' = [wk EXCEPT ![w] =
                    IF n.photo \in DOMAIN photos
                    THEN [pc |-> "thumb_processing", msg |-> n,
                          status |-> photos[n.photo].status,
                          attempts |-> photos[n.photo].attempts]
                    ELSE [IdleWorker EXCEPT !.pc = "ack", !.msg = n]]
    BY <2>1 DEF TakeThumb
  <2>4. n = m
    BY <2>1, <2>2, <2>3 DEF IdleWorker
  <2>5. wk'[w].pc = "thumb_processing" /\ wk'[w].msg.photo = p
    BY <2>2, <2>3, <2>4
  <2> QED
    BY <2>5 DEF ThumbDue, ThumbSteps, JobPhoto
<1> QED
  BY <1>1, <1>2

(* A task that has not settled the row goes on, is retried, or starts over.*)
LEMMA ThumbTaskGoesOn ==
    ASSUME TypeInv, NEW w \in Worker, WorkerActs(w), NEW p \in DOMAIN photos,
           Thumbs(w, p), photos'[p].status \in Unsettled,
           ~Spend("db"), ~Spend("broker")
    PROVE  ThumbDue(p)'
<1>0. /\ wk \in [Worker -> WorkerState] /\ wk[w].msg \in ThumbMessage
      /\ wk[w] \in WorkerState /\ WorkerDeparts(w) /\ JobPhoto(w) = p
      /\ wk[w].pc \in ThumbSteps \ {"thumb_invalidate"} /\ photos[p] \in Photo
      /\ MessageFits(wk[w]) /\ IsABag(queue)
  BY WorkerFacts, WorkerDeparture DEF ActorsOK, StoresOK, TablesOK, Thumbs
<1>1. ASSUME NEW m \in ThumbMessage, m.photo = p, Publish(m)
      PROVE  ThumbDue(p)'
  <2>1. DOMAIN queue' = DOMAIN queue \cup {m}
    BY <1>0, <1>1, BagAddType DEF Publish
  <2> QED
    BY <1>1, <2>1 DEF ThumbDue
<1>2. CASE WorkerCrash(w)
  BY <1>0, <1>1, <1>2 DEF WorkerCrash, JobPhoto
<1>3. CASE Redeliver(w)
  BY <1>0, <1>3 DEF Redeliver, ThumbDue, JobPhoto
<1>4. ~WorkerDbError(w)
  BY DEF WorkerDbError
<1>5. ASSUME NEW next \in ThumbSteps \ {"thumb_invalidate"}, WGoto(w, next)
      PROVE  ThumbDue(p)'
  BY <1>0, <1>5 DEF WGoto, WorkerState, ThumbDue, JobPhoto
<1>6. CASE ThumbProcessing(w)
  <2>1. WGoto(w, "thumb_open")
    BY <1>0, <1>6 DEF ThumbProcessing, UpdateThumb
  <2> QED
    BY <1>5, <2>1 DEF ThumbSteps
<1>7. ~ThumbReady(w) /\ ~ThumbFailed(w)
  BY <1>0 DEF ThumbReady, ThumbFailed, UpdateStatus, UpdateThumb, Photo, Unsettled
<1>8. CASE ThumbPending(w)
  <2>1. WGoto(w, "thumb_pending_invalidate")
    BY <1>0, <1>8 DEF ThumbPending, UpdateStatus, UpdateThumb
  <2> QED
    BY <1>5, <2>1 DEF ThumbSteps
<1>9. CASE ThumbOpen(w)
  <2>1. \E next \in {"thumb_failed", "thumb_save", "thumb_pending"} : WGoto(w, next)
    BY <1>9 DEF ThumbOpen
  <2> QED
    BY <1>5, <2>1 DEF ThumbSteps
<1>10. CASE ThumbSave(w) \/ ThumbSaveFails(w)
  <2>1. \E next \in {"thumb_ready", "thumb_pending"} : WGoto(w, next)
    BY <1>10 DEF ThumbSave, ThumbSaveFails
  <2> QED
    BY <1>5, <2>1 DEF ThumbSteps
<1>11. CASE ThumbPendingInvalidate(w)
  <2>1. \E next \in {"thumb_failed", "thumb_retry"} : WGoto(w, next)
    BY <1>11 DEF ThumbPendingInvalidate
  <2> QED
    BY <1>5, <2>1 DEF ThumbSteps
<1>12. CASE Retry(w)
  <2>1. Publish(Successor(wk[w].msg)) /\ wk[w].msg.retries < ThumbnailMaxRetries
    BY <1>0, <1>12 DEF Retry, Successor, ThumbSteps, MessageFits
  <2>2. Successor(wk[w].msg) \in ThumbMessage /\ Successor(wk[w].msg).photo = p
    BY <1>0, <2>1, ConstantAssumption DEF Successor, ThumbMessage, JobPhoto
  <2> QED
    BY <1>1, <2>1, <2>2
<1> QED
  BY <1>0, <1>2, <1>3, <1>4, <1>6, <1>7, <1>8, <1>9, <1>10, <1>11, <1>12
     DEF WorkerDeparts, Lapses, Falls, ThumbSteps

(* An upload that has committed enqueues the job unless it fails.          *)
LEMMA UploadGoesOn ==
    ASSUME Sofar, NEW p \in DOMAIN photos, NEW r \in Request, Enqueues(r, p),
           ~Spend("db"), ~Spend("broker")
    PROVE  ThumbDue(p)'
<1>1. CASE ~Acts(r)
  BY <1>1, HoldsStill DEF Sofar, Enqueues, ThumbDue
<1>2. CASE Acts(r)
  <2>0. /\ Effect(r) /\ call' = call /\ req[r].pc \notin Over
        /\ req[r] \in ReqState /\ req \in [Request -> ReqState]
        /\ IsABag(queue) /\ p \in PhotoId
    BY <1>2, ActsAlone, RowIds DEF Sofar, TypeInv, TypeOK, StoresOK
  <2>1. req[r].pc \in {"upload_refresh", "upload_enqueue"}
    BY <2>0 DEF Enqueues, Over, Sofar, BlobInv, ServedUnlessRemoved
  <2>2. ASSUME \/ req'[r].pc \in {"upload_refresh", "upload_enqueue", "crashed"}
               \/ req'[r].reply = 500,
               req'[r].photo = p
        PROVE  ThumbDue(p)'
    BY <2>0, <2>2 DEF ThumbDue, Enqueues
  <2>3. CASE ApiCrash(r)
    BY <2>0, <2>2, <2>3 DEF ApiCrash, ReqState, Enqueues
  <2>4. ~ApiDbError(r) /\ ~UploadEnqueueFails(r)
    BY DEF ApiDbError, UploadEnqueueFails
  <2>5. CASE UploadRefresh(r)
    BY <2>0, <2>2, <2>5 DEF UploadRefresh, Goto, ReqState, Enqueues
  <2>6. CASE UploadEnqueue(r)
    <3> DEFINE m == [photo |-> p, retries |-> 0]
    <3>1. Publish(m)
      BY <2>6 DEF UploadEnqueue, Enqueues
    <3>2. m \in ThumbMessage /\ m.photo = p
      BY <2>0, ConstantAssumption DEF ThumbMessage
    <3> HIDE DEF m
    <3>3. DOMAIN queue' = DOMAIN queue \cup {m}
      BY <2>0, <3>1, BagAddType DEF Publish
    <3> QED
      BY <3>2, <3>3 DEF ThumbDue
  <2> QED
    BY <2>0, <2>1, <2>3, <2>4, <2>5, <2>6 DEF Effect, Departs
<1> QED
  BY <1>1, <1>2

LEMMA ThumbsDueKept == Sofar /\ ThumbsDue => ThumbsDue'
<1> SUFFICES ASSUME Sofar, ThumbsDue, Never({"db", "broker"})',
                    NEW p, p \in DOMAIN photos', photos'[p].status \in Unsettled
             PROVE  ThumbDue(p)'
  BY DEF ThumbsDue, Unsettled
<1>0. TypeInv /\ LockInv /\ Never({"db", "broker"}) /\ ~Spend("db") /\ ~Spend("broker")
  BY NeverKept DEF Sofar, Fault
<1>1. ASSUME NEW r \in Request, Acts(r), UploadCommit(r), p = req[r].photo
      PROVE  ThumbDue(p)'
  <2>1. call'[r].op = "upload" /\ req'[r].photo = p /\ req'[r].pc = "upload_refresh"
    BY <1>0, <1>1, ActsAlone
       DEF UploadCommit, Goto, ReqState, Fits, CallFits, UploadSteps
  <2> QED
    BY <2>1 DEF ThumbDue
<1>2. CASE p \in DOMAIN photos /\ photos[p].status \in Unsettled
  <2>1. ThumbDue(p)
    BY <1>0, <1>2 DEF ThumbsDue, Unsettled
  <2>2. CASE \E m \in DOMAIN queue \cap ThumbMessage : m.photo = p
    BY <1>0, <1>2, <2>2, QueuedThumbGoesOn DEF Sofar
  <2>3. CASE \E w \in Worker : Thumbs(w, p)
    <3>1. PICK w \in Worker : Thumbs(w, p)
      BY <2>3
    <3>2. CASE WorkerActs(w)
      BY <1>0, <1>2, <3>1, <3>2, ThumbTaskGoesOn
    <3>3. CASE ~WorkerActs(w)
      BY <1>0, <3>1, <3>3, WorkerHoldsStill DEF Sofar, Thumbs, ThumbDue, JobPhoto
    <3> QED
      BY <3>2, <3>3
  <2>4. CASE \E r \in Request : Enqueues(r, p)
    BY <1>0, <1>2, <2>4, UploadGoesOn
  <2> QED
    BY <2>1, <2>2, <2>3, <2>4 DEF ThumbDue, Thumbs, Enqueues
<1>3. CASE p \in DOMAIN photos /\ photos[p].status \notin Unsettled
  <2>1. photos[p] \in Photo /\ photos'[p].status # photos[p].status
    BY <1>0, <1>3 DEF TypeInv, TypeOK, TablesOK
  <2>2. \A r \in Request : PatchCommit(r) /\ p = req[r].photo =>
           photos'[p].status = photos[p].status
    BY <2>1 DEF PatchCommit, Photo
  <2>3. ASSUME NEW w \in Worker, JobPhoto(w) = p, WorkerActs(w),
               NEW next \in {"thumb_open", "thumb_pending_invalidate"}, WGoto(w, next),
               wk[w].pc \in ThumbSteps
        PROVE  ThumbDue(p)'
    BY <1>0, <2>3, WorkerFacts DEF WGoto, WorkerState, ThumbDue, JobPhoto, ThumbSteps,
       ActorsOK
  <2>4. \A w \in Worker : JobPhoto(w) = p => ~ThumbReady(w) /\ ~ThumbFailed(w)
    BY <1>3, <2>1 DEF ThumbReady, ThumbFailed, UpdateStatus, UpdateThumb, Photo, Unsettled
  <2> QED
    BY <1>0, <1>1, <1>3, <2>1, <2>2, <2>3, <2>4, RowChange
       DEF Sofar, ThumbProcessing, ThumbPending, ThumbSteps
<1> QED
  BY <1>0, <1>1, <1>2, <1>3, NewRow DEF Sofar

LEMMA ThumbsDueInit == Init => ThumbsDue
<1> SUFFICES ASSUME Init, NEW p \in DOMAIN photos, photos[p].status \in Unsettled
             PROVE  ThumbDue(p)
  BY DEF ThumbsDue, Unsettled
<1> DEFINE S == [row : Photo, image : Image]
           m == [photo |-> p, retries |-> 0]
<1>1. p \in 1..Len(Seeds) /\ photos[p] = Seeds[p].row /\ Len(Seeds) \in Nat
  BY SeedAssumption DEF Init
<1>2. Seeds[p].row.status = "pending"
  BY <1>1, SeedAssumption DEF Unsettled
<1>3. m \in DOMAIN queue
  BY <1>1, <1>2 DEF Init
<1>4. m \in ThumbMessage
  BY <1>1, SeedAssumption, ConstantAssumption DEF ThumbMessage, PhotoId
<1> HIDE DEF m
<1>5. m.photo = p
  BY DEF m
<1> QED
  BY <1>3, <1>4, <1>5 DEF ThumbDue

---------------------------------------------------------------------------
(* Outbox rows are added by the commit of their decision and written by    *)
(* the worker that delivers them.                                          *)

Writes(w, n) ==
    /\ WorkerActs(w) /\ JobNote(w) = n
    /\ NoteSent(w) \/ NoteFailed(w)

LEMMA RowAdded ==
    ASSUME TypeInv, NEW r \in Request, Acts(r), NEW n \in DOMAIN outbox'
    PROVE  \/ n \in DOMAIN outbox /\ outbox'[n] = outbox[n]
           \/ /\ n \notin DOMAIN outbox /\ n[1] = r /\ n[2] \in req'[r].notes
              /\ req'[r].pc = "decide_refresh"
<1>0. Effect(r) /\ req[r] \in ReqState /\ req \in [Request -> ReqState]
  BY ActsAlone
<1>1. CASE UNCHANGED <<audit, outbox>>
  BY <1>1
<1>2. CASE DismissCommit(r) /\ req'[r].pc = "decide_refresh"
  <2>1. /\ outbox' = WithNotes(r, {call[r].flag})
        /\ req'[r].notes = {call[r].flag}
    BY <1>0, <1>2 DEF DismissCommit, Answer, AnswerWith, ReqState
  <2> QED
    BY <1>2, <2>1 DEF WithNotes
<1>3. CASE ActionCommit(r) /\ req'[r].pc = "decide_refresh"
  <2>1. outbox' = WithNotes(r, req[r].notes) /\ req'[r].notes = req[r].notes
    BY <1>0, <1>3 DEF ActionCommit, ReqState
  <2> QED
    BY <1>3, <2>1 DEF WithNotes
<1> QED
  BY <1>0, <1>1, <1>2, <1>3 DEF Effect, Stores

LEMMA RowWritten ==
    ASSUME TypeInv, NEW w \in Worker, WorkerActs(w), NEW n \in DOMAIN outbox
    PROVE  outbox'[n] = outbox[n] \/ Writes(w, n)
<1>1. CASE NoteSent(w) \/ NoteFailed(w)
  BY <1>1 DEF NoteSent, NoteFailed, UpdateNote, Writes
<1> QED
  BY <1>1, WorkerStepEffect DEF WorkerEffect, WorkerStores

LEMMA OutboxRows ==
    ASSUME TypeInv, [Next]_vars, NEW n \in DOMAIN outbox'
    PROVE  \/ n \in DOMAIN outbox /\ outbox'[n] = outbox[n]
           \/ n \in DOMAIN outbox /\ \E w \in Worker : Writes(w, n)
           \/ \E r \in Request :
                 /\ Acts(r) /\ n \notin DOMAIN outbox /\ n[1] = r
                 /\ n[2] \in req'[r].notes /\ req'[r].pc = "decide_refresh"
<1>1. ASSUME NEW w \in Worker, WorkerActs(w)
      PROVE  n \in DOMAIN outbox
  BY <1>1, WorkerStepEffect DEF WorkerEffect, WorkerStores
<1> QED
  BY <1>1, RowAdded, RowWritten, StepCases DEF Quiet

LEMMA RowsStay ==
    ASSUME TypeInv, [Next]_vars
    PROVE  DOMAIN outbox \subseteq DOMAIN outbox'
  BY LogGrows, WorkerStepEffect, StepCases DEF WorkerEffect, WorkerStores, Quiet

(* Who writes a row has its job. *)
LEMMA Delivers ==
    ASSUME TypeInv, NEW w \in Worker, NEW n, Writes(w, n)
    PROVE  /\ wk[w].pc \in {"note_sent", "note_failed"}
           /\ wk[w].pc \in NoteSteps /\ wk[w].msg \in NoteMessage
  BY WorkerFacts DEF Writes, NoteSent, NoteFailed, NoteSteps

(* What a delivery wrote: a failure keeps what another one wrote since the *)
(* row was loaded, if it was loaded "failed".                              *)
LEMMA Delivered ==
    ASSUME TypeInv, FailedLoaded, NEW w \in Worker, NEW n \in DOMAIN outbox, Writes(w, n)
    PROVE  /\ NoteSent(w) => outbox'[n].status = "sent"
           /\ NoteFailed(w) => /\ wk[w].pc = "note_failed"
                               /\ outbox'[n].status \in {"failed", "sent"}
                               /\ outbox'[n].attempts = wk[w].attempts + 1
<1>0. /\ wk[w].status # "sent" /\ n = JobNote(w)
      /\ wk[w].status = "failed" => outbox[n].status # "pending"
      /\ outbox[n].status \in {"pending", "sent", "failed"}
  BY Delivers DEF FailedLoaded, Writes, TypeInv, TypeOK, TablesOK, Note
<1>1. ASSUME NEW status, NEW next, UpdateNote(w, status, next)
      PROVE  /\ outbox'[n].status = IF wk[w].status = status THEN outbox[n].status
                                                            ELSE status
             /\ outbox'[n].attempts = wk[w].attempts + 1
  BY <1>0, <1>1 DEF UpdateNote
<1>2. CASE NoteSent(w)
  BY <1>0, <1>1, <1>2 DEF NoteSent, NoteFailed
<1>3. CASE NoteFailed(w)
  BY <1>0, <1>1, <1>3 DEF NoteSent, NoteFailed
<1> QED
  BY <1>2, <1>3 DEF Writes

LEMMA RowsOfRuledKept == TypeInv /\ RowsOfRuled /\ [Next]_vars => RowsOfRuled'
<1> SUFFICES ASSUME TypeInv, RowsOfRuled, [Next]_vars, NEW n \in DOMAIN outbox'
             PROVE  req'[n[1]].pc \in RuledSteps \cup {"done", "crashed"}
  BY DEF RowsOfRuled
<1>1. CASE n \notin DOMAIN outbox
  BY <1>1, OutboxRows DEF RuledSteps
<1>2. CASE n \in DOMAIN outbox
  <2>1. n[1] \in Request /\ req[n[1]].pc \in RuledSteps \cup {"done", "crashed"}
    BY <1>2 DEF TypeInv, TypeOK, TablesOK, NoteId, RowsOfRuled
  <2>2. CASE Acts(n[1])
    <3>1. PICK r \in Request : r = n[1]
      BY <2>1
    <3> QED
      BY <2>1, <2>2, <3>1, ActsAlone DEF Effect, Memory, Over
  <2>3. CASE ~Acts(n[1])
    <3>1. PICK r \in Request : r = n[1]
      BY <2>1
    <3> QED
      BY <2>1, <2>3, <3>1, HoldsStill
  <2> QED
    BY <2>2, <2>3
<1> QED
  BY <1>1, <1>2

---------------------------------------------------------------------------
(* One job for a notification.                                             *)

\* What a step does to the messages about notifications: nothing, or one
\* more, or one fewer.
Same(m) ==
    /\ m \in DOMAIN queue' <=> m \in DOMAIN queue
    /\ m \in DOMAIN queue => queue'[m] = queue[m]
NotesStay    == \A m \in NoteMessage : Same(m)
NoteAdded(k) == /\ \A m \in NoteMessage \ {k} : Same(m)
                /\ k \in DOMAIN queue'
                /\ k \notin DOMAIN queue => queue'[k] = 1
NoteTaken(k) == /\ \A m \in NoteMessage \ {k} : Same(m)
                /\ queue[k] = 1 => k \notin DOMAIN queue'

LEMMA Adding ==
    ASSUME NEW k, queue' = BagAdd(queue, k)
    PROVE  /\ k \notin NoteMessage => NotesStay
           /\ NoteAdded(k)
  BY DEF BagAdd, NotesStay, NoteAdded, Same

LEMMA Taking ==
    ASSUME NEW k, queue' = BagRemove(queue, k)
    PROVE  /\ k \notin NoteMessage => NotesStay
           /\ NoteTaken(k)
  BY DEF BagRemove, NotesStay, NoteTaken, Same

LEMMA RequestNotes ==
    ASSUME TypeInv, NEW r \in Request, Acts(r)
    PROVE  \/ NotesStay
           \/ \E f \in req[r].notes :
                 /\ Dispatch(r) /\ req' = [req EXCEPT ![r].notes = @ \ {f}]
                 /\ NoteAdded([note |-> <<r, f>>, retries |-> 0])
<1>1. CASE queue' = queue
  BY <1>1 DEF NotesStay, Same
<1>2. CASE UploadEnqueue(r)
  <2> DEFINE k == [photo |-> req[r].photo, retries |-> 0]
  <2>1. queue' = BagAdd(queue, k)
    BY <1>2 DEF UploadEnqueue, Publish
  <2>2. k \notin NoteMessage
    BY DEF NoteMessage
  <2> HIDE DEF k
  <2> QED
    BY <2>1, <2>2, Adding
<1>3. CASE Dispatch(r)
  <2>1. PICK f \in req[r].notes :
           /\ queue' = BagAdd(queue, [note |-> <<r, f>>, retries |-> 0])
           /\ req' = [req EXCEPT ![r].notes = @ \ {f}]
    BY <1>3 DEF Dispatch, Publish
  <2>2. NoteAdded([note |-> <<r, f>>, retries |-> 0])
    BY <2>1, Adding
  <2> QED
    BY <1>3, <2>1, <2>2
<1> QED
  BY <1>1, <1>2, <1>3, ActsAlone DEF Effect, Stores

LEMMA WorkerNotes ==
    ASSUME TypeInv, NEW w \in Worker, WorkerActs(w)
    PROVE  \/ NotesStay /\ ~TakeNote(w)
           \/ /\ TakeNote(w)
              /\ \E m \in DOMAIN queue \cap NoteMessage :
                    NoteTaken(m) /\ wk'[w].msg = m
           \/ /\ ~TakeNote(w)
              /\ \/ Retry(w) /\ wk[w].pc = "note_retry"
                 \/ WorkerCrash(w) \/ Redeliver(w)
              /\ wk[w].msg \in NoteMessage
              /\ \E k \in {wk[w].msg, Successor(wk[w].msg)} :
                    /\ NoteAdded(k) /\ k.note = JobNote(w)
                    /\ Retry(w) => k = Successor(wk[w].msg)
                    /\ WorkerCrash(w) \/ Redeliver(w) => k = wk[w].msg
<1>0. wk \in [Worker -> WorkerState] /\ MessageFits(wk[w])
  BY WorkerFacts DEF ActorsOK
<1>1. CASE queue' = queue /\ ~TakeNote(w)
  BY <1>1 DEF NotesStay, Same
<1>2. CASE TakeNote(w)
  <2>1. PICK m \in DOMAIN queue \cap NoteMessage :
           queue' = BagRemove(queue, m) /\ wk'[w].msg = m
    BY <1>0, <1>2 DEF TakeNote, IdleWorker
  <2> QED
    BY <1>2, <2>1, Taking
<1>3. ASSUME NEW m \in DOMAIN queue, queue' = BagRemove(queue, m), m \in ThumbMessage
      PROVE  NotesStay
  BY <1>3, Taking DEF ThumbMessage, NoteMessage
<1>4. ASSUME ~TakeNote(w), wk[w].pc # "idle",
             NEW k \in {wk[w].msg, Successor(wk[w].msg)}, queue' = BagAdd(queue, k),
             Retry(w) => k = Successor(wk[w].msg),
             WorkerCrash(w) \/ Redeliver(w) => k = wk[w].msg,
             \/ Retry(w) /\ wk[w].pc \in {"thumb_retry", "note_retry"}
             \/ WorkerCrash(w) \/ Redeliver(w)
      PROVE  \/ NotesStay
             \/ /\ \/ Retry(w) /\ wk[w].pc = "note_retry"
                   \/ WorkerCrash(w) \/ Redeliver(w)
                /\ wk[w].msg \in NoteMessage
                /\ NoteAdded(k) /\ k.note = JobNote(w)
  <2>1. CASE k \notin NoteMessage
    BY <1>4, <2>1, Adding
  <2>2. CASE k \in NoteMessage
    <3>1. wk[w].msg \in Message
      BY <1>0, <1>4 DEF MessageFits
    <3>2. wk[w].msg \in NoteMessage /\ k.note = JobNote(w) /\ wk[w].msg \notin ThumbMessage
      BY <1>4, <2>2, <3>1, SameJob DEF JobNote
    <3>3. wk[w].pc # "thumb_retry"
      BY <1>0, <3>2 DEF MessageFits, ThumbSteps
    <3> QED
      BY <1>4, <3>2, <3>3, Adding
  <2> QED
    BY <2>1, <2>2
<1>5. CASE ~TakeNote(w) /\ queue' # queue
  <2>1. CASE \E m \in DOMAIN queue : queue' = BagRemove(queue, m) /\ m \in ThumbMessage
    BY <1>3, <1>5, <2>1
  <2>2. CASE /\ wk[w].pc # "idle"
             /\ \/ Retry(w) /\ wk[w].pc \in {"thumb_retry", "note_retry"}
                \/ WorkerCrash(w) \/ Redeliver(w)
             /\ \E k \in {wk[w].msg, Successor(wk[w].msg)} :
                   /\ queue' = BagAdd(queue, k)
                   /\ Retry(w) => k = Successor(wk[w].msg)
                   /\ WorkerCrash(w) \/ Redeliver(w) => k = wk[w].msg
    <3>1. PICK k \in {wk[w].msg, Successor(wk[w].msg)} :
                   /\ queue' = BagAdd(queue, k)
                   /\ Retry(w) => k = Successor(wk[w].msg)
                   /\ WorkerCrash(w) \/ Redeliver(w) => k = wk[w].msg
      BY <2>2
    <3>2. \/ NotesStay
          \/ /\ \/ Retry(w) /\ wk[w].pc = "note_retry"
                \/ WorkerCrash(w) \/ Redeliver(w)
             /\ wk[w].msg \in NoteMessage
             /\ NoteAdded(k) /\ k.note = JobNote(w)
      BY <1>4, <1>5, <2>2, <3>1
    <3> QED
      BY <1>5, <3>1, <3>2
  <2> QED
    BY <1>5, <2>1, <2>2, WorkerPublished
<1> QED
  BY <1>1, <1>2, <1>5

(* A decision adds to what it has to dispatch only before its rows exist.  *)
LEMMA UndispatchedBefore ==
    ASSUME TypeInv, RowsOfRuled, [Next]_vars, NEW n \in DOMAIN outbox, Undispatched(n)'
    PROVE  Undispatched(n)
<1>1. n[1] \in Request /\ req[n[1]].pc \in RuledSteps \cup {"done", "crashed"}
  BY DEF TypeInv, TypeOK, TablesOK, NoteId, RowsOfRuled
<1>2. PICK r \in Request : r = n[1]
  BY <1>1
<1>3. CASE ~Acts(r)
  BY <1>2, <1>3, HoldsStill DEF Undispatched
<1>4. CASE Acts(r)
  <2>1. Effect(r) /\ req[r] \in ReqState /\ req \in [Request -> ReqState]
    BY <1>4, ActsAlone
  <2>2. req'[r].notes # {}
    BY <1>2 DEF Undispatched
  <2>3. ~ActionResolve(r) /\ ~DismissCommit(r)
    BY <1>1, <1>2 DEF ActionResolve, DismissCommit, RuledSteps
  <2>4. CASE Dispatch(r)
    <3>1. PICK f : req' = [req EXCEPT ![r].notes = @ \ {f}]
      BY <2>4 DEF Dispatch
    <3> QED
      BY <1>2, <2>1, <3>1 DEF Undispatched, ReqState
  <2> QED
    BY <1>2, <2>1, <2>2, <2>3, <2>4 DEF Effect, Memory, Undispatched
<1> QED
  BY <1>3, <1>4

(* Whoever holds a job after a step held it before or has just taken it.   *)
Counted == {NoteSteps, NoteSteps \cup {"ack"}}

LEMMA HeldBefore ==
    ASSUME TypeInv, NEW S \in Counted, NEW w \in Worker, WorkerActs(w), ~TakeNote(w),
           ~Spend("redeliver"), NEW n, HoldsJob(w, n, S)'
    PROVE  /\ HoldsJob(w, n, S) /\ ~WorkerCrash(w)
           /\ "ack" \notin S => wk[w].pc # "note_retry"
<1>0. /\ WorkerEffect(w) /\ WorkerDeparts(w) /\ wk[w] \in WorkerState
      /\ MessageFits(wk[w]) /\ wk \in [Worker -> WorkerState]
  BY WorkerStepEffect, WorkerDeparture, WorkerFacts DEF ActorsOK
<1>1. ~Redeliver(w) /\ ~TakeThumb(w) /\ ~WorkerCrash(w) /\ ~Ack(w)
  <2>1. wk'[w].pc # "idle" /\ wk'[w].msg \in NoteMessage
    BY DEF HoldsJob, Counted, NoteSteps
  <2>2. ~Redeliver(w)
    BY DEF Redeliver
  <2>3. ~WorkerCrash(w) /\ ~Ack(w)
    BY <1>0, <2>1 DEF WorkerCrash, Ack, IdleWorker
  <2>4. ~TakeThumb(w)
    <3>1. SUFFICES ASSUME TakeThumb(w) PROVE FALSE
      OBVIOUS
    <3>2. wk'[w].msg \in ThumbMessage
      BY <1>0, <3>1 DEF TakeThumb, IdleWorker
    <3> QED
      BY <2>1, <3>2 DEF ThumbMessage, NoteMessage
  <2> QED
    BY <2>2, <2>3, <2>4
<1>2. /\ wk[w].pc # "idle" /\ wk'[w].msg = wk[w].msg /\ wk[w].msg \in NoteMessage
      /\ JobNote(w) = n
  <2>1. wk'[w] # IdleWorker
    BY DEF HoldsJob, Counted, NoteSteps, IdleWorker
  <2> QED
    BY <1>0, <1>1, <2>1 DEF WorkerEffect, WorkerMemory, HoldsJob, JobNote
<1>3. wk[w].pc \in NoteSteps
  <2>1. wk[w].pc # "ack"
    BY <1>0, <1>1 DEF WorkerDeparts, Falls
  <2>2. wk[w].pc \notin ThumbSteps
    BY <1>0, <1>2 DEF MessageFits, ThumbMessage, NoteMessage
  <2> QED
    BY <1>0, <1>2, <2>1, <2>2 DEF WorkerState, WorkerStep, ThumbSteps, NoteSteps
<1>4. HoldsJob(w, n, S)
  BY <1>2, <1>3 DEF HoldsJob, Counted
<1>5. "ack" \notin S => wk[w].pc # "note_retry"
  <2>1. ASSUME Retry(w) PROVE wk'[w].pc = "ack"
    BY <1>0, <2>1 DEF Retry, WGoto, WorkerState
  <2> QED
    BY <1>0, <1>1, <2>1 DEF WorkerDeparts, Falls, HoldsJob
<1> QED
  BY <1>1, <1>4, <1>5

LEMMA OneJobByRequest ==
    ASSUME TypeInv, RowsOfRuled, NoteJobHasRow, [Next]_vars,
           NEW S \in Counted, OneJob(S), NEW r \in Request, Acts(r)
    PROVE  OneJob(S)'
<1>0. wk' = wk /\ req[r] \in ReqState /\ req \in [Request -> ReqState]
  BY ActsAlone
<1>1. \A n, w : HoldsJob(w, n, S)' <=> HoldsJob(w, n, S)
  BY <1>0 DEF HoldsJob, JobNote
<1>2. ASSUME NEW m \in DOMAIN queue \cap NoteMessage
      PROVE  /\ queue[m] = 1 /\ ~Undispatched(m.note) /\ ~Undispatched(m.note)'
             /\ \A o \in DOMAIN queue \cap NoteMessage : o.note = m.note => o = m
             /\ \A w \in Worker : ~HoldsJob(w, m.note, S)'
  <2>1. m.note \in DOMAIN outbox
    BY DEF NoteJobHasRow
  <2> QED
    BY <1>1, <2>1, UndispatchedBefore DEF OneJob
<1>3. ASSUME NEW n \in NoteId, NEW w \in Worker, HoldsJob(w, n, S)'
      PROVE  /\ ~Undispatched(n) /\ ~Undispatched(n)'
             /\ \A v \in Worker : HoldsJob(v, n, S)' => v = w
  <2>1. HoldsJob(w, n, S)
    BY <1>1, <1>3
  <2>2. n \in DOMAIN outbox
    BY <2>1 DEF HoldsJob, NoteJobHasRow, JobNote
  <2> QED
    BY <1>1, <2>1, <2>2, UndispatchedBefore DEF OneJob
<1>4. CASE NotesStay
  <2>1. ASSUME NEW m \in DOMAIN queue' \cap NoteMessage
        PROVE  m \in DOMAIN queue \cap NoteMessage /\ queue'[m] = queue[m]
    BY <1>4 DEF NotesStay, Same
  <2> QED
    BY <1>2, <1>3, <2>1 DEF OneJob
<1>5. CASE \E f \in req[r].notes :
              /\ req' = [req EXCEPT ![r].notes = @ \ {f}]
              /\ NoteAdded([note |-> <<r, f>>, retries |-> 0])
  <2>1. PICK f \in req[r].notes : /\ req' = [req EXCEPT ![r].notes = @ \ {f}]
                                  /\ NoteAdded([note |-> <<r, f>>, retries |-> 0])
    BY <1>5
  <2> DEFINE n == <<r, f>>
             k == [note |-> <<r, f>>, retries |-> 0]
  <2>2. Undispatched(n) /\ ~Undispatched(n)'
    BY <1>0, <2>1 DEF Undispatched, ReqState
  <2>3. n \in NoteId /\ k \in NoteMessage /\ k.note = n /\ NoteAdded(k)
    BY <1>0, <2>1, ConstantAssumption DEF ReqState, NoteId, NoteMessage
  <2> HIDE DEF n, k
  <2>4. k \notin DOMAIN queue
    BY <1>2, <2>2, <2>3
  <2>5. queue'[k] = 1
    BY <2>3, <2>4 DEF NoteAdded
  <2>6. ASSUME NEW m \in DOMAIN queue' \cap NoteMessage, m # k
        PROVE  m \in DOMAIN queue \cap NoteMessage /\ queue'[m] = queue[m] /\ m.note # n
    <3>1. m \in DOMAIN queue \cap NoteMessage /\ queue'[m] = queue[m]
      BY <2>3, <2>6 DEF NoteAdded, Same
    <3> QED
      BY <1>2, <2>2, <3>1
  <2>7. \A w \in Worker : ~HoldsJob(w, n, S)'
    BY <1>3, <2>2, <2>3
  <2>8. ASSUME NEW m \in DOMAIN queue' \cap NoteMessage
        PROVE  /\ queue'[m] = 1 /\ ~Undispatched(m.note)'
               /\ \A o \in DOMAIN queue' \cap NoteMessage : o.note = m.note => o = m
               /\ \A w \in Worker : ~HoldsJob(w, m.note, S)'
    <3>1. CASE m = k
      BY <2>2, <2>3, <2>5, <2>6, <2>7, <3>1
    <3>2. CASE m # k
      BY <1>2, <2>3, <2>6, <3>2
    <3> QED
      BY <3>1, <3>2
  <2> QED
    BY <1>3, <2>8 DEF OneJob
<1> QED
  BY <1>4, <1>5, RequestNotes

LEMMA OneJobByWorker ==
    ASSUME TypeInv, NEW S \in Counted, OneJob(S), NEW w \in Worker, WorkerActs(w),
           ~Spend("redeliver"),
           "ack" \in S => wk[w].pc # "note_retry",
           "ack" \notin S => ~Spend("worker_crash")
    PROVE  OneJob(S)'
<1>0. /\ \A v \in Worker \ {w} : wk'[v] = wk[v]
      /\ req' = req /\ MessageFits(wk[w]) /\ wk[w] \in WorkerState
  BY WorkerStepEffect, WorkerFacts DEF WorkerEffect, WorkerStores
<1>1. ASSUME NEW n PROVE Undispatched(n)' <=> Undispatched(n)
  BY <1>0 DEF Undispatched
<1>2. ASSUME NEW n, NEW v \in Worker \ {w}
      PROVE  HoldsJob(v, n, S)' <=> HoldsJob(v, n, S)
  BY <1>0 DEF HoldsJob, JobNote
<1>3. ~Redeliver(w)
  BY DEF Redeliver
<1>4. CASE ~TakeNote(w)
  <2>1. \A n : \A v \in Worker : HoldsJob(v, n, S)' => HoldsJob(v, n, S)
    BY <1>2, <1>4, HeldBefore
  <2>2. CASE NotesStay
    <3>1. ASSUME NEW m \in DOMAIN queue' \cap NoteMessage
          PROVE  m \in DOMAIN queue \cap NoteMessage /\ queue'[m] = queue[m]
      BY <2>2 DEF NotesStay, Same
    <3> QED
      BY <1>1, <2>1, <3>1 DEF OneJob
  <2>3. CASE /\ (Retry(w) /\ wk[w].pc = "note_retry") \/ WorkerCrash(w)
             /\ wk[w].msg \in NoteMessage
             /\ \E k \in {wk[w].msg, Successor(wk[w].msg)} :
                   NoteAdded(k) /\ k.note = JobNote(w)
    <3>1. PICK k \in {wk[w].msg, Successor(wk[w].msg)} :
                  NoteAdded(k) /\ k.note = JobNote(w)
      BY <2>3
    <3>0. PICK n : n = JobNote(w)
      OBVIOUS
    <3>2. /\ HoldsJob(w, n, S) /\ n \in NoteId
      <4>1. n \in NoteId
        BY <2>3, <3>0 DEF NoteMessage, JobNote
      <4>2. CASE wk[w].pc = "note_retry"
        BY <2>3, <3>0, <4>1, <4>2 DEF HoldsJob, Counted, NoteSteps
      <4>3. CASE WorkerCrash(w) /\ "ack" \in S
        <5>1. wk[w].pc # "idle" /\ wk[w].pc \notin ThumbSteps
          BY <1>0, <2>3, <4>3 DEF WorkerCrash, MessageFits, ThumbMessage, NoteMessage
        <5>2. wk[w].pc \in NoteSteps \cup {"ack"}
          BY <1>0, <5>1 DEF WorkerState, WorkerStep, ThumbSteps, NoteSteps
        <5> QED
          BY <2>3, <3>0, <4>1, <4>3, <5>2 DEF HoldsJob, Counted
      <4> QED
        BY <2>3, <4>2, <4>3 DEF WorkerCrash
    <3>3. ~HoldsJob(w, n, S)'
      <4>1. CASE WorkerCrash(w)
        BY <1>4, <4>1, HeldBefore
      <4>2. CASE wk[w].pc = "note_retry" /\ "ack" \notin S
        BY <1>4, <4>2, HeldBefore
      <4> QED
        BY <2>3, <4>1, <4>2
    <3>4. /\ ~Undispatched(n)
          /\ \A v \in Worker : ~HoldsJob(v, n, S)'
          /\ \A m \in DOMAIN queue \cap NoteMessage : m.note # n
      BY <2>1, <3>2, <3>3 DEF OneJob
    <3>5. k.note = n /\ NoteAdded(k)
      BY <3>0, <3>1
    <3>6. ASSUME NEW m \in DOMAIN queue' \cap NoteMessage, m # k
          PROVE  m \in DOMAIN queue \cap NoteMessage /\ queue'[m] = queue[m]
      BY <3>5, <3>6 DEF NoteAdded, Same
    <3>7. k \in NoteMessage => queue'[k] = 1
      BY <3>4, <3>5 DEF NoteAdded
    <3>8. ASSUME NEW m \in DOMAIN queue' \cap NoteMessage
          PROVE  /\ queue'[m] = 1 /\ ~Undispatched(m.note)'
                 /\ \A o \in DOMAIN queue' \cap NoteMessage : o.note = m.note => o = m
                 /\ \A v \in Worker : ~HoldsJob(v, m.note, S)'
      <4>1. CASE m = k
        BY <1>1, <3>4, <3>5, <3>6, <3>7, <4>1
      <4>2. CASE m # k
        <5>1. m \in DOMAIN queue \cap NoteMessage /\ queue'[m] = queue[m] /\ m.note # n
          BY <3>4, <3>6, <4>2
        <5> QED
          BY <1>1, <2>1, <3>5, <3>6, <5>1 DEF OneJob
      <4> QED
        BY <4>1, <4>2
    <3> QED
      BY <1>1, <2>1, <3>8 DEF OneJob
  <2> QED
    BY <1>3, <1>4, <2>2, <2>3, WorkerNotes
<1>5. CASE TakeNote(w)
  <2>1. PICK k \in DOMAIN queue \cap NoteMessage : NoteTaken(k) /\ wk'[w].msg = k
    BY <1>5, WorkerNotes
  <2>2. queue[k] = 1 /\ k.note \in NoteId
    BY DEF OneJob, NoteMessage
  <2>3. ASSUME NEW m \in DOMAIN queue' \cap NoteMessage
        PROVE  m \in DOMAIN queue \cap NoteMessage /\ queue'[m] = queue[m] /\ m # k
    BY <2>1, <2>2 DEF NoteTaken, Same
  <2>4. \A n : HoldsJob(w, n, S)' => n = k.note
    BY <2>1 DEF HoldsJob, JobNote
  <2>5. /\ ~Undispatched(k.note)'
        /\ \A v \in Worker \ {w} : ~HoldsJob(v, k.note, S)'
        /\ \A m \in DOMAIN queue' \cap NoteMessage : m.note # k.note
    <3>1. PICK n : n = k.note
      OBVIOUS
    <3> QED
      BY <1>1, <1>2, <2>3, <3>1 DEF OneJob
  <2>6. ASSUME NEW m \in DOMAIN queue' \cap NoteMessage
        PROVE  /\ queue'[m] = 1 /\ ~Undispatched(m.note)'
               /\ \A o \in DOMAIN queue' \cap NoteMessage : o.note = m.note => o = m
               /\ \A v \in Worker : ~HoldsJob(v, m.note, S)'
    BY <1>1, <1>2, <2>3, <2>4, <2>5 DEF OneJob
  <2>7. ASSUME NEW n \in NoteId, NEW v \in Worker, HoldsJob(v, n, S)'
        PROVE  ~Undispatched(n)' /\ \A x \in Worker : HoldsJob(x, n, S)' => x = v
    <3>1. CASE n = k.note
      BY <2>5, <2>7, <3>1
    <3>2. CASE n # k.note
      BY <1>1, <1>2, <2>4, <2>7, <3>2 DEF OneJob
    <3> QED
      BY <3>1, <3>2
  <2> QED
    BY <2>6, <2>7 DEF OneJob
<1> QED
  BY <1>4, <1>5

LEMMA OneJobKept ==
    ASSUME Sofar, RowsOfRuled, NEW S \in Counted, OneJob(S), ~Spend("redeliver"),
           "ack" \in S => \A w \in Worker : wk[w].pc # "note_retry",
           "ack" \notin S => ~Spend("worker_crash")
    PROVE  OneJob(S)'
<1>0. TypeInv /\ NoteJobHasRow /\ [Next]_vars
  BY DEF Sofar, RecordInv
<1>1. CASE Quiet
  BY <1>1 DEF Quiet, OneJob, HoldsJob, Undispatched, JobNote
<1> QED
  BY <1>0, <1>1, StepCases, OneJobByRequest, OneJobByWorker

(* Nobody writes the row of a job that someone else has. *)
LEMMA RowOfHeldJob ==
    ASSUME Sofar, NEW S \in Counted, OneJob(S), NEW w \in Worker, NEW n \in DOMAIN outbox,
           HoldsJob(w, n, S), ~WorkerActs(w)
    PROVE  outbox'[n] = outbox[n]
<1>0. TypeInv /\ [Next]_vars /\ n \in NoteId
  BY DEF Sofar, TypeInv, TypeOK, TablesOK
<1>1. n \in DOMAIN outbox'
  BY <1>0, RowsStay
<1>2. ASSUME NEW v \in Worker, Writes(v, n) PROVE FALSE
  <2>1. HoldsJob(v, n, S)
    BY <1>0, <1>2, Delivers DEF Writes, HoldsJob, Counted
  <2>2. v = w
    BY <1>0, <2>1 DEF OneJob
  <2> QED
    BY <1>2, <2>2 DEF Writes
<1> QED
  BY <1>0, <1>1, <1>2, OutboxRows

LEMMA RowOfQueuedJob ==
    ASSUME Sofar, NEW S \in Counted, OneJob(S), NEW m \in DOMAIN queue \cap NoteMessage
    PROVE  m.note \in DOMAIN outbox /\ outbox'[m.note] = outbox[m.note]
<1>0. TypeInv /\ [Next]_vars /\ NoteJobHasRow
  BY DEF Sofar, RecordInv
<1>1. m.note \in DOMAIN outbox
  BY <1>0 DEF NoteJobHasRow
<1>2. m.note \in DOMAIN outbox'
  BY <1>0, <1>1, RowsStay
<1>3. ASSUME NEW v \in Worker, Writes(v, m.note) PROVE FALSE
  <2>1. HoldsJob(v, m.note, S)
    BY <1>0, <1>1, <1>3, Delivers DEF Writes, HoldsJob, Counted
  <2> QED
    BY <2>1 DEF OneJob
<1> QED
  BY <1>0, <1>1, <1>2, <1>3, OutboxRows

(* What a delivery starts from. *)
LEMMA NoteTakenUp ==
    ASSUME TypeInv, NEW w \in Worker, TakeNote(w), wk'[w].pc # "ack"
    PROVE  /\ wk'[w].pc = "note_send" /\ UNCHANGED outbox
           /\ wk'[w].msg \in DOMAIN queue \cap NoteMessage
           /\ JobNote(w)' \in DOMAIN outbox /\ outbox[JobNote(w)'].status # "sent"
           /\ wk'[w].attempts = outbox[JobNote(w)'].attempts
           /\ wk'[w].status = outbox[JobNote(w)'].status
<1>0. wk \in [Worker -> WorkerState]
  BY DEF TypeInv, TypeOK, ActorsOK
<1>1. PICK m \in DOMAIN queue \cap NoteMessage :
         wk' = [wk EXCEPT ![w] =
                  IF m.note \in DOMAIN outbox /\ outbox[m.note].status # "sent"
                  THEN [pc |-> "note_send", msg |-> m,
                        status |-> outbox[m.note].status,
                        attempts |-> outbox[m.note].attempts]
                  ELSE [IdleWorker EXCEPT !.pc = "ack", !.msg = m]]
  BY DEF TakeNote
<1>2. UNCHANGED outbox
  BY DEF TakeNote, database
<1>3. m.note \in DOMAIN outbox /\ outbox[m.note].status # "sent"
  BY <1>0, <1>1 DEF IdleWorker
<1>4. wk'[w] = [pc |-> "note_send", msg |-> m, status |-> outbox[m.note].status,
                attempts |-> outbox[m.note].attempts]
  BY <1>0, <1>1, <1>3
<1> QED
  BY <1>2, <1>3, <1>4 DEF JobNote

(* How a worker comes to be at a step of a delivery. *)
LEMMA DeliveryArrives ==
    ASSUME TypeInv, NEW w \in Worker, WorkerActs(w), ~Spend("redeliver")
    PROVE  /\ wk'[w].pc = "note_send" => TakeNote(w)
           /\ wk'[w].pc = "note_sent" => NoteSend(w)
           /\ wk'[w].pc = "note_failed" => NoteSendFails(w)
           /\ wk'[w].pc = "note_retry" => NoteFailed(w)
<1>1. ~Redeliver(w)
  BY DEF Redeliver
<1> QED
  BY <1>1, WorkerStepEffect DEF WorkerEffect, WorkerArrives

LEMMA FailedLoadedKept == Sofar /\ FailedLoaded => FailedLoaded'
<1> SUFFICES ASSUME Sofar, FailedLoaded, NEW w \in Worker,
                    wk'[w].pc \in {"note_send", "note_sent", "note_failed"}
             PROVE  /\ wk'[w].status # "sent"
                    /\ wk'[w].status = "failed" => outbox'[JobNote(w)'].status # "pending"
  BY DEF FailedLoaded
<1>0. TypeInv /\ [Next]_vars /\ NoteJobHasRow
  BY DEF Sofar, RecordInv
<1>1. CASE wk[w].pc \in {"note_send", "note_sent", "note_failed"} /\ wk'[w] = wk[w]
  <2>1. PICK n \in DOMAIN outbox : n = JobNote(w)
    BY <1>0, <1>1, WorkerFacts DEF NoteSteps, NoteJobHasRow, JobNote
  <2>2. /\ wk[w].status # "sent"
        /\ wk[w].status = "failed" => outbox[n].status # "pending"
    BY <1>1, <2>1 DEF FailedLoaded
  <2>3. n \in DOMAIN outbox'
    BY <1>0, RowsStay
  <2>4. ASSUME NEW v \in Worker, Writes(v, n)
        PROVE  outbox'[n].status # "pending"
    BY <1>0, <2>4, Delivered DEF Writes
  <2>5. outbox'[n] = outbox[n] \/ \E v \in Worker : Writes(v, n)
    BY <1>0, <2>3, OutboxRows
  <2>6. JobNote(w)' = n
    BY <1>1, <2>1 DEF JobNote
  <2> QED
    BY <1>1, <2>2, <2>4, <2>5, <2>6
<1>2. CASE WorkerActs(w) /\ wk' # wk
  <2>1. wk \in [Worker -> WorkerState] /\ wk[w] \in WorkerState /\ ~Redeliver(w)
    BY <1>0, <1>2, WorkerFacts DEF ActorsOK, Redeliver
  <2>2. TakeNote(w) \/ NoteSend(w) \/ NoteSendFails(w)
    BY <1>0, <1>2, <2>1, WorkerStepEffect DEF WorkerEffect, WorkerArrives
  <2>3. CASE TakeNote(w)
    <3>1. wk'[w].pc # "ack"
      OBVIOUS
    <3>2. /\ UNCHANGED outbox /\ outbox[JobNote(w)'].status # "sent"
          /\ wk'[w].status = outbox[JobNote(w)'].status
      BY <1>0, <2>3, <3>1, NoteTakenUp
    <3> QED
      BY <3>2
  <2>4. CASE NoteSend(w) \/ NoteSendFails(w)
    <3>1. /\ wk[w].pc = "note_send" /\ UNCHANGED outbox
          /\ wk'[w].status = wk[w].status /\ wk'[w].msg = wk[w].msg
      BY <2>1, <2>4 DEF NoteSend, NoteSendFails, WGoto, WorkerState, database
    <3>2. JobNote(w)' = JobNote(w)
      BY <3>1 DEF JobNote
    <3> QED
      BY <3>1, <3>2 DEF FailedLoaded
  <2> QED
    BY <2>2, <2>3, <2>4
<1>3. CASE ~WorkerActs(w)
  BY <1>0, <1>1, <1>3, WorkerHoldsStill
<1> QED
  BY <1>1, <1>2, <1>3

LEMMA SentOnceKept == Sofar /\ RowsOfRuled /\ SentOnce => SentOnce'
<1> SUFFICES ASSUME Sofar, RowsOfRuled, SentOnce, Never({"redeliver", "mail"})'
             PROVE  /\ OneJob(NoteSteps \cup {"ack"})'
                    /\ \A w \in Worker :
                          /\ wk'[w].pc \notin {"note_failed", "note_retry"}
                          /\ wk'[w].pc = "note_send" => outbox'[JobNote(w)'].status # "sent"
  BY DEF SentOnce
<1> DEFINE S == NoteSteps \cup {"ack"}
<1>0. /\ TypeInv /\ [Next]_vars /\ NoteJobHasRow
      /\ Never({"redeliver", "mail"}) /\ ~Spend("redeliver") /\ ~Spend("mail")
  BY NeverKept DEF Sofar, RecordInv, Fault
<1>1. /\ OneJob(S) /\ S \in Counted
      /\ \A w \in Worker :
            /\ wk[w].pc \notin {"note_failed", "note_retry"}
            /\ wk[w].pc = "note_send" => outbox[JobNote(w)].status # "sent"
  BY <1>0 DEF SentOnce, Counted
<1>2. S = NoteSteps \cup {"ack"}
  OBVIOUS
<1> HIDE DEF S
<1>3. OneJob(S)'
  BY <1>0, <1>1, <1>2, OneJobKept
<1>4. ASSUME NEW w \in Worker
      PROVE  /\ wk'[w].pc \notin {"note_failed", "note_retry"}
             /\ wk'[w].pc = "note_send" => outbox'[JobNote(w)'].status # "sent"
  <2>1. CASE WorkerActs(w)
    <3>1. ~NoteSendFails(w) /\ ~NoteFailed(w)
      BY <1>0, <1>1 DEF NoteSendFails, NoteFailed
    <3> QED
      BY <1>0, <2>1, <3>1, DeliveryArrives, NoteTakenUp
  <2>2. CASE ~WorkerActs(w)
    <3>1. wk'[w] = wk[w] /\ JobNote(w)' = JobNote(w)
      BY <1>0, <2>2, WorkerHoldsStill DEF JobNote
    <3>2. ASSUME wk[w].pc = "note_send"
          PROVE  outbox'[JobNote(w)].status # "sent"
      <4>1. wk[w].msg \in NoteMessage /\ JobNote(w) \in DOMAIN outbox
        BY <1>0, <3>2, WorkerFacts DEF NoteSteps, NoteJobHasRow, JobNote
      <4>2. PICK n \in DOMAIN outbox : n = JobNote(w)
        BY <4>1
      <4>3. HoldsJob(w, n, S)
        BY <1>2, <3>2, <4>1, <4>2 DEF HoldsJob, NoteSteps
      <4>4. outbox'[n] = outbox[n]
        BY <1>1, <2>2, <4>3, RowOfHeldJob
      <4> QED
        BY <1>1, <3>2, <4>2, <4>4
    <3> QED
      BY <1>1, <3>1, <3>2
  <2> QED
    BY <2>1, <2>2
<1> QED
  BY <1>2, <1>3, <1>4

LEMMA LostGrows ==
    ASSUME TypeInv, [Next]_vars
    PROVE  /\ Lost \in Nat /\ Lost' \in Nat /\ Lost' >= Lost
           /\ Lost' = 0 => Lost = 0 /\ ~Spend("worker_crash") /\ ~Spend("redeliver")
<1>1. "worker_crash" \in Fault /\ "redeliver" \in Fault
  BY DEF Fault
<1>2. spent \in [Fault -> Nat]
  BY DEF TypeInv, TypeOK, StoresOK
<1>3. UNCHANGED spent \/ \E k \in Fault : Spend(k)
  BY StepCases, RequestSpends, WorkerSpends DEF Quiet
<1>4. ASSUME NEW k \in Fault
      PROVE  spent[k] \in Nat /\ spent'[k] \in Nat /\ spent'[k] >= spent[k]
  BY <1>2, <1>3, <1>4 DEF Spend
<1>5. ASSUME NEW k \in Fault, spent'[k] = 0
      PROVE  ~Spend(k)
  BY <1>5, SpendCounts
<1>6. /\ spent["worker_crash"] \in Nat /\ spent'["worker_crash"] \in Nat
      /\ spent'["worker_crash"] >= spent["worker_crash"]
      /\ spent["redeliver"] \in Nat /\ spent'["redeliver"] \in Nat
      /\ spent'["redeliver"] >= spent["redeliver"]
  BY <1>1, <1>4
<1> QED
  BY <1>1, <1>5, <1>6 DEF Lost

(* A message published says no more tries than its row does. *)
LEMMA QueuedTries ==
    ASSUME Sofar, RowsOfRuled, TriesCounted, Lost = 0, OneJob(NoteSteps),
           ~Spend("worker_crash"), ~Spend("redeliver"),
           NEW m \in DOMAIN queue' \cap NoteMessage
    PROVE  outbox'[m.note].attempts >= m.retries
<1>0. TypeInv /\ [Next]_vars /\ NoteJobHasRow /\ NoteSteps \in Counted
  BY DEF Sofar, RecordInv, Counted
<1>1. CASE m \in DOMAIN queue
  BY <1>0, <1>1, RowOfQueuedJob DEF TriesCounted
<1>2. CASE m \notin DOMAIN queue
  <2>1. ASSUME NEW r \in Request, Acts(r)
        PROVE  outbox'[m.note].attempts >= m.retries
    <3>1. PICK f \in req[r].notes :
             Dispatch(r) /\ NoteAdded([note |-> <<r, f>>, retries |-> 0])
      BY <1>0, <1>2, <2>1, RequestNotes DEF NotesStay, Same
    <3>2. m = [note |-> <<r, f>>, retries |-> 0]
      BY <1>2, <3>1 DEF NoteAdded, Same
    <3>3. m.note \in DOMAIN outbox /\ outbox' = outbox
      BY <3>1, <3>2 DEF Dispatch, database, Sofar, RecordInv, Recorded, RuledSteps
    <3>4. outbox[m.note] \in Note
      BY <1>0, <3>3 DEF TypeInv, TypeOK, TablesOK
    <3> QED
      BY <3>2, <3>3, <3>4 DEF Note
  <2>2. ASSUME NEW w \in Worker, WorkerActs(w)
        PROVE  outbox'[m.note].attempts >= m.retries
    <3>1. /\ Retry(w) /\ wk[w].pc = "note_retry" /\ wk[w].msg \in NoteMessage
          /\ NoteAdded(Successor(wk[w].msg))
          /\ Successor(wk[w].msg).note = JobNote(w)
      <4>1. ~NotesStay /\ \A k \in DOMAIN queue : ~NoteTaken(k)
        BY <1>2 DEF NotesStay, NoteTaken, Same
      <4>2. ~WorkerCrash(w) /\ ~Redeliver(w)
        BY DEF WorkerCrash, Redeliver
      <4> QED
        BY <1>0, <2>2, <4>1, <4>2, WorkerNotes
    <3>2. m = Successor(wk[w].msg)
      BY <1>2, <3>1 DEF NoteAdded, Same
    <3>3. m.note = JobNote(w) /\ m.retries = wk[w].msg.retries + 1
      BY <3>1, <3>2, SameJob DEF Message
    <3>4. /\ outbox[m.note].attempts > wk[w].msg.retries
          /\ m.note \in DOMAIN outbox /\ outbox' = outbox
      BY <1>0, <3>1, <3>3 DEF TriesCounted, Retry, database, NoteJobHasRow, JobNote
    <3>5. outbox[m.note].attempts \in Nat /\ wk[w].msg.retries \in Nat
      BY <1>0, <3>1, <3>4, ConstantAssumption
         DEF TypeInv, TypeOK, TablesOK, Note, NoteMessage
    <3> QED
      BY <3>3, <3>4, <3>5
  <2> QED
    BY <1>0, <1>2, <2>1, <2>2, StepCases DEF Quiet
<1> QED
  BY <1>1, <1>2

LEMMA TriesCountedKept == Sofar /\ RowsOfRuled /\ TriesCounted => TriesCounted'
<1> SUFFICES ASSUME Sofar, RowsOfRuled, TriesCounted, Lost' = 0
             PROVE  /\ OneJob(NoteSteps)'
                    /\ \A m \in DOMAIN queue' \cap NoteMessage :
                          outbox'[m.note].attempts >= m.retries
                    /\ \A w \in Worker :
                          /\ wk'[w].pc \in {"note_send", "note_sent", "note_failed"} =>
                                wk'[w].attempts >= wk'[w].msg.retries
                          /\ wk'[w].pc = "note_retry" =>
                                outbox'[JobNote(w)'].attempts > wk'[w].msg.retries
  BY DEF TriesCounted
<1>0. /\ TypeInv /\ [Next]_vars /\ NoteJobHasRow /\ Lost = 0
      /\ ~Spend("worker_crash") /\ ~Spend("redeliver")
  BY LostGrows DEF Sofar, RecordInv
<1>1. /\ OneJob(NoteSteps) /\ NoteSteps \in Counted
      /\ \A m \in DOMAIN queue \cap NoteMessage : outbox[m.note].attempts >= m.retries
      /\ \A w \in Worker :
            /\ wk[w].pc \in {"note_send", "note_sent", "note_failed"} =>
                  wk[w].attempts >= wk[w].msg.retries
            /\ wk[w].pc = "note_retry" =>
                  outbox[JobNote(w)].attempts > wk[w].msg.retries
  BY <1>0 DEF TriesCounted, Counted
<1>2. "ack" \notin NoteSteps
  BY DEF NoteSteps
<1>3. OneJob(NoteSteps)'
  BY <1>0, <1>1, <1>2, OneJobKept
<1>4. \A m \in DOMAIN queue' \cap NoteMessage : outbox'[m.note].attempts >= m.retries
  BY <1>0, <1>1, QueuedTries
<1>5. ASSUME NEW w \in Worker, WorkerActs(w)
      PROVE  /\ wk'[w].pc \in {"note_send", "note_sent", "note_failed"} =>
                   wk'[w].attempts >= wk'[w].msg.retries
             /\ wk'[w].pc = "note_retry" =>
                   outbox'[JobNote(w)'].attempts > wk'[w].msg.retries
  <2>0. wk \in [Worker -> WorkerState] /\ wk[w] \in WorkerState
    BY <1>0, WorkerFacts DEF ActorsOK
  <2>1. CASE wk'[w].pc = "note_send"
    <3>1. TakeNote(w)
      BY <1>0, <1>5, <2>1, DeliveryArrives
    <3> QED
      BY <1>0, <1>1, <2>1, <3>1, NoteTakenUp DEF JobNote
  <2>2. CASE wk'[w].pc \in {"note_sent", "note_failed"}
    <3>1. NoteSend(w) \/ NoteSendFails(w)
      BY <1>0, <1>5, <2>2, DeliveryArrives
    <3>2. /\ wk[w].pc = "note_send" /\ wk'[w].attempts = wk[w].attempts
          /\ wk'[w].msg = wk[w].msg
      BY <2>0, <3>1 DEF NoteSend, NoteSendFails, WGoto, WorkerState
    <3> QED
      BY <1>1, <2>2, <3>2
  <2>3. CASE wk'[w].pc = "note_retry"
    <3>1. NoteFailed(w)
      BY <1>0, <1>5, <2>3, DeliveryArrives
    <3>2. wk[w].pc = "note_failed" /\ wk'[w].msg = wk[w].msg
      BY <2>0, <3>1 DEF NoteFailed, UpdateNote, WGoto, WorkerState
    <3>3. wk[w].msg \in NoteMessage /\ JobNote(w) \in DOMAIN outbox
      BY <1>0, <3>2, WorkerFacts DEF NoteSteps, NoteJobHasRow, JobNote
    <3>4. outbox'[JobNote(w)].attempts = wk[w].attempts + 1
      BY <3>1, <3>3 DEF NoteFailed, UpdateNote
    <3>5. wk[w].attempts \in Nat /\ wk[w].msg.retries \in Nat
      BY <2>0, <3>3, ConstantAssumption DEF WorkerState, NoteMessage
    <3> QED
      BY <1>1, <2>3, <3>2, <3>4, <3>5 DEF JobNote
  <2> QED
    BY <2>1, <2>2, <2>3
<1>6. ASSUME NEW w \in Worker, ~WorkerActs(w)
      PROVE  /\ wk'[w].pc \in {"note_send", "note_sent", "note_failed"} =>
                   wk'[w].attempts >= wk'[w].msg.retries
             /\ wk'[w].pc = "note_retry" =>
                   outbox'[JobNote(w)'].attempts > wk'[w].msg.retries
  <2>1. wk'[w] = wk[w] /\ JobNote(w)' = JobNote(w)
    BY <1>0, <1>6, WorkerHoldsStill DEF JobNote
  <2>2. ASSUME wk[w].pc = "note_retry"
        PROVE  outbox'[JobNote(w)] = outbox[JobNote(w)]
    <3>1. wk[w].msg \in NoteMessage /\ JobNote(w) \in DOMAIN outbox
      BY <1>0, <2>2, WorkerFacts DEF NoteSteps, NoteJobHasRow, JobNote
    <3>2. PICK n \in DOMAIN outbox : n = JobNote(w)
      BY <3>1
    <3>3. HoldsJob(w, n, NoteSteps)
      BY <2>2, <3>1, <3>2 DEF HoldsJob, NoteSteps
    <3> QED
      BY <1>1, <1>6, <3>2, <3>3, RowOfHeldJob
  <2> QED
    BY <1>1, <2>1, <2>2
<1> QED
  BY <1>3, <1>4, <1>5, <1>6

---------------------------------------------------------------------------
(* Notifications.                                                          *)

LEMMA QueuedNoteGoesOn ==
    ASSUME TypeInv, [Next]_vars, NEW n \in DOMAIN outbox, outbox[n].status # "sent",
           NEW m \in DOMAIN queue \cap NoteMessage, m.note = n
    PROVE  NoteDue(n)'
<1>1. CASE m \in DOMAIN queue'
  BY <1>1 DEF NoteDue
<1>2. CASE m \notin DOMAIN queue'
  <2>1. PICK w \in Worker : WorkerActs(w) /\ wk'[w].msg = m /\ TakeNote(w)
    BY <1>2, TakenByWorker DEF Message
  <2>2. wk \in [Worker -> WorkerState]
    BY DEF TypeInv, TypeOK, ActorsOK
  <2>3. PICK k \in DOMAIN queue \cap NoteMessage :
           wk' = [wk EXCEPT ![w] =
                    IF k.note \in DOMAIN outbox /\ outbox[k.note].status # "sent"
                    THEN [pc |-> "note_send", msg |-> k,
                          status |-> outbox[k.note].status,
                          attempts |-> outbox[k.note].attempts]
                    ELSE [IdleWorker EXCEPT !.pc = "ack", !.msg = k]]
    BY <2>1 DEF TakeNote
  <2>4. k = m
    BY <2>1, <2>2, <2>3 DEF IdleWorker
  <2>5. wk'[w].pc = "note_send" /\ wk'[w].msg = m
    BY <2>2, <2>3, <2>4
  <2> QED
    BY <2>5 DEF NoteDue, HoldsJob, NoteSteps, JobNote
<1> QED
  BY <1>1, <1>2

(* A delivery that has not succeeded goes on, is retried, starts over, or  *)
(* gives the row up with its tries used up.                                *)
LEMMA DeliveryGoesOn ==
    ASSUME Sofar, FailedLoaded, TriesCounted,
           NEW n \in DOMAIN outbox, outbox'[n].status # "sent",
           NEW w \in Worker, WorkerActs(w), HoldsJob(w, n, NoteSteps),
           ~Spend("db"), ~Spend("broker"), ~Spend("maildir")
    PROVE  NoteDue(n)'
<1>0. /\ wk \in [Worker -> WorkerState] /\ wk[w].msg \in NoteMessage
      /\ wk[w] \in WorkerState /\ WorkerDeparts(w) /\ JobNote(w) = n
      /\ wk[w].pc \in NoteSteps /\ TypeInv /\ [Next]_vars
      /\ MessageFits(wk[w]) /\ IsABag(queue)
  BY WorkerFacts, WorkerDeparture DEF Sofar, ActorsOK, StoresOK, TablesOK, HoldsJob
<1>1. ASSUME NEW m \in NoteMessage, m.note = n, Publish(m)
      PROVE  NoteDue(n)'
  <2>1. DOMAIN queue' = DOMAIN queue \cup {m}
    BY <1>0, <1>1, BagAddType DEF Publish
  <2> QED
    BY <1>1, <2>1 DEF NoteDue
<1>2. ASSUME NEW next \in NoteSteps, WGoto(w, next)
      PROVE  NoteDue(n)'
  <2>1. HoldsJob(w, n, NoteSteps)'
    BY <1>0, <1>2 DEF WGoto, WorkerState, HoldsJob, JobNote
  <2> QED
    BY <2>1 DEF NoteDue
<1>3. CASE WorkerCrash(w)
  BY <1>0, <1>1, <1>3 DEF WorkerCrash, JobNote
<1>4. CASE Redeliver(w)
  <2>1. HoldsJob(w, n, NoteSteps)'
    BY <1>4 DEF Redeliver, HoldsJob, JobNote
  <2> QED
    BY <2>1 DEF NoteDue
<1>5. ~WorkerDbError(w) /\ ~NoteMailDirFails(w)
  BY DEF WorkerDbError, NoteMailDirFails
<1>6. CASE NoteSend(w) \/ NoteSendFails(w)
  <2>1. \E next \in {"note_sent", "note_failed"} : WGoto(w, next)
    BY <1>6 DEF NoteSend, NoteSendFails
  <2> QED
    BY <1>2, <2>1 DEF NoteSteps
<1>7. ~NoteSent(w)
  BY <1>0, Delivered DEF Writes
<1>8. CASE NoteFailed(w)
  <2>1. /\ wk[w].pc = "note_failed" /\ outbox'[n].status = "failed"
        /\ outbox'[n].attempts = wk[w].attempts + 1
    BY <1>0, <1>8, Delivered DEF Writes
  <2>2. CASE WGoto(w, "note_retry")
    BY <1>2, <2>2 DEF NoteSteps
  <2>3. CASE wk[w].msg.retries >= NotificationMaxRetries
    <3>1. CASE Lost = 0
      <4>1. wk[w].attempts >= wk[w].msg.retries
        BY <2>1, <3>1 DEF TriesCounted
      <4>2. outbox'[n].attempts > NotificationMaxRetries
        BY <1>0, <2>1, <2>3, <4>1, ConstantAssumption DEF WorkerState, NoteMessage
      <4> QED
        BY <2>1, <4>2 DEF NoteDue
    <3>2. CASE Lost # 0
      <4>1. Lost' > 0
        BY <1>0, <3>2, LostGrows
      <4> QED
        BY <2>1, <4>1 DEF NoteDue
    <3> QED
      BY <3>1, <3>2
  <2> QED
    BY <1>8, <2>2, <2>3 DEF NoteFailed, UpdateNote
<1>9. CASE Retry(w)
  <2>1. Publish(Successor(wk[w].msg)) /\ wk[w].msg.retries < NotificationMaxRetries
    BY <1>0, <1>9 DEF Retry, Successor, NoteSteps, MessageFits
  <2>2. Successor(wk[w].msg) \in NoteMessage /\ Successor(wk[w].msg).note = n
    BY <1>0, <2>1, ConstantAssumption DEF Successor, NoteMessage, JobNote
  <2> QED
    BY <1>1, <2>1, <2>2
<1> QED
  BY <1>0, <1>3, <1>4, <1>5, <1>6, <1>7, <1>8, <1>9
     DEF WorkerDeparts, Lapses, Falls, NoteSteps

(* A decision that has committed dispatches its rows unless it fails. *)
LEMMA DecisionGoesOn ==
    ASSUME Sofar, NEW n \in DOMAIN outbox, ~Spend("db"), ~Spend("broker"),
           \/ req[n[1]].pc \in RuledSteps /\ Undispatched(n)
           \/ req[n[1]].pc = "crashed" \/ req[n[1]].reply = 500
    PROVE  NoteDue(n)'
<1>0. TypeInv /\ [Next]_vars /\ IsABag(queue) /\ n \in NoteId
  BY DEF Sofar, TypeInv, TypeOK, StoresOK, TablesOK
<1>1. PICK r \in Request : r = n[1]
  BY <1>0 DEF NoteId
<1>2. CASE ~Acts(r)
  BY <1>0, <1>1, <1>2, HoldsStill DEF NoteDue, Undispatched
<1>3. CASE Acts(r)
  <2>0. /\ Effect(r) /\ req[r].pc \notin Over
        /\ req[r] \in ReqState /\ req \in [Request -> ReqState]
    BY <1>0, <1>3, ActsAlone
  <2>1. req[r].pc \in RuledSteps /\ n[2] \in req[r].notes
    BY <1>1, <2>0 DEF Over, Sofar, BlobInv, ServedUnlessRemoved, Undispatched
  <2>2. ASSUME \/ req'[r].pc \in RuledSteps /\ n[2] \in req'[r].notes
               \/ req'[r].pc = "crashed" \/ req'[r].reply = 500
        PROVE  NoteDue(n)'
    BY <1>1, <2>2 DEF NoteDue, Undispatched
  <2>3. CASE ApiCrash(r)
    BY <2>0, <2>2, <2>3 DEF ApiCrash
  <2>4. ~ApiDbError(r) /\ ~DispatchFails(r)
    BY DEF ApiDbError, DispatchFails
  <2>5. CASE DecideRefresh(r)
    BY <2>0, <2>1, <2>2, <2>5 DEF DecideRefresh, Goto, Answer, AnswerWith, ReqState,
       RuledSteps
  <2>6. ~Decided(r)
    BY <2>1 DEF Decided
  <2>7. CASE Dispatch(r)
    <3>1. PICK f \in req[r].notes :
             /\ queue' = BagAdd(queue, [note |-> <<r, f>>, retries |-> 0])
             /\ req' = [req EXCEPT ![r].notes = @ \ {f}]
      BY <2>7 DEF Dispatch, Publish
    <3>2. CASE f = n[2]
      <4> DEFINE m == [note |-> <<r, f>>, retries |-> 0]
      <4>1. m \in NoteMessage /\ m.note = n
        BY <1>0, <1>1, <3>2, ConstantAssumption DEF NoteMessage, NoteId
      <4>2. queue' = BagAdd(queue, m)
        BY <3>1
      <4> HIDE DEF m
      <4>3. DOMAIN queue' = DOMAIN queue \cup {m}
        BY <1>0, <4>2, BagAddType
      <4> QED
        BY <4>1, <4>3 DEF NoteDue
    <3>3. CASE f # n[2]
      BY <2>0, <2>1, <2>2, <3>1, <3>3 DEF ReqState
    <3> QED
      BY <3>2, <3>3
  <2> QED
    BY <2>0, <2>1, <2>3, <2>4, <2>5, <2>6, <2>7 DEF Effect, Departs, RuledSteps
<1> QED
  BY <1>2, <1>3

LEMMA NotesDueKept == Sofar /\ FailedLoaded /\ TriesCounted /\ NotesDue => NotesDue'
<1> SUFFICES ASSUME Sofar, FailedLoaded, TriesCounted, NotesDue,
                    Never({"db", "broker", "maildir"})',
                    NEW n \in DOMAIN outbox', outbox'[n].status # "sent"
             PROVE  NoteDue(n)'
  BY DEF NotesDue
<1>0. /\ TypeInv /\ [Next]_vars /\ Never({"db", "broker", "maildir"})
      /\ ~Spend("db") /\ ~Spend("broker") /\ ~Spend("maildir")
  BY NeverKept DEF Sofar, Fault
<1>1. ASSUME NEW r \in Request, n[1] = r, n[2] \in req'[r].notes,
             req'[r].pc = "decide_refresh"
      PROVE  NoteDue(n)'
  BY <1>1 DEF NoteDue, RuledSteps, Undispatched
<1>2. ASSUME n \in DOMAIN outbox, NEW w \in Worker, Writes(w, n)
      PROVE  NoteDue(n)'
  <2>1. HoldsJob(w, n, NoteSteps)
    BY <1>0, <1>2, Delivers DEF Writes, HoldsJob
  <2> QED
    BY <1>0, <1>2, <2>1, DeliveryGoesOn DEF Writes
<1>3. CASE n \in DOMAIN outbox /\ outbox'[n] = outbox[n]
  <2>1. NoteDue(n)
    BY <1>0, <1>3 DEF NotesDue
  <2>2. CASE \E m \in DOMAIN queue \cap NoteMessage : m.note = n
    BY <1>0, <1>3, <2>2, QueuedNoteGoesOn
  <2>3. CASE \E w \in Worker : HoldsJob(w, n, NoteSteps)
    <3>1. PICK w \in Worker : HoldsJob(w, n, NoteSteps)
      BY <2>3
    <3>2. CASE WorkerActs(w)
      BY <1>0, <1>3, <3>1, <3>2, DeliveryGoesOn
    <3>3. CASE ~WorkerActs(w)
      <4>1. HoldsJob(w, n, NoteSteps)'
        BY <1>0, <3>1, <3>3, WorkerHoldsStill DEF HoldsJob, JobNote
      <4> QED
        BY <4>1 DEF NoteDue
    <3> QED
      BY <3>2, <3>3
  <2>4. CASE /\ outbox[n].status = "failed"
             /\ outbox[n].attempts > NotificationMaxRetries \/ Lost > 0
    <3>1. Lost > 0 => Lost' > 0
      BY <1>0, LostGrows
    <3> QED
      BY <1>3, <2>4, <3>1 DEF NoteDue
  <2>5. CASE \/ req[n[1]].pc \in RuledSteps /\ Undispatched(n)
             \/ req[n[1]].pc = "crashed" \/ req[n[1]].reply = 500
    BY <1>0, <1>3, <2>5, DecisionGoesOn
  <2> QED
    BY <2>1, <2>2, <2>3, <2>4, <2>5 DEF NoteDue
<1> QED
  BY <1>0, <1>1, <1>2, <1>3, OutboxRows

LEMMA JobStep ==
    TypeInv /\ LockInv /\ RecordInv /\ BlobInv /\ JobInv /\ [Next]_vars => JobInv'
  BY ThumbsDueKept, RowsOfRuledKept, SentOnceKept, TriesCountedKept, FailedLoadedKept,
     NotesDueKept DEF Sofar, JobInv

LEMMA JobInit == Init => JobInv
<1> SUFFICES ASSUME Init PROVE JobInv
  OBVIOUS
<1>1. DOMAIN outbox = {} /\ \A w \in Worker : wk[w].pc = "idle"
  BY DEF Init, IdleWorker
<1>2. DOMAIN queue \cap NoteMessage = {}
  <2>1. \A m \in DOMAIN queue : \E p : m = [photo |-> p, retries |-> 0]
    BY DEF Init
  <2>2. \A p : [photo |-> p, retries |-> 0] \notin NoteMessage
    BY DEF NoteMessage
  <2> QED
    BY <2>1, <2>2
<1>3. \A S \in Counted : OneJob(S)
  BY <1>1, <1>2 DEF OneJob, HoldsJob, Counted, NoteSteps
<1>4. SentOnce /\ TriesCounted
  BY <1>1, <1>2, <1>3 DEF SentOnce, TriesCounted, Counted
<1>5. RowsOfRuled /\ FailedLoaded /\ NotesDue
  BY <1>1 DEF RowsOfRuled, FailedLoaded, NotesDue
<1> QED
  BY <1>4, <1>5, ThumbsDueInit DEF JobInv

(* Whatever is still to be done about a row has somebody who is going to   *)
(* do it, and what the row records of the tries so far is true.            *)
THEOREM JobInvCorrect == Spec => []JobInv
  BY TypeInvCorrect, LockInvCorrect, RecordInvCorrect, BlobInvCorrect, JobInit, JobStep,
     PTL DEF Spec

(* A thumbnail still pending or processing has its job, across worker      *)
(* crashes and redeliveries, unless the upload failed after its commit.    *)
THEOREM ThumbnailHasJob == Spec => []NoStrandedThumbnail
<1>1. TypeInv /\ JobInv => NoStrandedThumbnail
  <2>1. SUFFICES ASSUME TypeInv, JobInv, Never({"db", "broker"}),
                        NEW p \in DOMAIN photos, photos[p].status \in Unsettled
                 PROVE  ThumbJobExists(p) \/ \E r \in Request : Enqueues(r, p)
    BY DEF NoStrandedThumbnail, Enqueues, Unsettled
  <2>2. \A w \in Worker : Thumbs(w, p) => /\ wk[w].msg \in ThumbMessage
                                          /\ wk[w].msg.photo = p
    BY <2>1, WorkerFacts DEF Thumbs, JobPhoto
  <2> QED
    BY <2>1, <2>2 DEF JobInv, ThumbsDue, ThumbDue, ThumbJobExists, Thumbs, Enqueues,
       Unsettled
<1> QED
  BY <1>1, TypeInvCorrect, JobInvCorrect, PTL

(* A worker that is about to mail a notification has read its row unsent   *)
(* and the row still is, as long as no message is duplicated and no        *)
(* delivery retried: a crash after the commit of "sent" mails nothing.     *)
THEOREM SentIsFinal == Spec => []SentNotMailedAgain
<1>1. JobInv => SentNotMailedAgain
  BY DEF JobInv, SentOnce, SentNotMailedAgain
<1> QED
  BY <1>1, JobInvCorrect, PTL

(* An outbox row not yet sent has a job, or has been given up after all    *)
(* its tries, or its decision never got to dispatch it.                    *)
THEOREM NoteHasJob == Spec => []NoStrandedNote
<1>1. JobInv => NoStrandedNote
  BY DEF JobInv, NotesDue, NoteDue, NoStrandedNote, NoteJobExists, HoldsJob, JobNote,
     RuledSteps
<1> QED
  BY <1>1, JobInvCorrect, PTL

---------------------------------------------------------------------------
(* Budgets. Counting the tries to come across a step.                      *)

\* J and K are what was to come before and after the step.
NoMore(J, K) == IsFiniteSet(K) /\ Cardinality(K) <= Cardinality(J)
Handed(J, K, from, to) ==
    \A t \in K : \/ t \in J /\ t[1] # from
                 \/ t = <<to, t[2]>> /\ <<from, t[2]>> \in J

LEMMA Covered ==
    ASSUME NEW J, IsFiniteSet(J), NEW K, NEW g \in [J -> K],
           \A t \in K : \E s \in J : g[s] = t
    PROVE  NoMore(J, K)
<1>1. g \in Surjection(J, K)
  BY DEF Surjection
<1> QED
  BY <1>1, FS_Surjection DEF NoMore

LEMMA Onto ==
    ASSUME NEW J, IsFiniteSet(J), NEW K, NEW g, DOMAIN g = J, g = [s \in J |-> g[s]],
           \A t \in K : \E s \in J : g[s] = t
    PROVE  NoMore(J, K)
<1> DEFINE T == {g[s] : s \in J}
<1>1. g \in [J -> T]
  OBVIOUS
<1>2. K \subseteq T
  OBVIOUS
<1>3. NoMore(J, T)
  BY <1>1, Covered
<1>4. NoMore(T, K)
  BY <1>2, <1>3, FS_Subset DEF NoMore
<1> QED
  BY <1>3, <1>4, FS_CardinalityType DEF NoMore

LEMMA Fewer ==
    ASSUME NEW J, IsFiniteSet(J), NEW K, K \subseteq J
    PROVE  NoMore(J, K)
  BY FS_Subset DEF NoMore

LEMMA Handing ==
    ASSUME NEW J, IsFiniteSet(J), NEW K, NEW from, NEW to, Handed(J, K, from, to)
    PROVE  NoMore(J, K)
<1> DEFINE g == [s \in J |-> IF s[1] = from THEN <<to, s[2]>> ELSE s]
<1>1. ASSUME NEW t \in K PROVE \E s \in J : g[s] = t
  <2>1. CASE t \in J /\ t[1] # from
    BY <2>1
  <2>2. CASE t = <<to, t[2]>> /\ <<from, t[2]>> \in J
    <3>1. g[<<from, t[2]>>] = <<to, t[2]>>
      BY <2>2
    <3> QED
      BY <2>2, <3>1
  <2> QED
    BY <2>1, <2>2 DEF Handed
<1>2. DOMAIN g = J /\ g = [s \in J |-> g[s]]
  OBVIOUS
<1> HIDE DEF g
<1> QED
  BY <1>1, <1>2, Onto

LEMMA Granting ==
    ASSUME NEW J, IsFiniteSet(J), NEW K, NEW to, NEW n \in Nat,
           \A t \in K : t \in J \/ (t = <<to, t[2]>> /\ t[2] \in 0..n)
    PROVE  IsFiniteSet(K) /\ Cardinality(K) <= Cardinality(J) + n + 1
<1> DEFINE g == [i \in 0..n |-> <<to, i>>]
           N == {g[i] : i \in 0..n}
<1>1. IsFiniteSet(0..n) /\ Cardinality(0..n) = n + 1
  <2>1. 0 \in Int /\ n \in Int /\ ~(0 > n) /\ n - 0 + 1 = n + 1
    OBVIOUS
  <2> QED
    BY <2>1, FS_Interval
<1>2. \A t \in N : \E i \in 0..n : g[i] = t
  OBVIOUS
<1>3. DOMAIN g = 0..n /\ g = [i \in 0..n |-> g[i]]
  OBVIOUS
<1>4. \A t \in K : t \in J \/ t \in N
  <2>1. ASSUME NEW t, t = <<to, t[2]>>, t[2] \in 0..n
        PROVE  t \in N
    <3>1. g[t[2]] = t
      BY <2>1
    <3> QED
      BY <2>1, <3>1
  <2> QED
    BY <2>1
<1> HIDE DEF g
<1>5. NoMore(0..n, N)
  BY <1>1, <1>2, <1>3, Onto
<1> HIDE DEF N
<1>6. IsFiniteSet(N) /\ Cardinality(N) <= n + 1 /\ Cardinality(N) \in Nat
  BY <1>1, <1>5, FS_CardinalityType DEF NoMore
<1>7. /\ IsFiniteSet(J \cup N)
      /\ Cardinality(J \cup N) = Cardinality(J) + Cardinality(N) - Cardinality(J \cap N)
  BY <1>6, FS_Union
<1>8. IsFiniteSet(J \cap N)
  BY FS_Subset
<1>9. NoMore(J \cup N, K)
  BY <1>4, <1>7, Fewer
<1>10. /\ Cardinality(J) \in Nat /\ Cardinality(J \cap N) \in Nat
       /\ Cardinality(J \cup N) \in Nat /\ Cardinality(K) \in Nat
  BY <1>7, <1>8, <1>9, FS_CardinalityType DEF NoMore
<1> QED
  BY <1>6, <1>7, <1>9, <1>10 DEF NoMore

LEMMA Spending ==
    ASSUME NEW J, IsFiniteSet(J), NEW K, NEW t \in J, K \subseteq J \ {t}
    PROVE  IsFiniteSet(K) /\ Cardinality(K) + 1 <= Cardinality(J)
<1>1. IsFiniteSet(J \ {t}) /\ Cardinality(J \ {t}) = Cardinality(J) - 1
  BY FS_RemoveElement
<1>2. NoMore(J \ {t}, K)
  BY <1>1, Fewer
<1>3. Cardinality(J) \in Nat /\ Cardinality(K) \in Nat
  BY <1>2, FS_CardinalityType DEF NoMore
<1> QED
  BY <1>1, <1>2, <1>3 DEF NoMore

\* A copy of a message waiting with the broker, and the copy a step adds or
\* takes.
Waits(m, i) == m \in DOMAIN queue /\ i \in 1..queue[m]
Copies(m, i) == \A k, j : Waits(k, j)' => Waits(k, j) \/ (k = m /\ j = i)
Takes(m, i)  == /\ Waits(m, i)
                /\ \A k, j : Waits(k, j)' => Waits(k, j) /\ ~(k = m /\ j = i)

LEMMA CopyAdded ==
    ASSUME TypeInv, NEW m, queue' = BagAdd(queue, m)
    PROVE  \E i : Copies(m, i)
<1>1. \A k \in DOMAIN queue : queue[k] \in Nat \ {0}
  BY DEF TypeInv, TypeOK, StoresOK, IsABag
<1>2. CASE m \in DOMAIN queue
  <2>1. ASSUME NEW k, NEW j, Waits(k, j)'
        PROVE  Waits(k, j) \/ (k = m /\ j = queue[m] + 1)
    <3>1. /\ k \in DOMAIN queue /\ j \in 1..queue'[k]
          /\ queue'[k] = IF k = m THEN queue[k] + 1 ELSE queue[k]
      BY <1>2, <2>1 DEF BagAdd, Waits
    <3>2. \A q \in Nat : j \in 1..q + 1 => j \in 1..q \/ j = q + 1
      OBVIOUS
    <3> QED
      BY <1>1, <3>1, <3>2 DEF Waits
  <2>2. Copies(m, queue[m] + 1)
    BY <2>1 DEF Copies
  <2> QED
    BY <2>2
<1>3. CASE m \notin DOMAIN queue
  <2>1. ASSUME NEW k, NEW j, Waits(k, j)'
        PROVE  Waits(k, j) \/ (k = m /\ j = 1)
    <3>1. /\ j \in 1..queue'[k]
          /\ \/ k = m /\ queue'[k] = 1
             \/ k \in DOMAIN queue /\ queue'[k] = queue[k]
      BY <1>3, <2>1 DEF BagAdd, Waits
    <3>2. j \in 1..1 => j = 1
      OBVIOUS
    <3> QED
      BY <3>1, <3>2 DEF Waits
  <2>2. Copies(m, 1)
    BY <2>1 DEF Copies
  <2> QED
    BY <2>2
<1> QED
  BY <1>2, <1>3

LEMMA CopyTaken ==
    ASSUME TypeInv, NEW m \in DOMAIN queue, queue' = BagRemove(queue, m)
    PROVE  \E i : Takes(m, i)
<1>1. \A k \in DOMAIN queue : queue[k] \in Nat \ {0}
  BY DEF TypeInv, TypeOK, StoresOK, IsABag
<1>2. CASE queue[m] = 1
  <2>1. Takes(m, queue[m])
    BY <1>1, <1>2 DEF BagRemove, Takes, Waits
  <2> QED
    BY <2>1
<1>3. CASE queue[m] # 1
  <2>1. Takes(m, queue[m])
    BY <1>1, <1>3 DEF BagRemove, Takes, Waits
  <2> QED
    BY <2>1
<1> QED
  BY <1>2, <1>3

---------------------------------------------------------------------------
(* Mails.                                                                  *)

QueuedMail(n, t) ==
    \E m \in NoteMessage, i \in Nat :
        Waits(m, i) /\ m.note = n /\ t = <<<<"queued", m, i>>, 0>>
HeldMail(n, t) ==
    \E w \in Worker : HoldsJob(w, n, Mailing) /\ t = <<<<"held", w, 0>>, 0>>
DueMail(n, t) == Undispatched(n) /\ t = <<<<"due", n[2], 0>>, 0>>

LEMMA MailToCome ==
    ASSUME NEW n, NEW t
    PROVE  /\ t \in MailsToCome(n) <=> QueuedMail(n, t) \/ HeldMail(n, t) \/ DueMail(n, t)
           /\ t \in MailsToCome(n)' <=>
                 QueuedMail(n, t)' \/ HeldMail(n, t)' \/ DueMail(n, t)'
<1>1. /\ t \in MailsQueued(n) <=> QueuedMail(n, t)
      /\ t \in MailsQueued(n)' <=> QueuedMail(n, t)'
  BY DEF MailsQueued, QueuedAt, QueuedMail, Waits
<1>2. /\ t \in MailsHeld(n) <=> HeldMail(n, t)
      /\ t \in MailsHeld(n)' <=> HeldMail(n, t)'
  BY DEF MailsHeld, HeldAt, HeldMail
<1>3. /\ t \in MailsDue(n) <=> DueMail(n, t)
      /\ t \in MailsDue(n)' <=> DueMail(n, t)'
  BY DEF MailsDue, DueAt, DueMail, Undispatched
<1> QED
  BY <1>1, <1>2, <1>3 DEF MailsToCome

(* A crash and a redelivery count as one delivery each. *)
LEMMA LostCounts ==
    ASSUME TypeInv, NEW w \in Worker, WorkerCrash(w) \/ Redeliver(w)
    PROVE  Lost' = Lost + 1
<1>1. spent \in [Fault -> Nat] /\ {"worker_crash", "redeliver"} \subseteq Fault
  BY DEF TypeInv, TypeOK, StoresOK, Fault
<1>2. \E k \in {"worker_crash", "redeliver"} : spent' = [spent EXCEPT ![k] = @ + 1]
  BY DEF WorkerCrash, Redeliver, Spend
<1>3. spent["worker_crash"] \in Nat /\ spent["redeliver"] \in Nat
  BY <1>1
<1> QED
  BY <1>1, <1>2, <1>3 DEF Lost

(* No more mails to come, when no copy is added that is about the row.     *)
LEMMA NoMailAdded ==
    ASSUME NEW n, IsFiniteSet(MailsToCome(n)),
           \A m \in NoteMessage, i \in Nat : Waits(m, i)' /\ m.note = n => Waits(m, i),
           \A w \in Worker : HoldsJob(w, n, Mailing)' => HoldsJob(w, n, Mailing),
           Undispatched(n)' => Undispatched(n)
    PROVE  NoMore(MailsToCome(n), MailsToCome(n)')
<1>1. ASSUME NEW t \in MailsToCome(n)' PROVE t \in MailsToCome(n)
  <2>1. CASE QueuedMail(n, t)'
    <3>1. QueuedMail(n, t)
      BY <2>1 DEF QueuedMail
    <3> QED
      BY <3>1, MailToCome
  <2>2. CASE HeldMail(n, t)'
    <3>1. HeldMail(n, t)
      BY <2>2 DEF HeldMail
    <3> QED
      BY <3>1, MailToCome
  <2>3. CASE DueMail(n, t)'
    <3>1. DueMail(n, t)
      BY <2>3 DEF DueMail
    <3> QED
      BY <3>1, MailToCome
  <2> QED
    BY <1>1, <2>1, <2>2, <2>3, MailToCome
<1> QED
  BY <1>1, Fewer

LEMMA MailsByRequest ==
    ASSUME TypeInv, RowsOfRuled, [Next]_vars, NEW r \in Request, Acts(r),
           NEW n \in DOMAIN outbox, IsFiniteSet(MailsToCome(n))
    PROVE  NoMore(MailsToCome(n), MailsToCome(n)')
<1>0. /\ Effect(r) /\ wk' = wk /\ req[r] \in ReqState /\ req \in [Request -> ReqState]
      /\ n \in NoteId
  BY ActsAlone DEF TypeInv, TypeOK, TablesOK
<1>1. \A w \in Worker : HoldsJob(w, n, Mailing)' <=> HoldsJob(w, n, Mailing)
  BY <1>0 DEF HoldsJob, JobNote
<1>2. Undispatched(n)' => Undispatched(n)
  BY UndispatchedBefore
<1>3. ASSUME \A m \in NoteMessage, i \in Nat : Waits(m, i)' /\ m.note = n => Waits(m, i)
      PROVE  NoMore(MailsToCome(n), MailsToCome(n)')
  BY <1>1, <1>2, <1>3, NoMailAdded
<1>4. CASE queue' = queue
  BY <1>3, <1>4 DEF Waits
<1>5. CASE UploadEnqueue(r)
  <2> DEFINE k == [photo |-> req[r].photo, retries |-> 0]
  <2>1. queue' = BagAdd(queue, k)
    BY <1>5 DEF UploadEnqueue, Publish
  <2>2. k \notin NoteMessage
    BY DEF NoteMessage
  <2> HIDE DEF k
  <2>3. PICK i : Copies(k, i)
    BY <2>1, CopyAdded
  <2> QED
    BY <1>3, <2>2, <2>3 DEF Copies
<1>6. CASE Dispatch(r)
  <2>1. PICK f \in req[r].notes :
           /\ queue' = BagAdd(queue, [note |-> <<r, f>>, retries |-> 0])
           /\ req' = [req EXCEPT ![r].notes = @ \ {f}]
    BY <1>6 DEF Dispatch, Publish
  <2> DEFINE k == [note |-> <<r, f>>, retries |-> 0]
  <2>2. queue' = BagAdd(queue, k) /\ k.note = <<r, f>>
    BY <2>1
  <2> HIDE DEF k
  <2>3. PICK i : Copies(k, i)
    BY <2>2, CopyAdded
  <2>4. CASE n # <<r, f>>
    BY <1>3, <2>2, <2>3, <2>4 DEF Copies
  <2>5. CASE n = <<r, f>>
    <3> DEFINE from == <<"due", f, 0>>
               to   == <<"queued", k, i>>
    <3>1. Undispatched(n) /\ ~Undispatched(n)'
      BY <1>0, <2>1, <2>5 DEF Undispatched, ReqState
    <3>2. <<from, 0>> \in MailsToCome(n)
      BY <2>5, <3>1, MailToCome DEF DueMail
    <3>3. ASSUME NEW t \in MailsToCome(n)'
          PROVE  \/ t \in MailsToCome(n) /\ t[1] # from
                 \/ t = <<to, t[2]>> /\ <<from, t[2]>> \in MailsToCome(n)
      <4>1. CASE QueuedMail(n, t)'
        <5>1. PICK m \in NoteMessage, j \in Nat :
                 Waits(m, j)' /\ m.note = n /\ t = <<<<"queued", m, j>>, 0>>
          BY <4>1 DEF QueuedMail
        <5>2. CASE Waits(m, j)
          <6>1. QueuedMail(n, t)
            BY <5>1, <5>2 DEF QueuedMail
          <6> QED
            BY <5>1, <6>1, MailToCome
        <5>3. CASE m = k /\ j = i
          BY <3>2, <5>1, <5>3
        <5> QED
          BY <2>3, <5>1, <5>2, <5>3 DEF Copies
      <4>2. CASE HeldMail(n, t)'
        <5>1. HeldMail(n, t)
          BY <1>1, <4>2 DEF HeldMail
        <5>2. t[1][1] = "held"
          BY <4>2 DEF HeldMail
        <5> QED
          BY <5>1, <5>2, MailToCome
      <4> QED
        BY <3>1, <3>3, <4>1, <4>2, MailToCome DEF DueMail
    <3> HIDE DEF from, to
    <3>4. Handed(MailsToCome(n), MailsToCome(n)', from, to)
      BY <3>3 DEF Handed
    <3> QED
      BY <3>4, Handing
  <2> QED
    BY <2>4, <2>5
<1> QED
  BY <1>0, <1>4, <1>5, <1>6 DEF Effect, Stores

(* Who is going to mail after a step of a worker was before, or has just   *)
(* taken the message.                                                      *)
LEMMA MailerBefore ==
    ASSUME TypeInv, NEW w \in Worker, WorkerActs(w), ~TakeNote(w), NEW n,
           HoldsJob(w, n, Mailing)'
    PROVE  HoldsJob(w, n, Mailing) /\ ~NoteSend(w) /\ ~Retry(w)
<1>0. WorkerEffect(w) /\ wk[w] \in WorkerState /\ wk \in [Worker -> WorkerState]
  BY WorkerStepEffect, WorkerFacts DEF ActorsOK
<1>1. wk'[w].pc \in Mailing
  BY DEF HoldsJob
<1>2. ~NoteSend(w) /\ ~Retry(w)
  BY <1>0, <1>1 DEF NoteSend, Retry, WGoto, WorkerState, Mailing
<1>3. CASE wk' = wk
  BY <1>2, <1>3 DEF HoldsJob, JobNote
<1>4. CASE NoteSendFails(w) \/ NoteFailed(w)
  <2>1. wk[w].pc \in Mailing /\ wk'[w].msg = wk[w].msg
    BY <1>0, <1>4 DEF NoteSendFails, NoteFailed, UpdateNote, WGoto, WorkerState, Mailing
  <2> QED
    BY <1>2, <2>1 DEF HoldsJob, JobNote
<1> QED
  BY <1>0, <1>1, <1>3, <1>4 DEF WorkerEffect, WorkerArrives, Mailing

\* The mails of a row and what is to come of them: unchanged or fewer, one
\* sent, or one more delivery.
MailStep(n) ==
    /\ IsFiniteSet(MailsToCome(n)')
    /\ \/ /\ NoMore(MailsToCome(n), MailsToCome(n)')
          /\ Mailed(n)' = Mailed(n)
       \/ /\ Cardinality(MailsToCome(n)') + 1 <= Cardinality(MailsToCome(n))
          /\ Mailed(n)' = Mailed(n) + 1
       \/ /\ Cardinality(MailsToCome(n)') <= Cardinality(MailsToCome(n)) + 1
          /\ Mailed(n)' = Mailed(n) /\ Lost' = Lost + 1

LEMMA TakenMail ==
    ASSUME TypeInv, NEW w \in Worker, WorkerActs(w), TakeNote(w), NEW n \in NoteId,
           IsFiniteSet(MailsToCome(n))
    PROVE  NoMore(MailsToCome(n), MailsToCome(n)')
<1>0. /\ wk \in [Worker -> WorkerState] /\ req' = req
      /\ \A v \in Worker \ {w} : wk'[v] = wk[v]
  BY WorkerStepEffect, WorkerFacts DEF WorkerEffect, WorkerStores, ActorsOK
<1>1. PICK k \in DOMAIN queue \cap NoteMessage :
         queue' = BagRemove(queue, k) /\ wk'[w].msg = k
  BY <1>0 DEF TakeNote, IdleWorker
<1>2. PICK i : Takes(k, i)
  BY <1>1, CopyTaken
<1>3. /\ \A v \in Worker \ {w} : HoldsJob(v, n, Mailing)' <=> HoldsJob(v, n, Mailing)
      /\ Undispatched(n)' <=> Undispatched(n)
  BY <1>0 DEF HoldsJob, JobNote, Undispatched
<1>4. CASE k.note # n
  <2>1. ~HoldsJob(w, n, Mailing)'
    BY <1>1, <1>4 DEF HoldsJob, JobNote
  <2> QED
    BY <1>2, <1>3, <2>1, NoMailAdded DEF Takes
<1>5. CASE k.note = n
  <2> DEFINE from == <<"queued", k, i>>
             to   == <<"held", w, 0>>
  <2>1. i \in Nat
    BY <1>1, <1>2 DEF Takes, Waits, TypeInv, TypeOK, StoresOK, IsABag
  <2>2. QueuedMail(n, <<from, 0>>)
    BY <1>1, <1>2, <1>5, <2>1 DEF QueuedMail, Takes
  <2>3. <<from, 0>> \in MailsToCome(n)
    BY <2>2, MailToCome
  <2>4. ASSUME NEW t \in MailsToCome(n)'
        PROVE  \/ t \in MailsToCome(n) /\ t[1] # from
               \/ t = <<to, t[2]>> /\ <<from, t[2]>> \in MailsToCome(n)
    <3>1. CASE QueuedMail(n, t)'
      <4>1. PICK m \in NoteMessage, j \in Nat :
               Waits(m, j)' /\ m.note = n /\ t = <<<<"queued", m, j>>, 0>>
        BY <3>1 DEF QueuedMail
      <4>2. Waits(m, j) /\ ~(m = k /\ j = i)
        BY <1>2, <4>1 DEF Takes
      <4>3. QueuedMail(n, t)
        BY <4>1, <4>2 DEF QueuedMail
      <4> QED
        BY <4>1, <4>2, <4>3, MailToCome
    <3>2. CASE HeldMail(n, t)'
      <4>1. PICK v \in Worker : HoldsJob(v, n, Mailing)' /\ t = <<<<"held", v, 0>>, 0>>
        BY <3>2 DEF HeldMail
      <4>2. CASE v = w
        BY <2>3, <4>1, <4>2
      <4>3. CASE v # w
        <5>1. HeldMail(n, t)
          BY <1>3, <4>1, <4>3 DEF HeldMail
        <5> QED
          BY <4>1, <5>1, MailToCome
      <4> QED
        BY <4>2, <4>3
    <3>3. CASE DueMail(n, t)'
      <4>1. DueMail(n, t)
        BY <1>3, <3>3 DEF DueMail
      <4> QED
        BY <3>3, <4>1, MailToCome DEF DueMail
    <3> QED
      BY <2>4, <3>1, <3>2, <3>3, MailToCome
  <2> HIDE DEF from, to
  <2>5. Handed(MailsToCome(n), MailsToCome(n)', from, to)
    BY <2>4 DEF Handed
  <2> QED
    BY <2>5, Handing
<1> QED
  BY <1>4, <1>5

LEMMA SentMail ==
    ASSUME TypeInv, NEW w \in Worker, WorkerActs(w), NoteSend(w), NEW n \in NoteId,
           IsFiniteSet(MailsToCome(n))
    PROVE  MailStep(n)
<1>0. /\ wk \in [Worker -> WorkerState] /\ req' = req /\ IsABag(mails)
      /\ \A v \in Worker \ {w} : wk'[v] = wk[v]
      /\ wk[w].pc = "note_send" /\ wk[w].msg \in NoteMessage
      /\ queue' = queue /\ mails' = BagAdd(mails, JobNote(w)) /\ ~TakeNote(w)
  BY WorkerStepEffect, WorkerFacts
     DEF WorkerEffect, WorkerStores, ActorsOK, StoresOK, NoteSend, NoteSteps, TakeNote
<1>1. /\ \A v \in Worker \ {w} : HoldsJob(v, n, Mailing)' <=> HoldsJob(v, n, Mailing)
      /\ Undispatched(n)' <=> Undispatched(n)
      /\ \A m, i : Waits(m, i)' <=> Waits(m, i)
  BY <1>0 DEF HoldsJob, JobNote, Undispatched, Waits
<1>2. ~HoldsJob(w, n, Mailing)'
  BY <1>0, MailerBefore
<1>3. NoMore(MailsToCome(n), MailsToCome(n)')
  BY <1>1, <1>2, NoMailAdded
<1>4. CASE JobNote(w) # n
  <2>1. Mailed(n)' = Mailed(n)
    BY <1>0, <1>4 DEF Mailed, BagAdd
  <2> QED
    BY <1>3, <2>1 DEF MailStep, NoMore
<1>5. CASE JobNote(w) = n
  <2> DEFINE t == <<<<"held", w, 0>>, 0>>
  <2>1. HeldMail(n, t)
    BY <1>0, <1>5 DEF HeldMail, HoldsJob, Mailing
  <2>2. t \in MailsToCome(n)
    BY <2>1, MailToCome
  <2>3. ASSUME NEW s \in MailsToCome(n)' PROVE s \in MailsToCome(n) /\ s # t
    <3>1. CASE QueuedMail(n, s)'
      <4>1. QueuedMail(n, s) /\ s # t
        BY <1>1, <3>1 DEF QueuedMail
      <4> QED
        BY <4>1, MailToCome
    <3>2. CASE HeldMail(n, s)'
      <4>1. HeldMail(n, s) /\ s # t
        BY <1>1, <1>2, <3>2 DEF HeldMail
      <4> QED
        BY <4>1, MailToCome
    <3>3. CASE DueMail(n, s)'
      <4>1. DueMail(n, s) /\ s # t
        BY <1>1, <3>3 DEF DueMail
      <4> QED
        BY <4>1, MailToCome
    <3> QED
      BY <2>3, <3>1, <3>2, <3>3, MailToCome
  <2>4. MailsToCome(n)' \subseteq MailsToCome(n) \ {t}
    BY <2>3
  <2> HIDE DEF t
  <2>5. /\ IsFiniteSet(MailsToCome(n)')
        /\ Cardinality(MailsToCome(n)') + 1 <= Cardinality(MailsToCome(n))
    BY <2>2, <2>4, Spending
  <2>6. Mailed(n)' = Mailed(n) + 1
    BY <1>0, <1>5 DEF Mailed, BagAdd
  <2> QED
    BY <2>5, <2>6 DEF MailStep
<1> QED
  BY <1>4, <1>5

(* A worker that crashes or is taken for dead puts its message back. *)
LEMMA LostMail ==
    ASSUME TypeInv, NEW w \in Worker, WorkerActs(w), WorkerCrash(w) \/ Redeliver(w),
           ~TakeNote(w), NEW n \in NoteId, IsFiniteSet(MailsToCome(n))
    PROVE  MailStep(n)
<1>0. /\ req' = req /\ UNCHANGED mails
      /\ \A v \in Worker \ {w} : wk'[v] = wk[v]
  BY WorkerStepEffect DEF WorkerEffect, WorkerStores, WorkerCrash, Redeliver
<1>1. PICK k : queue' = BagAdd(queue, k)
  BY DEF WorkerCrash, Redeliver, Publish
<1>2. PICK i : Copies(k, i)
  BY <1>1, CopyAdded
<1>3. /\ \A v \in Worker : HoldsJob(v, n, Mailing)' => HoldsJob(v, n, Mailing)
      /\ Undispatched(n)' <=> Undispatched(n)
  <2>1. HoldsJob(w, n, Mailing)' => HoldsJob(w, n, Mailing)
    BY MailerBefore
  <2> QED
    BY <1>0, <2>1 DEF HoldsJob, JobNote, Undispatched
<1> DEFINE to == <<"queued", k, i>>
<1>4. ASSUME NEW t \in MailsToCome(n)'
      PROVE  t \in MailsToCome(n) \/ (t = <<to, t[2]>> /\ t[2] \in 0..0)
  <2>1. CASE QueuedMail(n, t)'
    <3>1. PICK m \in NoteMessage, j \in Nat :
             Waits(m, j)' /\ m.note = n /\ t = <<<<"queued", m, j>>, 0>>
      BY <2>1 DEF QueuedMail
    <3>2. CASE Waits(m, j)
      <4>1. QueuedMail(n, t)
        BY <3>1, <3>2 DEF QueuedMail
      <4> QED
        BY <4>1, MailToCome
    <3>3. CASE m = k /\ j = i
      BY <3>1, <3>3
    <3> QED
      BY <1>2, <3>1, <3>2, <3>3 DEF Copies
  <2>2. CASE HeldMail(n, t)'
    <3>1. HeldMail(n, t)
      BY <1>3, <2>2 DEF HeldMail
    <3> QED
      BY <3>1, MailToCome
  <2>3. CASE DueMail(n, t)'
    <3>1. DueMail(n, t)
      BY <1>3, <2>3 DEF DueMail
    <3> QED
      BY <3>1, MailToCome
  <2> QED
    BY <1>4, <2>1, <2>2, <2>3, MailToCome
<1> HIDE DEF to
<1>5. /\ IsFiniteSet(MailsToCome(n)')
      /\ Cardinality(MailsToCome(n)') <= Cardinality(MailsToCome(n)) + 0 + 1
  BY <1>4, Granting
<1>6. Cardinality(MailsToCome(n)) \in Nat
  BY FS_CardinalityType
<1>7. Cardinality(MailsToCome(n)') <= Cardinality(MailsToCome(n)) + 1
  BY <1>5, <1>6
<1>8. Lost' = Lost + 1
  BY LostCounts
<1> QED
  BY <1>0, <1>5, <1>7, <1>8 DEF MailStep, Mailed

(* A retry publishes the successor of the message held. *)
LEMMA RetriedMail ==
    ASSUME TypeInv, NEW w \in Worker, WorkerActs(w), Retry(w), ~TakeNote(w),
           NEW n \in NoteId, IsFiniteSet(MailsToCome(n))
    PROVE  NoMore(MailsToCome(n), MailsToCome(n)')
<1>0. /\ req' = req /\ MessageFits(wk[w]) /\ wk[w].pc \in {"thumb_retry", "note_retry"}
      /\ \A v \in Worker \ {w} : wk'[v] = wk[v]
  BY WorkerStepEffect, WorkerFacts DEF WorkerEffect, WorkerStores, Retry
<1>1. /\ \A v \in Worker \ {w} : HoldsJob(v, n, Mailing)' <=> HoldsJob(v, n, Mailing)
      /\ ~HoldsJob(w, n, Mailing)'
      /\ Undispatched(n)' <=> Undispatched(n)
  BY <1>0, MailerBefore DEF HoldsJob, JobNote, Undispatched
<1>2. CASE queue' = queue
  BY <1>1, <1>2, NoMailAdded DEF Waits
<1>3. CASE queue' = BagAdd(queue, Successor(wk[w].msg))
  <2>1. PICK k : k = Successor(wk[w].msg)
    OBVIOUS
  <2>2. PICK i : Copies(k, i)
    BY <1>3, <2>1, CopyAdded
  <2>3. ASSUME k \in NoteMessage, k.note = n PROVE HoldsJob(w, n, Mailing)
    <3>1. wk[w].msg \in Message
      BY <1>0 DEF MessageFits
    <3>2. wk[w].msg \in NoteMessage /\ wk[w].msg.note = n /\ wk[w].msg \notin ThumbMessage
      BY <2>1, <2>3, <3>1, SameJob
    <3>3. wk[w].pc = "note_retry"
      BY <1>0, <3>2 DEF MessageFits, ThumbSteps
    <3> QED
      BY <3>2, <3>3 DEF HoldsJob, Mailing, JobNote
  <2>4. CASE ~(k \in NoteMessage /\ k.note = n)
    BY <1>1, <2>2, <2>4, NoMailAdded DEF Copies
  <2>5. CASE k \in NoteMessage /\ k.note = n
    <3> DEFINE from == <<"held", w, 0>>
               to   == <<"queued", k, i>>
    <3>1. HeldMail(n, <<from, 0>>)
      BY <2>3, <2>5 DEF HeldMail
    <3>2. <<from, 0>> \in MailsToCome(n)
      BY <3>1, MailToCome
    <3>3. ASSUME NEW t \in MailsToCome(n)'
          PROVE  \/ t \in MailsToCome(n) /\ t[1] # from
                 \/ t = <<to, t[2]>> /\ <<from, t[2]>> \in MailsToCome(n)
      <4>1. CASE QueuedMail(n, t)'
        <5>1. PICK m \in NoteMessage, j \in Nat :
                 Waits(m, j)' /\ m.note = n /\ t = <<<<"queued", m, j>>, 0>>
          BY <4>1 DEF QueuedMail
        <5>2. CASE Waits(m, j)
          <6>1. QueuedMail(n, t)
            BY <5>1, <5>2 DEF QueuedMail
          <6> QED
            BY <5>1, <6>1, MailToCome
        <5>3. CASE m = k /\ j = i
          BY <3>2, <5>1, <5>3
        <5> QED
          BY <2>2, <5>1, <5>2, <5>3 DEF Copies
      <4>2. CASE HeldMail(n, t)'
        <5>1. HeldMail(n, t) /\ t[1] # from
          BY <1>1, <4>2 DEF HeldMail
        <5> QED
          BY <5>1, MailToCome
      <4>3. CASE DueMail(n, t)'
        <5>1. DueMail(n, t) /\ t[1] # from
          BY <1>1, <4>3 DEF DueMail
        <5> QED
          BY <5>1, MailToCome
      <4> QED
        BY <3>3, <4>1, <4>2, <4>3, MailToCome
    <3> HIDE DEF from, to
    <3>4. Handed(MailsToCome(n), MailsToCome(n)', from, to)
      BY <3>3 DEF Handed
    <3> QED
      BY <3>4, Handing
  <2> QED
    BY <2>4, <2>5
<1> QED
  BY <1>2, <1>3 DEF Retry, Publish, Successor

LEMMA MailsByWorker ==
    ASSUME TypeInv, NEW w \in Worker, WorkerActs(w), NEW n \in NoteId,
           IsFiniteSet(MailsToCome(n))
    PROVE  MailStep(n)
<1>0. /\ WorkerEffect(w) /\ req' = req
      /\ \A v \in Worker \ {w} : wk'[v] = wk[v]
  BY WorkerStepEffect DEF WorkerEffect, WorkerStores
<1>1. ASSUME ~NoteSend(w), NoMore(MailsToCome(n), MailsToCome(n)')
      PROVE  MailStep(n)
  BY <1>0, <1>1 DEF MailStep, NoMore, Mailed, WorkerEffect, WorkerStores
<1>2. CASE TakeNote(w)
  <2>1. ~NoteSend(w)
    BY <1>2 DEF TakeNote, NoteSend
  <2> QED
    BY <1>1, <1>2, <2>1, TakenMail
<1>3. CASE NoteSend(w)
  BY <1>3, SentMail
<1>4. CASE ~TakeNote(w) /\ (WorkerCrash(w) \/ Redeliver(w))
  BY <1>4, LostMail
<1>5. CASE ~TakeNote(w) /\ ~NoteSend(w) /\ Retry(w)
  BY <1>1, <1>5, RetriedMail
<1>6. CASE ~TakeNote(w) /\ ~NoteSend(w) /\ ~Retry(w) /\ ~WorkerCrash(w) /\ ~Redeliver(w)
  <2>1. \A v \in Worker : HoldsJob(v, n, Mailing)' => HoldsJob(v, n, Mailing)
    <3>1. HoldsJob(w, n, Mailing)' => HoldsJob(w, n, Mailing)
      BY <1>6, MailerBefore
    <3> QED
      BY <1>0, <3>1 DEF HoldsJob, JobNote
  <2>2. Undispatched(n)' => Undispatched(n)
    BY <1>0 DEF Undispatched
  <2>3. \A m \in NoteMessage, i \in Nat : Waits(m, i)' => Waits(m, i)
    <3>1. CASE queue' = queue
      BY <3>1 DEF Waits
    <3>2. CASE \E m \in DOMAIN queue : queue' = BagRemove(queue, m)
      BY <3>2, CopyTaken DEF Takes
    <3> QED
      BY <1>6, <3>1, <3>2, WorkerPublished
  <2>4. NoMore(MailsToCome(n), MailsToCome(n)')
    BY <2>1, <2>2, <2>3, NoMailAdded
  <2> QED
    BY <1>1, <1>6, <2>4
<1> QED
  BY <1>2, <1>3, <1>4, <1>5, <1>6

(* Nothing is about a row before the commit that adds it. *)
LEMMA NewRowMails ==
    ASSUME Sofar, MailsCounted, NEW n \in DOMAIN outbox', n \notin DOMAIN outbox
    PROVE  /\ IsFiniteSet(MailsToCome(n)')
           /\ Mailed(n)' + Cardinality(MailsToCome(n)') <= 1
<1>0. TypeInv /\ [Next]_vars /\ NoteJobHasRow
  BY DEF Sofar, RecordInv
<1>1. PICK r \in Request : Acts(r)
  BY <1>0, OutboxRows
<1>2. Effect(r) /\ wk' = wk /\ mails' = mails
  BY <1>0, <1>1, ActsAlone DEF Effect, Stores
<1>3. queue' = queue
  BY <1>2 DEF Effect, Stores, UploadEnqueue, Dispatch, database
<1>4. Mailed(n)' = 0
  BY <1>2 DEF Mailed, MailsCounted
<1> DEFINE t == <<<<"due", n[2], 0>>, 0>>
<1>5. ASSUME NEW s \in MailsToCome(n)' PROVE s = t
  <2>1. ~QueuedMail(n, s)'
    BY <1>0, <1>3 DEF QueuedMail, Waits, NoteJobHasRow
  <2>2. ~HeldMail(n, s)'
    BY <1>0, <1>2 DEF HeldMail, HoldsJob, NoteJobHasRow, JobNote
  <2> QED
    BY <1>5, <2>1, <2>2, MailToCome DEF DueMail
<1>6. MailsToCome(n)' \subseteq {t}
  BY <1>5
<1> HIDE DEF t
<1>7. IsFiniteSet({t}) /\ Cardinality({t}) = 1
  BY FS_Singleton
<1>8. NoMore({t}, MailsToCome(n)')
  BY <1>6, <1>7, Fewer
<1>9. Cardinality(MailsToCome(n)') \in Nat
  BY <1>8, FS_CardinalityType DEF NoMore
<1> QED
  BY <1>4, <1>7, <1>8, <1>9 DEF NoMore

LEMMA MailedRows ==
    ASSUME Sofar, MailsCounted
    PROVE  DOMAIN mails' \subseteq DOMAIN outbox'
<1>0. /\ TypeInv /\ [Next]_vars /\ NoteJobHasRow /\ IsABag(mails)
      /\ DOMAIN mails \subseteq DOMAIN outbox'
  BY RowsStay DEF Sofar, RecordInv, TypeInv, TypeOK, StoresOK, MailsCounted
<1>1. CASE mails' = mails
  BY <1>0, <1>1
<1>2. CASE \E w \in Worker : NoteSend(w)
  <2>1. PICK w \in Worker : NoteSend(w)
    BY <1>2
  <2>2. wk[w].msg \in NoteMessage /\ mails' = BagAdd(mails, JobNote(w))
    BY <1>0, <2>1, WorkerFacts DEF NoteSend, NoteSteps
  <2>3. JobNote(w) \in DOMAIN outbox /\ DOMAIN outbox \subseteq DOMAIN outbox'
    BY <1>0, <2>2, RowsStay DEF NoteJobHasRow, JobNote
  <2>4. DOMAIN mails' = DOMAIN mails \cup {JobNote(w)}
    BY <1>0, <2>2, BagAddType
  <2> QED
    BY <1>0, <2>3, <2>4
<1> QED
  BY <1>0, <1>1, <1>2, StepCases, ActsAlone, WorkerStepEffect
     DEF Effect, Stores, WorkerEffect, WorkerStores, Quiet

LEMMA MailsCountedKept == Sofar /\ RowsOfRuled /\ MailsCounted => MailsCounted'
<1> SUFFICES ASSUME Sofar, RowsOfRuled, MailsCounted, NEW n \in DOMAIN outbox'
             PROVE  /\ IsFiniteSet(MailsToCome(n)')
                    /\ Mailed(n)' + Cardinality(MailsToCome(n)') <= 1 + Lost'
  BY MailedRows DEF MailsCounted
<1>0. /\ TypeInv /\ [Next]_vars
      /\ Lost \in Nat /\ Lost' \in Nat /\ Lost' >= Lost
  BY LostGrows DEF Sofar
<1>1. CASE n \notin DOMAIN outbox
  <2>1. /\ IsFiniteSet(MailsToCome(n)')
        /\ Mailed(n)' + Cardinality(MailsToCome(n)') <= 1
    BY <1>1, NewRowMails
  <2>2. Cardinality(MailsToCome(n)') \in Nat
    BY <2>1, FS_CardinalityType
  <2>3. Mailed(n)' \in Nat
    <3>1. IsABag(mails)'
      BY <1>0, TypeStep DEF TypeInv, TypeOK, StoresOK
    <3> QED
      BY <3>1 DEF IsABag, Mailed
  <2> QED
    BY <1>0, <2>1, <2>2, <2>3
<1>2. CASE n \in DOMAIN outbox
  <2>0. n \in NoteId /\ IsABag(mails)
    BY <1>0, <1>2 DEF TypeInv, TypeOK, TablesOK, StoresOK
  <2>1. /\ IsFiniteSet(MailsToCome(n))
        /\ Mailed(n) + Cardinality(MailsToCome(n)) <= 1 + Lost
    BY <1>2 DEF MailsCounted
  <2>2. MailStep(n)
    <3>1. CASE Quiet
      <4>1. MailsToCome(n)' = MailsToCome(n) /\ Mailed(n)' = Mailed(n)
        BY <3>1 DEF Quiet, MailsToCome, MailsQueued, MailsHeld, MailsDue, QueuedAt, HeldAt,
           DueAt, HoldsJob, JobNote, Mailed
      <4>2. NoMore(MailsToCome(n), MailsToCome(n)')
        BY <2>1, <4>1, Fewer
      <4> QED
        BY <4>1, <4>2 DEF MailStep, NoMore
    <3>2. ASSUME NEW r \in Request, Acts(r) PROVE MailStep(n)
      <4>1. Mailed(n)' = Mailed(n)
        BY <1>0, <3>2, ActsAlone DEF Effect, Stores, Mailed
      <4> QED
        BY <1>0, <1>2, <2>1, <3>2, <4>1, MailsByRequest DEF MailStep, NoMore
    <3>3. ASSUME NEW w \in Worker, WorkerActs(w) PROVE MailStep(n)
      BY <1>0, <2>0, <2>1, <3>3, MailsByWorker
    <3> QED
      BY <1>0, <3>1, <3>2, <3>3, StepCases
  <2>3. Mailed(n) \in Nat
    BY <2>0 DEF IsABag, Mailed
  <2>4. /\ Cardinality(MailsToCome(n)) \in Nat /\ Cardinality(MailsToCome(n)') \in Nat
        /\ IsFiniteSet(MailsToCome(n)')
    BY <2>1, <2>2, FS_CardinalityType DEF MailStep
  <2> QED
    BY <1>0, <2>1, <2>2, <2>3, <2>4 DEF MailStep, NoMore
<1> QED
  BY <1>1, <1>2

---------------------------------------------------------------------------
(* Thumbnail tries.                                                        *)

Carries(w, p) == wk[w].pc \in ThumbSteps /\ JobPhoto(w) = p
Publishes(r, p) ==
    req[r].pc \in {"upload_refresh", "upload_enqueue"} /\ req[r].photo = p

QueuedTry(p, t) ==
    \E m \in ThumbMessage, i \in Nat : \E j \in From(m.retries) :
        Waits(m, i) /\ m.photo = p /\ t = <<<<"queued", m, i>>, j>>
HeldTry(p, t) ==
    \E w \in Worker : Carries(w, p) /\ \E j \in TriesLeft(w) : t = <<<<"held", w, 0>>, j>>
DueTry(p, t) ==
    \E r \in Request : Publishes(r, p) /\ \E j \in From(0) : t = <<<<"due", r, 0>>, j>>

LEMMA TryToCome ==
    ASSUME NEW p, NEW t
    PROVE  /\ t \in TriesToCome(p) <=> QueuedTry(p, t) \/ HeldTry(p, t) \/ DueTry(p, t)
           /\ t \in TriesToCome(p)' <=>
                 QueuedTry(p, t)' \/ HeldTry(p, t)' \/ DueTry(p, t)'
<1>1. /\ t \in TriesQueued(p) <=> QueuedTry(p, t)
      /\ t \in TriesQueued(p)' <=> QueuedTry(p, t)'
  BY DEF TriesQueued, QueuedAt, QueuedTry, Waits
<1>2. /\ t \in TriesHeld(p) <=> HeldTry(p, t)
      /\ t \in TriesHeld(p)' <=> HeldTry(p, t)'
  BY DEF TriesHeld, HeldAt, HeldTry, Carries
<1>3. /\ t \in TriesDue(p) <=> DueTry(p, t)
      /\ t \in TriesDue(p)' <=> DueTry(p, t)'
  BY DEF TriesDue, DueAt, DueTry, Publishes
<1> QED
  BY <1>1, <1>2, <1>3 DEF TriesToCome

(* No more tries to come, when no copy is added that is about the photo.   *)
LEMMA NoTryAdded ==
    ASSUME NEW p, IsFiniteSet(TriesToCome(p)),
           \A m \in ThumbMessage, i \in Nat : Waits(m, i)' /\ m.photo = p => Waits(m, i),
           \A w \in Worker : Carries(w, p)' =>
                                Carries(w, p) /\ TriesLeft(w)' \subseteq TriesLeft(w),
           \A r \in Request : Publishes(r, p)' => Publishes(r, p)
    PROVE  NoMore(TriesToCome(p), TriesToCome(p)')
<1>1. ASSUME NEW t \in TriesToCome(p)' PROVE t \in TriesToCome(p)
  <2>1. CASE QueuedTry(p, t)'
    <3>1. QueuedTry(p, t)
      BY <2>1 DEF QueuedTry
    <3> QED
      BY <3>1, TryToCome
  <2>2. CASE HeldTry(p, t)'
    <3>1. HeldTry(p, t)
      BY <2>2 DEF HeldTry
    <3> QED
      BY <3>1, TryToCome
  <2>3. CASE DueTry(p, t)'
    <3>1. DueTry(p, t)
      BY <2>3 DEF DueTry
    <3> QED
      BY <3>1, TryToCome
  <2> QED
    BY <1>1, <2>1, <2>2, <2>3, TryToCome
<1> QED
  BY <1>1, Fewer

LEMMA TriesByRequest ==
    ASSUME TypeInv, NEW r \in Request, Acts(r), NEW p, IsFiniteSet(TriesToCome(p)),
           UploadCommit(r) => req[r].photo # p
    PROVE  NoMore(TriesToCome(p), TriesToCome(p)')
<1>0. /\ Effect(r) /\ wk' = wk /\ req[r] \in ReqState /\ req \in [Request -> ReqState]
      /\ \A o \in Request \ {r} : req'[o] = req[o]
  BY ActsAlone DEF Effect, Stores
<1>1. \A w \in Worker : /\ Carries(w, p)' <=> Carries(w, p)
                        /\ TriesLeft(w)' = TriesLeft(w)
  BY <1>0 DEF Carries, JobPhoto, TriesLeft
<1>2. \A o \in Request : Publishes(o, p)' => Publishes(o, p)
  <2>1. ASSUME Publishes(r, p)' PROVE Publishes(r, p)
    <3>1. req'[r].photo = p /\ (UploadCommit(r) \/ UploadRefresh(r))
      BY <1>0, <2>1 DEF Publishes, Effect, Arrives
    <3>2. req'[r].photo = req[r].photo
      BY <1>0, <3>1 DEF Effect, Memory, UploadFlush, UploadCommit, UploadRefresh
    <3>3. UploadRefresh(r)
      BY <3>1, <3>2
    <3> QED
      BY <3>1, <3>2, <3>3 DEF UploadRefresh, Publishes
  <2> QED
    BY <1>0, <2>1 DEF Publishes
<1>3. ASSUME \A m \in ThumbMessage, i \in Nat : Waits(m, i)' /\ m.photo = p => Waits(m, i)
      PROVE  NoMore(TriesToCome(p), TriesToCome(p)')
  BY <1>1, <1>2, <1>3, NoTryAdded
<1>4. CASE queue' = queue
  BY <1>3, <1>4 DEF Waits
<1>5. CASE Dispatch(r)
  <2>1. PICK f : queue' = BagAdd(queue, [note |-> <<r, f>>, retries |-> 0])
    BY <1>5 DEF Dispatch, Publish
  <2> DEFINE k == [note |-> <<r, f>>, retries |-> 0]
  <2>2. queue' = BagAdd(queue, k) /\ k \notin ThumbMessage
    BY <2>1 DEF ThumbMessage
  <2> HIDE DEF k
  <2>3. PICK i : Copies(k, i)
    BY <2>2, CopyAdded
  <2> QED
    BY <1>3, <2>2, <2>3 DEF Copies
<1>6. CASE UploadEnqueue(r)
  <2> DEFINE k == [photo |-> req[r].photo, retries |-> 0]
  <2>1. /\ queue' = BagAdd(queue, k) /\ k.photo = req[r].photo /\ k.retries = 0
        /\ req[r].pc = "upload_enqueue" /\ req'[r].pc = "done"
    BY <1>0, <1>6 DEF UploadEnqueue, Publish, Answer, AnswerWith
  <2> HIDE DEF k
  <2>2. PICK i : Copies(k, i)
    BY <2>1, CopyAdded
  <2>3. CASE req[r].photo # p
    BY <1>3, <2>1, <2>2, <2>3 DEF Copies
  <2>4. CASE req[r].photo = p
    <3> DEFINE from == <<"due", r, 0>>
               to   == <<"queued", k, i>>
    <3>1. ASSUME NEW j \in From(0) PROVE <<from, j>> \in TriesToCome(p)
      <4>1. DueTry(p, <<from, j>>)
        BY <2>1, <2>4 DEF DueTry, Publishes
      <4> QED
        BY <4>1, TryToCome
    <3>2. ~Publishes(r, p)'
      BY <2>1 DEF Publishes
    <3>3. ASSUME NEW t \in TriesToCome(p)'
          PROVE  \/ t \in TriesToCome(p) /\ t[1] # from
                 \/ t = <<to, t[2]>> /\ <<from, t[2]>> \in TriesToCome(p)
      <4>1. CASE QueuedTry(p, t)'
        <5>0. PICK m \in ThumbMessage, h \in Nat : \E j \in From(m.retries) :
                 Waits(m, h)' /\ m.photo = p /\ t = <<<<"queued", m, h>>, j>>
          BY <4>1 DEF QueuedTry
        <5>1. PICK j \in From(m.retries) :
                 Waits(m, h)' /\ m.photo = p /\ t = <<<<"queued", m, h>>, j>>
          BY <5>0
        <5>2. CASE Waits(m, h)
          <6>1. QueuedTry(p, t)
            BY <5>1, <5>2 DEF QueuedTry
          <6> QED
            BY <5>1, <6>1, TryToCome
        <5>3. CASE m = k /\ h = i
          BY <2>1, <3>1, <5>1, <5>3
        <5> QED
          BY <2>2, <5>1, <5>2, <5>3 DEF Copies
      <4>2. CASE HeldTry(p, t)'
        <5>1. HeldTry(p, t) /\ t[1] # from
          BY <1>1, <4>2 DEF HeldTry
        <5> QED
          BY <5>1, TryToCome
      <4>3. CASE DueTry(p, t)'
        <5>1. DueTry(p, t) /\ t[1] # from
          BY <1>2, <3>2, <4>3 DEF DueTry
        <5> QED
          BY <5>1, TryToCome
      <4> QED
        BY <3>3, <4>1, <4>2, <4>3, TryToCome
    <3> HIDE DEF from, to
    <3>4. Handed(TriesToCome(p), TriesToCome(p)', from, to)
      BY <3>3 DEF Handed
    <3> QED
      BY <3>4, Handing
  <2> QED
    BY <2>3, <2>4
<1> QED
  BY <1>0, <1>4, <1>5, <1>6 DEF Effect, Stores

(* A job in hand was in hand before the step, with no fewer tries left, or *)
(* its message has just been taken.                                        *)
LEMMA CarrierBefore ==
    ASSUME TypeInv, NEW w \in Worker, WorkerActs(w), ~TakeThumb(w), NEW p,
           Carries(w, p)'
    PROVE  Carries(w, p) /\ ~Retry(w) /\ TriesLeft(w)' \subseteq TriesLeft(w)
<1>0. /\ WorkerMemory(w) /\ WorkerArrives(w)
      /\ wk[w] \in WorkerState /\ wk \in [Worker -> WorkerState]
      /\ wk'[w].pc \in ThumbSteps /\ JobPhoto(w)' = p
  BY WorkerStepEffect, WorkerFacts DEF ActorsOK, WorkerEffect, Carries
<1>1. ~Retry(w)
  BY <1>0 DEF Retry, WGoto, WorkerState, ThumbSteps
<1>2. CASE wk' = wk
  BY <1>0, <1>1, <1>2 DEF Carries, JobPhoto, TriesLeft
<1>3. CASE wk' # wk
  <2>1. wk'[w].pc # "thumb_processing"
    BY <1>0, <1>3 DEF WorkerArrives
  <2>2. wk[w].pc \in ThumbSteps
    BY <1>0, <1>3, <2>1
       DEF WorkerArrives, ThumbSteps, ThumbProcessing, ThumbOpen, ThumbSave, ThumbSaveFails,
           ThumbReady, ThumbFailed, ThumbPending, ThumbPendingInvalidate
  <2>3. wk'[w].msg = wk[w].msg
    <3>1. ~TakeNote(w)
      BY <2>2 DEF TakeNote, ThumbSteps
    <3>2. wk'[w] # IdleWorker
      BY <1>0 DEF IdleWorker, ThumbSteps
    <3> QED
      BY <1>0, <3>1, <3>2 DEF WorkerMemory
  <2>4. wk[w].msg \in ThumbMessage /\ wk[w].msg.retries \in Nat
    BY <2>2, WorkerFacts DEF ThumbMessage
  <2>5. \A n \in Nat : From(n + 1) \subseteq From(n)
    BY ConstantAssumption DEF From
  <2>6. TriesLeft(w)' \subseteq TriesLeft(w)
    BY <2>1, <2>3, <2>4, <2>5 DEF TriesLeft
  <2> QED
    BY <1>0, <1>1, <2>2, <2>3, <2>6 DEF Carries, JobPhoto
<1> QED
  BY <1>2, <1>3

LEMMA TakenTry ==
    ASSUME TypeInv, NEW w \in Worker, WorkerActs(w), TakeThumb(w), NEW p,
           IsFiniteSet(TriesToCome(p))
    PROVE  NoMore(TriesToCome(p), TriesToCome(p)')
<1>0. /\ wk \in [Worker -> WorkerState] /\ req' = req
      /\ \A v \in Worker \ {w} : wk'[v] = wk[v]
  BY WorkerStepEffect, WorkerFacts DEF WorkerEffect, WorkerStores, ActorsOK
<1>1. PICK k \in DOMAIN queue \cap ThumbMessage :
         /\ queue' = BagRemove(queue, k) /\ wk'[w].msg = k
         /\ wk'[w].pc \in {"thumb_processing", "ack"}
  BY <1>0 DEF TakeThumb, IdleWorker
<1>2. PICK i : Takes(k, i)
  BY <1>1, CopyTaken
<1>3. /\ \A v \in Worker \ {w} : /\ Carries(v, p)' <=> Carries(v, p)
                                 /\ TriesLeft(v)' = TriesLeft(v)
      /\ \A r \in Request : Publishes(r, p)' <=> Publishes(r, p)
  BY <1>0 DEF Carries, JobPhoto, TriesLeft, Publishes
<1>4. CASE k.photo # p
  <2>1. ~Carries(w, p)'
    BY <1>1, <1>4 DEF Carries, JobPhoto
  <2> QED
    BY <1>2, <1>3, <2>1, NoTryAdded DEF Takes
<1>5. CASE k.photo = p
  <2> DEFINE from == <<"queued", k, i>>
             to   == <<"held", w, 0>>
  <2>1. i \in Nat
    BY <1>1, <1>2 DEF Takes, Waits, TypeInv, TypeOK, StoresOK, IsABag
  <2>2. ASSUME NEW j \in From(k.retries) PROVE <<from, j>> \in TriesToCome(p)
    <3>1. QueuedTry(p, <<from, j>>)
      BY <1>1, <1>2, <1>5, <2>1 DEF QueuedTry, Takes
    <3> QED
      BY <3>1, TryToCome
  <2>3. Carries(w, p)' => TriesLeft(w)' = From(k.retries)
    BY <1>1 DEF Carries, TriesLeft, ThumbSteps
  <2>4. ASSUME NEW t \in TriesToCome(p)'
        PROVE  \/ t \in TriesToCome(p) /\ t[1] # from
               \/ t = <<to, t[2]>> /\ <<from, t[2]>> \in TriesToCome(p)
    <3>1. CASE QueuedTry(p, t)'
      <4>0. PICK m \in ThumbMessage, h \in Nat : \E j \in From(m.retries) :
               Waits(m, h)' /\ m.photo = p /\ t = <<<<"queued", m, h>>, j>>
        BY <3>1 DEF QueuedTry
      <4>1. PICK j \in From(m.retries) :
               Waits(m, h)' /\ m.photo = p /\ t = <<<<"queued", m, h>>, j>>
        BY <4>0
      <4>2. Waits(m, h) /\ ~(m = k /\ h = i)
        BY <1>2, <4>1 DEF Takes
      <4>3. QueuedTry(p, t)
        BY <4>1, <4>2 DEF QueuedTry
      <4> QED
        BY <4>1, <4>2, <4>3, TryToCome
    <3>2. CASE HeldTry(p, t)'
      <4>0. PICK v \in Worker :
               Carries(v, p)' /\ \E j \in TriesLeft(v)' : t = <<<<"held", v, 0>>, j>>
        BY <3>2 DEF HeldTry
      <4>1. PICK j \in TriesLeft(v)' : Carries(v, p)' /\ t = <<<<"held", v, 0>>, j>>
        BY <4>0
      <4>2. CASE v = w
        BY <2>2, <2>3, <4>1, <4>2
      <4>3. CASE v # w
        <5>1. HeldTry(p, t)
          BY <1>3, <4>1, <4>3 DEF HeldTry
        <5> QED
          BY <4>1, <5>1, TryToCome
      <4> QED
        BY <4>2, <4>3
    <3>3. CASE DueTry(p, t)'
      <4>1. DueTry(p, t) /\ t[1] # from
        BY <1>3, <3>3 DEF DueTry
      <4> QED
        BY <4>1, TryToCome
    <3> QED
      BY <2>4, <3>1, <3>2, <3>3, TryToCome
  <2> HIDE DEF from, to
  <2>5. Handed(TriesToCome(p), TriesToCome(p)', from, to)
    BY <2>4 DEF Handed
  <2> QED
    BY <2>5, Handing
<1> QED
  BY <1>4, <1>5

\* What is to come after a step: no more than before, or as much more as one
\* delivery.
TryStep(p) ==
    /\ IsFiniteSet(TriesToCome(p)')
    /\ \/ NoMore(TriesToCome(p), TriesToCome(p)')
       \/ /\ Cardinality(TriesToCome(p)')
                <= Cardinality(TriesToCome(p)) + ThumbnailMaxRetries + 1
          /\ Lost' = Lost + 1

(* A worker that crashes or is taken for dead puts its message back.       *)
LEMMA LostTry ==
    ASSUME TypeInv, NEW w \in Worker, WorkerActs(w), WorkerCrash(w) \/ Redeliver(w),
           ~TakeThumb(w), NEW p, IsFiniteSet(TriesToCome(p))
    PROVE  TryStep(p)
<1>0. /\ req' = req /\ MessageFits(wk[w]) /\ wk[w].pc # "idle"
      /\ \A v \in Worker \ {w} : wk'[v] = wk[v]
  BY WorkerStepEffect, WorkerFacts
     DEF WorkerEffect, WorkerStores, WorkerCrash, Redeliver
<1>1. PICK k : queue' = BagAdd(queue, k)
  BY DEF WorkerCrash, Redeliver, Publish
<1>2. PICK i : Copies(k, i)
  BY <1>1, CopyAdded
<1>3. /\ \A v \in Worker :
            Carries(v, p)' => Carries(v, p) /\ TriesLeft(v)' \subseteq TriesLeft(v)
      /\ \A r \in Request : Publishes(r, p)' <=> Publishes(r, p)
  <2>1. Carries(w, p)' => Carries(w, p) /\ TriesLeft(w)' \subseteq TriesLeft(w)
    BY CarrierBefore
  <2> QED
    BY <1>0, <2>1 DEF Carries, JobPhoto, TriesLeft, Publishes
<1> DEFINE to == <<"queued", k, i>>
<1>4. ASSUME NEW t \in TriesToCome(p)'
      PROVE  t \in TriesToCome(p) \/ (t = <<to, t[2]>> /\ t[2] \in 0..ThumbnailMaxRetries)
  <2>1. CASE QueuedTry(p, t)'
    <3>0. PICK m \in ThumbMessage, h \in Nat : \E j \in From(m.retries) :
             Waits(m, h)' /\ m.photo = p /\ t = <<<<"queued", m, h>>, j>>
      BY <2>1 DEF QueuedTry
    <3>1. PICK j \in From(m.retries) :
             Waits(m, h)' /\ m.photo = p /\ t = <<<<"queued", m, h>>, j>>
      BY <3>0
    <3>2. CASE Waits(m, h)
      <4>1. QueuedTry(p, t)
        BY <3>1, <3>2 DEF QueuedTry
      <4> QED
        BY <4>1, TryToCome
    <3>3. CASE m = k /\ h = i
      <4>1. j \in 0..ThumbnailMaxRetries
        BY ConstantAssumption DEF From, ThumbMessage
      <4> QED
        BY <3>1, <3>3, <4>1
    <3> QED
      BY <1>2, <3>1, <3>2, <3>3 DEF Copies
  <2>2. CASE HeldTry(p, t)'
    <3>1. HeldTry(p, t)
      BY <1>3, <2>2 DEF HeldTry
    <3> QED
      BY <3>1, TryToCome
  <2>3. CASE DueTry(p, t)'
    <3>1. DueTry(p, t)
      BY <1>3, <2>3 DEF DueTry
    <3> QED
      BY <3>1, TryToCome
  <2> QED
    BY <1>4, <2>1, <2>2, <2>3, TryToCome
<1> HIDE DEF to
<1>5. ThumbnailMaxRetries \in Nat
  BY ConstantAssumption
<1>6. /\ IsFiniteSet(TriesToCome(p)')
      /\ Cardinality(TriesToCome(p)')
            <= Cardinality(TriesToCome(p)) + ThumbnailMaxRetries + 1
  BY <1>4, <1>5, Granting
<1>7. Lost' = Lost + 1
  BY LostCounts
<1> QED
  BY <1>6, <1>7 DEF TryStep

(* A retry publishes the successor of the message held, with the tries     *)
(* that are left.                                                          *)
LEMMA RetriedTry ==
    ASSUME TypeInv, NEW w \in Worker, WorkerActs(w), Retry(w), ~TakeThumb(w),
           NEW p, IsFiniteSet(TriesToCome(p))
    PROVE  NoMore(TriesToCome(p), TriesToCome(p)')
<1>0. /\ req' = req /\ MessageFits(wk[w]) /\ wk[w].pc \in {"thumb_retry", "note_retry"}
      /\ \A v \in Worker \ {w} : wk'[v] = wk[v]
  BY WorkerStepEffect, WorkerFacts DEF WorkerEffect, WorkerStores, Retry
<1>1. /\ \A v \in Worker \ {w} : /\ Carries(v, p)' <=> Carries(v, p)
                                 /\ TriesLeft(v)' = TriesLeft(v)
      /\ ~Carries(w, p)'
      /\ \A r \in Request : Publishes(r, p)' <=> Publishes(r, p)
  BY <1>0, CarrierBefore DEF Carries, JobPhoto, TriesLeft, Publishes
<1>2. CASE queue' = queue
  BY <1>1, <1>2, NoTryAdded DEF Waits
<1>3. CASE queue' = BagAdd(queue, Successor(wk[w].msg))
  <2>1. PICK k : k = Successor(wk[w].msg)
    OBVIOUS
  <2>2. PICK i : Copies(k, i)
    BY <1>3, <2>1, CopyAdded
  <2>3. ASSUME k \in ThumbMessage, k.photo = p
        PROVE  Carries(w, p) /\ TriesLeft(w) = From(k.retries)
    <3>1. wk[w].msg \in Message
      BY <1>0 DEF MessageFits
    <3>2. wk[w].msg \in ThumbMessage /\ wk[w].msg.photo = p /\ wk[w].msg \notin NoteMessage
      BY <2>1, <2>3, <3>1, SameJob
    <3>3. wk[w].pc = "thumb_retry"
      BY <1>0, <3>2 DEF MessageFits, NoteSteps
    <3>4. k.retries = wk[w].msg.retries + 1
      BY <2>1, <3>2 DEF Successor, ThumbMessage
    <3> QED
      BY <3>2, <3>3, <3>4 DEF Carries, JobPhoto, ThumbSteps, TriesLeft
  <2>4. CASE ~(k \in ThumbMessage /\ k.photo = p)
    BY <1>1, <2>2, <2>4, NoTryAdded DEF Copies
  <2>5. CASE k \in ThumbMessage /\ k.photo = p
    <3> DEFINE from == <<"held", w, 0>>
               to   == <<"queued", k, i>>
    <3>1. ASSUME NEW j \in From(k.retries) PROVE <<from, j>> \in TriesToCome(p)
      <4>1. HeldTry(p, <<from, j>>)
        BY <2>3, <2>5 DEF HeldTry
      <4> QED
        BY <4>1, TryToCome
    <3>2. ASSUME NEW t \in TriesToCome(p)'
          PROVE  \/ t \in TriesToCome(p) /\ t[1] # from
                 \/ t = <<to, t[2]>> /\ <<from, t[2]>> \in TriesToCome(p)
      <4>1. CASE QueuedTry(p, t)'
        <5>0. PICK m \in ThumbMessage, h \in Nat : \E j \in From(m.retries) :
                 Waits(m, h)' /\ m.photo = p /\ t = <<<<"queued", m, h>>, j>>
          BY <4>1 DEF QueuedTry
        <5>1. PICK j \in From(m.retries) :
                 Waits(m, h)' /\ m.photo = p /\ t = <<<<"queued", m, h>>, j>>
          BY <5>0
        <5>2. CASE Waits(m, h)
          <6>1. QueuedTry(p, t)
            BY <5>1, <5>2 DEF QueuedTry
          <6> QED
            BY <5>1, <6>1, TryToCome
        <5>3. CASE m = k /\ h = i
          BY <3>1, <5>1, <5>3
        <5> QED
          BY <2>2, <5>1, <5>2, <5>3 DEF Copies
      <4>2. CASE HeldTry(p, t)'
        <5>1. HeldTry(p, t) /\ t[1] # from
          BY <1>1, <4>2 DEF HeldTry
        <5> QED
          BY <5>1, TryToCome
      <4>3. CASE DueTry(p, t)'
        <5>1. DueTry(p, t) /\ t[1] # from
          BY <1>1, <4>3 DEF DueTry
        <5> QED
          BY <5>1, TryToCome
      <4> QED
        BY <3>2, <4>1, <4>2, <4>3, TryToCome
    <3> HIDE DEF from, to
    <3>3. Handed(TriesToCome(p), TriesToCome(p)', from, to)
      BY <3>2 DEF Handed
    <3> QED
      BY <3>3, Handing
  <2> QED
    BY <2>4, <2>5
<1> QED
  BY <1>2, <1>3 DEF Retry, Publish, Successor

LEMMA TriesByWorker ==
    ASSUME TypeInv, NEW w \in Worker, WorkerActs(w), NEW p, IsFiniteSet(TriesToCome(p))
    PROVE  TryStep(p)
<1>0. req' = req /\ \A v \in Worker \ {w} : wk'[v] = wk[v]
  BY WorkerStepEffect DEF WorkerEffect, WorkerStores
<1>1. ASSUME NoMore(TriesToCome(p), TriesToCome(p)')
      PROVE  TryStep(p)
  BY <1>1 DEF TryStep, NoMore
<1>2. CASE TakeThumb(w)
  BY <1>1, <1>2, TakenTry
<1>3. CASE ~TakeThumb(w) /\ (WorkerCrash(w) \/ Redeliver(w))
  BY <1>3, LostTry
<1>4. CASE ~TakeThumb(w) /\ Retry(w)
  BY <1>1, <1>4, RetriedTry
<1>5. CASE ~TakeThumb(w) /\ ~Retry(w) /\ ~WorkerCrash(w) /\ ~Redeliver(w)
  <2>1. \A v \in Worker :
           Carries(v, p)' => Carries(v, p) /\ TriesLeft(v)' \subseteq TriesLeft(v)
    <3>1. Carries(w, p)' => Carries(w, p) /\ TriesLeft(w)' \subseteq TriesLeft(w)
      BY <1>5, CarrierBefore
    <3> QED
      BY <1>0, <3>1 DEF Carries, JobPhoto, TriesLeft
  <2>2. \A r \in Request : Publishes(r, p)' => Publishes(r, p)
    BY <1>0 DEF Publishes
  <2>3. \A m \in ThumbMessage, i \in Nat : Waits(m, i)' => Waits(m, i)
    <3>1. CASE queue' = queue
      BY <3>1 DEF Waits
    <3>2. CASE \E m \in DOMAIN queue : queue' = BagRemove(queue, m)
      BY <3>2, CopyTaken DEF Takes
    <3> QED
      BY <1>5, <3>1, <3>2, WorkerPublished
  <2>4. NoMore(TriesToCome(p), TriesToCome(p)')
    BY <2>1, <2>2, <2>3, NoTryAdded
  <2> QED
    BY <1>1, <2>4
<1> QED
  BY <1>2, <1>3, <1>4, <1>5

(* The UPDATE that counts an attempt spends the try.                       *)
LEMMA TrySpent ==
    ASSUME TypeInv, NEW w \in Worker, WorkerActs(w), ThumbProcessing(w),
           NEW p, JobPhoto(w) = p, IsFiniteSet(TriesToCome(p))
    PROVE  /\ IsFiniteSet(TriesToCome(p)')
           /\ Cardinality(TriesToCome(p)') + 1 <= Cardinality(TriesToCome(p))
<1>0. /\ req' = req /\ queue' = queue
      /\ \A v \in Worker \ {w} : wk'[v] = wk[v]
      /\ wk[w].pc = "thumb_processing" /\ wk[w].msg \in ThumbMessage
      /\ wk'[w].pc \in {"thumb_open", "ack"} /\ wk'[w].msg = wk[w].msg
  <2>1. wk \in [Worker -> WorkerState] /\ wk[w] \in WorkerState
    BY WorkerFacts DEF ActorsOK
  <2>2. wk[w].pc = "thumb_processing" /\ wk[w].msg \in ThumbMessage
    BY WorkerFacts DEF ThumbProcessing, ThumbSteps
  <2>3. WGoto(w, "thumb_open") \/ WGoto(w, "ack")
    BY DEF ThumbProcessing, UpdateThumb
  <2>4. queue' = queue
    BY DEF ThumbProcessing, UpdateThumb
  <2>5. req' = req /\ \A v \in Worker \ {w} : wk'[v] = wk[v]
    BY WorkerStepEffect DEF WorkerEffect, WorkerStores
  <2> QED
    BY <2>1, <2>2, <2>3, <2>4, <2>5 DEF WGoto, WorkerState
<1>1. wk[w].msg.retries \in Nat /\ wk[w].msg.retries <= ThumbnailMaxRetries
  BY <1>0, ConstantAssumption DEF ThumbMessage
<1>2. /\ \A v \in Worker \ {w} : /\ Carries(v, p)' <=> Carries(v, p)
                                 /\ TriesLeft(v)' = TriesLeft(v)
      /\ \A r \in Request : Publishes(r, p)' <=> Publishes(r, p)
      /\ \A m, i : Waits(m, i)' <=> Waits(m, i)
  BY <1>0 DEF Carries, JobPhoto, TriesLeft, Publishes, Waits
<1>3. /\ Carries(w, p) /\ TriesLeft(w) = From(wk[w].msg.retries)
      /\ TriesLeft(w)' = From(wk[w].msg.retries + 1)
  BY <1>0 DEF Carries, TriesLeft, ThumbSteps
<1>4. /\ wk[w].msg.retries \in TriesLeft(w)
      /\ TriesLeft(w)' \subseteq TriesLeft(w) \ {wk[w].msg.retries}
  <2>1. \A n \in Nat : n <= ThumbnailMaxRetries =>
           n \in From(n) /\ From(n + 1) \subseteq From(n) \ {n}
    BY ConstantAssumption DEF From
  <2> QED
    BY <1>1, <1>3, <2>1
<1> DEFINE t == <<<<"held", w, 0>>, wk[w].msg.retries>>
<1>5. t \in TriesToCome(p)
  <2>1. HeldTry(p, t)
    BY <1>3, <1>4 DEF HeldTry
  <2> QED
    BY <2>1, TryToCome
<1>6. ASSUME NEW s \in TriesToCome(p)' PROVE s \in TriesToCome(p) /\ s # t
  <2>1. CASE QueuedTry(p, s)'
    <3>1. QueuedTry(p, s) /\ s # t
      BY <1>2, <2>1 DEF QueuedTry
    <3> QED
      BY <3>1, TryToCome
  <2>2. CASE HeldTry(p, s)'
    <3>1. HeldTry(p, s) /\ s # t
      BY <1>2, <1>3, <1>4, <2>2 DEF HeldTry
    <3> QED
      BY <3>1, TryToCome
  <2>3. CASE DueTry(p, s)'
    <3>1. DueTry(p, s) /\ s # t
      BY <1>2, <2>3 DEF DueTry
    <3> QED
      BY <3>1, TryToCome
  <2> QED
    BY <1>6, <2>1, <2>2, <2>3, TryToCome
<1>7. TriesToCome(p)' \subseteq TriesToCome(p) \ {t}
  BY <1>6
<1> HIDE DEF t
<1> QED
  BY <1>5, <1>7, Spending

---------------------------------------------------------------------------
(* The attempts of a photo against the tries to come.                      *)

(* A crash or a redelivery grants the tries of one delivery.               *)
LEMMA BudgetGrows ==
    ASSUME Lost \in Nat, Lost' \in Nat, Lost' >= Lost
    PROVE  /\ Budget \in Nat /\ Budget' \in Nat /\ Budget' >= Budget
           /\ Lost' = Lost + 1 => Budget' = Budget + ThumbnailMaxRetries + 1
<1>1. PICK k \in Nat : k = ThumbnailMaxRetries
  BY ConstantAssumption
<1>2. \A m \in Nat, n \in Nat :
         /\ (k + 1) * (1 + m) \in Nat
         /\ n = m + 1 => (k + 1) * (1 + n) = (k + 1) * (1 + m) + k + 1
  OBVIOUS
<1>3. \A m \in Nat, n \in Nat : n >= m => (k + 1) * (1 + n) >= (k + 1) * (1 + m)
  <2>1. \A a \in Nat, m \in Nat, d \in Nat : a * (m + d) = a * m + a * d /\ a * d \in Nat
                                              /\ a * m \in Nat
    OBVIOUS
  <2>2. ASSUME NEW m \in Nat, NEW n \in Nat, n >= m
        PROVE  (k + 1) * (1 + n) >= (k + 1) * (1 + m)
    <3>1. PICK d \in Nat : 1 + n = (1 + m) + d
      <4>1. n - m \in Nat /\ 1 + n = (1 + m) + (n - m)
        BY <2>2
      <4> QED
        BY <4>1
    <3>2. k + 1 \in Nat /\ 1 + m \in Nat
      OBVIOUS
    <3> QED
      BY <2>1, <3>1, <3>2
  <2> QED
    BY <2>2
<1> QED
  BY <1>1, <1>2, <1>3 DEF Budget

LEMMA TriesMove ==
    ASSUME Sofar, NEW p, Given(p), IsFiniteSet(TriesToCome(p))
    PROVE  TryStep(p)
<1>0. TypeInv /\ [Next]_vars
  BY DEF Sofar
<1>1. ASSUME NoMore(TriesToCome(p), TriesToCome(p)')
      PROVE  TryStep(p)
  BY <1>1 DEF TryStep, NoMore
<1>2. CASE Quiet
  <2>1. TriesToCome(p)' = TriesToCome(p)
    BY <1>2 DEF Quiet, TriesToCome, TriesQueued, TriesHeld, TriesDue, QueuedAt, HeldAt, DueAt,
       TriesLeft, JobPhoto
  <2> QED
    BY <1>1, <2>1, Fewer
<1>3. ASSUME NEW r \in Request, Acts(r) PROVE TryStep(p)
  <2>1. UploadCommit(r) => req[r].photo # p
    BY DEF UploadCommit, Given, FreshSteps
  <2> QED
    BY <1>0, <1>1, <1>3, <2>1, TriesByRequest
<1>4. ASSUME NEW w \in Worker, WorkerActs(w) PROVE TryStep(p)
  BY <1>0, <1>4, TriesByWorker
<1> QED
  BY <1>0, <1>2, <1>3, <1>4, StepCases

\* a is a number of attempts that fits before the step.
LEMMA FitKept ==
    ASSUME Sofar, NEW p, Given(p), NEW a \in Nat, IsFiniteSet(TriesToCome(p)),
           a + Cardinality(TriesToCome(p)) <= Budget
    PROVE  /\ IsFiniteSet(TriesToCome(p)')
           /\ a + Cardinality(TriesToCome(p)') <= Budget'
<1>1. TryStep(p)
  BY TriesMove
<1>2. /\ Cardinality(TriesToCome(p)) \in Nat /\ Cardinality(TriesToCome(p)') \in Nat
      /\ IsFiniteSet(TriesToCome(p)')
  BY <1>1, FS_CardinalityType DEF TryStep
<1>3. Lost \in Nat /\ Lost' \in Nat /\ Lost' >= Lost
  BY LostGrows DEF Sofar
<1>4. /\ Budget \in Nat /\ Budget' \in Nat /\ Budget' >= Budget
      /\ Lost' = Lost + 1 => Budget' = Budget + ThumbnailMaxRetries + 1
  BY <1>3, BudgetGrows
<1>5. CASE NoMore(TriesToCome(p), TriesToCome(p)')
  BY <1>2, <1>4, <1>5 DEF NoMore
<1>6. CASE /\ Cardinality(TriesToCome(p)')
                <= Cardinality(TriesToCome(p)) + ThumbnailMaxRetries + 1
           /\ Lost' = Lost + 1
  BY <1>2, <1>4, <1>6, ConstantAssumption
<1> QED
  BY <1>1, <1>5, <1>6 DEF TryStep

(* The attempts of a photo are written by the task that has counted one    *)
(* more, and by nobody else.                                               *)
LEMMA AttemptsWritten ==
    ASSUME Sofar, NEW p, p \in DOMAIN photos, p \in DOMAIN photos'
    PROVE  \/ photos'[p].attempts = photos[p].attempts
           \/ \E w \in Worker : /\ WorkerActs(w) /\ ThumbProcessing(w) /\ JobPhoto(w) = p
                                /\ photos'[p].attempts = wk[w].attempts + 1
<1>0. TypeInv /\ LockInv /\ [Next]_vars /\ photos[p] \in Photo /\ Given(p)
  BY VisibleGiven DEF Sofar, TypeInv, TypeOK, TablesOK
<1>1. ASSUME NEW r \in Request, p = req[r].photo, UploadCommit(r) \/ PatchCommit(r)
      PROVE  photos'[p].attempts = photos[p].attempts
  <2>1. ~UploadCommit(r)
    BY <1>0, <1>1 DEF UploadCommit, Given, FreshSteps
  <2> QED
    BY <1>0, <1>1, <2>1 DEF PatchCommit, Photo
<1>2. ASSUME NEW w \in Worker, JobPhoto(w) = p,
             ThumbReady(w) \/ ThumbFailed(w) \/ ThumbPending(w)
      PROVE  photos'[p].attempts = photos[p].attempts
  BY <1>0, <1>2 DEF ThumbReady, ThumbFailed, ThumbPending, UpdateStatus, UpdateThumb, Photo
<1>3. ASSUME NEW w \in Worker, JobPhoto(w) = p, ThumbProcessing(w)
      PROVE  photos'[p].attempts = wk[w].attempts + 1
  BY <1>0, <1>3 DEF ThumbProcessing, UpdateThumb, Photo
<1> QED
  BY <1>0, <1>1, <1>2, <1>3, RowChange

LEMMA NoneToCome ==
    IsFiniteSet({}) /\ Cardinality({}) = 0
  BY FS_EmptySet

(* A new photo has only the job its upload is going to publish.            *)
LEMMA NewPhotoTries ==
    ASSUME Sofar, NEW r \in Request, Acts(r), UploadCommit(r), NEW p, p = req[r].photo
    PROVE  /\ photos'[p].attempts = 0
           /\ IsFiniteSet(TriesToCome(p)')
           /\ Cardinality(TriesToCome(p)') <= ThumbnailMaxRetries + 1
<1>0. TypeInv /\ LockInv /\ JobsGiven /\ ThumbnailMaxRetries \in Nat
  BY ConstantAssumption DEF Sofar, BlobInv
<1>1. /\ wk' = wk /\ queue' = queue /\ req[r].pc = "upload_commit"
      /\ \A o \in Request \ {r} : req'[o] = req[o]
  BY <1>0, ActsAlone DEF UploadCommit, Effect, Stores
<1>2. photos'[p].attempts = 0
  BY DEF UploadCommit, Put
<1>3. ~Given(p)
  BY <1>1 DEF Given, FreshSteps
<1> DEFINE to == <<"due", r, 0>>
<1>4. ASSUME NEW t \in TriesToCome(p)'
      PROVE  t \in {} \/ (t = <<to, t[2]>> /\ t[2] \in 0..ThumbnailMaxRetries)
  <2>1. ~QueuedTry(p, t)'
    BY <1>0, <1>1, <1>3 DEF QueuedTry, Waits, JobsGiven
  <2>2. ~HeldTry(p, t)'
    <3>1. \A w \in Worker : ~Carries(w, p)
      BY <1>0, <1>3, WorkerFacts DEF Carries, JobsGiven
    <3> QED
      BY <1>1, <3>1 DEF HeldTry, Carries, JobPhoto
  <2>3. ASSUME NEW o \in Request, Publishes(o, p)' PROVE o = r
    <3>1. SUFFICES ASSUME o # r PROVE FALSE
      OBVIOUS
    <3>2. req[o].photo = p /\ req[o].pc \in {"upload_refresh", "upload_enqueue"}
      BY <1>1, <2>3, <3>1 DEF Publishes
    <3>3. Apart(req[r], req[o])
      BY <1>0, <3>1 DEF LockInv
    <3> QED
      BY <1>1, <3>2, <3>3 DEF Apart, FreshSteps, Unbound
  <2>4. PICK o \in Request : Publishes(o, p)' /\ \E j \in From(0) : t = <<<<"due", o, 0>>, j>>
    BY <1>4, <2>1, <2>2, TryToCome DEF DueTry
  <2>5. PICK j \in From(0) : t = <<<<"due", o, 0>>, j>>
    BY <2>4
  <2> QED
    BY <2>3, <2>4, <2>5 DEF From
<1> HIDE DEF to
<1>5. /\ IsFiniteSet(TriesToCome(p)')
      /\ Cardinality(TriesToCome(p)') <= Cardinality({}) + ThumbnailMaxRetries + 1
  BY <1>0, <1>4, NoneToCome, Granting
<1> QED
  BY <1>0, <1>2, <1>5, NoneToCome

LEMMA TriesBudgetedKept == Sofar /\ TriesBudgeted => TriesBudgeted'
<1> SUFFICES ASSUME Sofar, TriesBudgeted PROVE TriesBudgeted'
  OBVIOUS
<1>0. /\ TypeInv /\ LockInv /\ JobsGiven /\ [Next]_vars
      /\ Lost \in Nat /\ Lost' \in Nat /\ Lost' >= Lost
  BY LostGrows DEF Sofar, BlobInv
<1>1. /\ Budget \in Nat /\ Budget' \in Nat /\ Budget' >= Budget
      /\ Budget' >= ThumbnailMaxRetries + 1
  <2>1. \A k \in Nat, n \in Nat : (k + 1) * (1 + n) >= k + 1
    OBVIOUS
  <2> QED
    BY <1>0, <2>1, BudgetGrows, ConstantAssumption DEF Budget
<1>2. ASSUME NEW p \in DOMAIN photos
      PROVE  Given(p) /\ photos[p].attempts \in Nat /\ TriesFit(p, photos[p].attempts)
  BY <1>0, <1>2, VisibleGiven DEF TriesBudgeted, TypeInv, TypeOK, TablesOK, Photo
<1>3. ASSUME NEW w \in Worker, wk[w].pc = "thumb_processing"
      PROVE  /\ Given(JobPhoto(w)) /\ wk[w].attempts \in Nat
             /\ TriesFit(JobPhoto(w), wk[w].attempts)
  BY <1>0, <1>3, WorkerFacts DEF TriesBudgeted, JobsGiven, ThumbSteps, WorkerState
<1>4. ASSUME NEW p \in DOMAIN photos'
      PROVE  /\ IsFiniteSet(TriesToCome(p)')
             /\ photos'[p].attempts + Cardinality(TriesToCome(p)') <= Budget'
  <2>1. CASE \E r \in Request : Acts(r) /\ UploadCommit(r) /\ p = req[r].photo
    <3>1. /\ photos'[p].attempts = 0 /\ IsFiniteSet(TriesToCome(p)')
          /\ Cardinality(TriesToCome(p)') <= ThumbnailMaxRetries + 1
      BY <2>1, NewPhotoTries
    <3>2. Cardinality(TriesToCome(p)') \in Nat
      BY <3>1, FS_CardinalityType
    <3> QED
      BY <1>1, <3>1, <3>2, ConstantAssumption
  <2>2. CASE p \in DOMAIN photos /\ photos'[p].attempts = photos[p].attempts
    <3>1. PICK a \in Nat : a = photos[p].attempts
      BY <1>2, <2>2
    <3> QED
      BY <1>2, <2>2, <3>1, FitKept DEF TriesFit
  <2>3. ASSUME p \in DOMAIN photos,
               NEW w \in Worker, WorkerActs(w), ThumbProcessing(w), JobPhoto(w) = p,
               photos'[p].attempts = wk[w].attempts + 1
        PROVE  /\ IsFiniteSet(TriesToCome(p)')
               /\ photos'[p].attempts + Cardinality(TriesToCome(p)') <= Budget'
    <3>1. wk[w].attempts \in Nat /\ TriesFit(p, wk[w].attempts)
      BY <1>3, <2>3 DEF ThumbProcessing
    <3>2. /\ IsFiniteSet(TriesToCome(p)) /\ IsFiniteSet(TriesToCome(p)')
          /\ Cardinality(TriesToCome(p)') + 1 <= Cardinality(TriesToCome(p))
          /\ wk[w].attempts + Cardinality(TriesToCome(p)) <= Budget
      BY <1>0, <2>3, <3>1, TrySpent DEF TriesFit
    <3>3. Cardinality(TriesToCome(p)) \in Nat /\ Cardinality(TriesToCome(p)') \in Nat
      BY <3>2, FS_CardinalityType
    <3> QED
      BY <1>1, <2>3, <3>1, <3>2, <3>3
  <2> QED
    BY <1>0, <1>4, <2>1, <2>2, <2>3, NewRow, AttemptsWritten
<1>5. ASSUME NEW w \in Worker, wk'[w].pc = "thumb_processing"
      PROVE  TriesFit(JobPhoto(w), wk[w].attempts)'
  <2>1. \/ wk'[w] = wk[w]
        \/ /\ wk'[w].msg.photo \in DOMAIN photos
           /\ wk'[w].attempts = photos[wk'[w].msg.photo].attempts
    <3>1. CASE WorkerActs(w)
      <4>1. WorkerArrives(w) /\ wk \in [Worker -> WorkerState]
        BY <1>0, <3>1, WorkerStepEffect, WorkerFacts DEF WorkerEffect, ActorsOK
      <4>2. CASE TakeThumb(w)
        BY <1>5, <4>1, <4>2 DEF TakeThumb, IdleWorker
      <4> QED
        BY <1>5, <4>1, <4>2 DEF WorkerArrives
    <3>2. CASE ~WorkerActs(w)
      BY <1>0, <3>2, WorkerHoldsStill
    <3> QED
      BY <3>1, <3>2
  <2>2. PICK p, a : p = wk'[w].msg.photo /\ a = wk'[w].attempts
    OBVIOUS
  <2>3. Given(p) /\ a \in Nat /\ TriesFit(p, a)
    BY <1>2, <1>3, <1>5, <2>1, <2>2 DEF JobPhoto
  <2>4. /\ IsFiniteSet(TriesToCome(p)')
        /\ a + Cardinality(TriesToCome(p)') <= Budget'
    BY <2>3, FitKept DEF TriesFit
  <2>5. TriesFit(p, a)'
    BY <2>4 DEF TriesFit
  <2>6. JobPhoto(w)' = p /\ wk[w].attempts' = a
    BY <2>2 DEF JobPhoto
  <2> QED
    BY <2>5, <2>6
<1>6. ASSUME NEW p \in DOMAIN photos'
      PROVE  TriesFit(p, photos[p].attempts)'
  BY <1>4 DEF TriesFit
<1> QED
  BY <1>5, <1>6 DEF TriesBudgeted

LEMMA BudgetStep ==
    TypeInv /\ LockInv /\ RecordInv /\ BlobInv /\ JobInv /\ BudgetInv /\ [Next]_vars => BudgetInv'
  BY MailsCountedKept, TriesBudgetedKept DEF Sofar, JobInv, BudgetInv

LEMMA BudgetInit == Init => BudgetInv
<1> SUFFICES ASSUME Init PROVE BudgetInv
  OBVIOUS
<1>0. /\ \A r \in Request : req[r].pc \in {"upload", "get", "decide", "load_photo"}
      /\ \A w \in Worker : wk[w].pc = "idle"
      /\ DOMAIN outbox = {} /\ ThumbnailMaxRetries \in Nat
  BY ConstantAssumption DEF Init, Fresh, FirstStep, IdleWorker
<1>1. Lost = 0
  BY DEF Init, Lost, Fault
<1>2. MailsCounted
  <2>1. DOMAIN mails = {}
    BY DEF Init, EmptyBag, SetToBag
  <2> QED
    BY <1>0, <2>1 DEF MailsCounted
<1>3. Budget = ThumbnailMaxRetries + 1
  BY <1>0, <1>1 DEF Budget
<1>4. ASSUME NEW p \in DOMAIN photos
      PROVE  TriesFit(p, photos[p].attempts)
  <2>0. p \in 1..Len(Seeds) /\ photos[p] = Seeds[p].row /\ photos[p].attempts \in Nat
    BY TypeInit DEF Init, TypeInv, TypeOK, TablesOK, Photo
  <2> DEFINE k  == [photo |-> p, retries |-> 0]
             to == <<"queued", k, 1>>
  <2>1. ASSUME NEW m \in DOMAIN queue, m.photo = p
        PROVE  m = k /\ queue[m] = 1 /\ Seeds[p].row.status = "pending"
    BY <2>1 DEF Init
  <2>2. ASSUME NEW t \in TriesToCome(p)
        PROVE  /\ Seeds[p].row.status = "pending"
               /\ t = <<to, t[2]>> /\ t[2] \in 0..ThumbnailMaxRetries
    <3>1. ~HeldTry(p, t) /\ ~DueTry(p, t)
      BY <1>0 DEF HeldTry, Carries, ThumbSteps, DueTry, Publishes
    <3>2. QueuedTry(p, t)
      BY <2>2, <3>1, TryToCome
    <3>3. PICK m \in ThumbMessage, h \in Nat : \E j \in From(m.retries) :
             Waits(m, h) /\ m.photo = p /\ t = <<<<"queued", m, h>>, j>>
      BY <3>2 DEF QueuedTry
    <3>4. PICK j \in From(m.retries) :
             Waits(m, h) /\ m.photo = p /\ t = <<<<"queued", m, h>>, j>>
      BY <3>3
    <3>5. m = k /\ h \in 1..1 /\ Seeds[p].row.status = "pending"
      BY <2>1, <3>4 DEF Waits
    <3>6. j \in 0..ThumbnailMaxRetries /\ h = 1
      BY <3>5 DEF From
    <3> QED
      BY <3>4, <3>5, <3>6
  <2> HIDE DEF to, k
  <2>3. CASE Seeds[p].row.status = "pending"
    <3>1. photos[p].attempts = 0
      BY <2>0, <2>3, SeedAssumption
    <3>2. /\ IsFiniteSet(TriesToCome(p))
          /\ Cardinality(TriesToCome(p)) <= Cardinality({}) + ThumbnailMaxRetries + 1
      BY <1>0, <2>2, NoneToCome, Granting
    <3>3. Cardinality(TriesToCome(p)) \in Nat
      BY <3>2, FS_CardinalityType
    <3> QED
      BY <1>0, <1>3, <3>1, <3>2, <3>3, NoneToCome DEF TriesFit
  <2>4. CASE Seeds[p].row.status # "pending"
    <3>1. TriesToCome(p) = {}
      BY <2>2, <2>4
    <3>2. photos[p].attempts <= ThumbnailMaxRetries + 1
      BY <2>0, <2>4, SeedAssumption
    <3> QED
      BY <1>0, <1>3, <2>0, <3>1, <3>2, NoneToCome DEF TriesFit
  <2> QED
    BY <2>3, <2>4
<1> QED
  BY <1>0, <1>2, <1>4 DEF TriesBudgeted, BudgetInv

(* Mails sent and tries made, with those to come, are no more than the     *)
(* deliveries there have been account for.                                 *)
THEOREM BudgetInvCorrect == Spec => []BudgetInv
  BY TypeInvCorrect, LockInvCorrect, RecordInvCorrect, BlobInvCorrect, JobInvCorrect,
     BudgetInit, BudgetStep, PTL DEF Spec

(* A notification is mailed once, and once more for every worker crash and *)
(* every redelivery: no retry mails what has been mailed.                  *)
THEOREM MailsBounded == Spec => []MailedWithinDeliveries
<1>1. TypeInv /\ Lost \in Nat /\ BudgetInv => MailedWithinDeliveries
  <2>1. SUFFICES ASSUME TypeInv, Lost \in Nat, BudgetInv, NEW n \in DOMAIN mails
                 PROVE  mails[n] <= 1 + Lost
    BY DEF MailedWithinDeliveries
  <2>2. /\ IsFiniteSet(MailsToCome(n))
        /\ mails[n] + Cardinality(MailsToCome(n)) <= 1 + Lost
    BY <2>1 DEF BudgetInv, MailsCounted, Mailed
  <2>3. Cardinality(MailsToCome(n)) \in Nat
    BY <2>2, FS_CardinalityType
  <2>4. mails[n] \in Nat
    BY <2>1 DEF TypeInv, TypeOK, StoresOK, IsABag
  <2> QED
    BY <2>1, <2>2, <2>3, <2>4
<1>2. TypeInv => Lost \in Nat
  BY DEF TypeInv, TypeOK, StoresOK, Lost, Fault
<1> QED
  BY <1>1, <1>2, TypeInvCorrect, BudgetInvCorrect, PTL

(* A thumbnail is attempted no more often than its retries and the         *)
(* deliveries of its message allow, whatever tasks run on it at once.      *)
THEOREM AttemptsBounded == Spec => []AttemptsWithinBudget
<1>1. TypeInv /\ Lost \in Nat /\ BudgetInv => AttemptsWithinBudget
  <2>1. SUFFICES ASSUME TypeInv, Lost \in Nat, BudgetInv, NEW p \in DOMAIN photos
                 PROVE  photos[p].attempts <= Budget
    BY DEF AttemptsWithinBudget, Budget
  <2>2. /\ IsFiniteSet(TriesToCome(p))
        /\ photos[p].attempts + Cardinality(TriesToCome(p)) <= Budget
    BY <2>1 DEF BudgetInv, TriesBudgeted, TriesFit
  <2>3. Cardinality(TriesToCome(p)) \in Nat
    BY <2>2, FS_CardinalityType
  <2>4. photos[p].attempts \in Nat
    BY <2>1 DEF TypeInv, TypeOK, TablesOK, Photo
  <2>5. Budget \in Nat
    <3>1. \A k \in Nat, n \in Nat : (k + 1) * (1 + n) \in Nat
      OBVIOUS
    <3> QED
      BY <2>1, <3>1, ConstantAssumption DEF Budget
  <2> QED
    BY <2>2, <2>3, <2>4, <2>5
<1>2. TypeInv => Lost \in Nat
  BY DEF TypeInv, TypeOK, StoresOK, Lost, Fault
<1> QED
  BY <1>1, <1>2, TypeInvCorrect, BudgetInvCorrect, PTL
=============================================================================
