----------------------------- MODULE Refinement -----------------------------
(***************************************************************************)
(* The interleaved requests implement the Ledger: whatever statements,     *)
(* locks, crashes and rollbacks an operation is made of, the tables move   *)
(* only by whole operations.                                               *)
(***************************************************************************)
EXTENDS Properties

(* Ids an upload that may still commit has taken from the sequence. *)
UploadIds == {req[r].photo : r \in {q \in Request :
                 req[q].pc \in {"upload_write", "upload_commit"}}}

L == INSTANCE Ledger WITH
        Id <- PhotoId, Account <- User, Ruling <- Request,
        unused <- PhotoId \ (1..lastId), uploading <- UploadIds,
        live <- DOMAIN photos, flag <- flags, log <- audit,
        notice <- DOMAIN outbox

(* Uploads, flags, deletions and decisions are atomic to every observer of *)
(* the tables: the row locks and the StaleDataError rollbacks of           *)
(* moderation_service.decide and photo_service.delete_photo leave no       *)
(* half-applied operation, a removal tells every reporter waiting at its   *)
(* commit, and a removed photo never returns.                              *)
ImplementsLedger == L!Spec
=============================================================================
