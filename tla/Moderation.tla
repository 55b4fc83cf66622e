----------------------------- MODULE Moderation -----------------------------
(***************************************************************************)
(* Flags and moderator decisions: app/services/moderation_service.py under *)
(* the flag and decision endpoints, with the outbox rows of                *)
(* app/services/notification_service.py.                                   *)
(***************************************************************************)
EXTENDS Photos

---------------------------------------------------------------------------
(* create_flag. The INSERT waits for a transaction deleting the photo, and *)
(* every IntegrityError, a missing photo's too, becomes 409.               *)

(* Mutant: flags.photo_id without its foreign key. *)
FlagCommitNoForeignKey(r) ==
    /\ req[r].pc = "flag_commit"
    /\ LET f == <<req[r].photo, call[r].user>> IN
       IF f \notin DOMAIN flags
       THEN flags' = Put(flags, f, "pending") /\ Goto(r, "flag_refresh")
       ELSE UNCHANGED flags /\ Answer(r, 409)
    /\ UNCHANGED <<photos, lastId, audit, outbox, files, cache, queue, mails,
                   call, wk, spent>>

(* Mutant: an IntegrityError starts the handler over. *)
FlagCommitTryAgain(r) ==
    /\ req[r].pc = "flag_commit"
    /\ Unblocked(r)
    /\ LET p == req[r].photo
           f == <<p, call[r].user>>
       IN  IF p \in DOMAIN photos /\ f \notin DOMAIN flags
           THEN flags' = Put(flags, f, "pending") /\ Goto(r, "flag_refresh")
           ELSE UNCHANGED flags /\ Goto(r, "load_photo")
    /\ UNCHANGED <<photos, lastId, audit, outbox, files, cache, queue, mails,
                   call, wk, spent>>

FlagCommit(r) ==
    /\ req[r].pc = "flag_commit"
    /\ Unblocked(r)
    /\ LET p == req[r].photo
           f == <<p, call[r].user>>
       IN  IF p \in DOMAIN photos /\ f \notin DOMAIN flags
           THEN flags' = Put(flags, f, "pending") /\ Goto(r, "flag_refresh")
           ELSE UNCHANGED flags /\ Answer(r, 409)
    /\ UNCHANGED <<photos, lastId, audit, outbox, files, cache, queue, mails,
                   call, wk, spent>>

FlagRefresh(r) ==
    /\ req[r].pc = "flag_refresh"
    /\ Answer(r, IF <<req[r].photo, call[r].user>> \in DOMAIN flags
                 THEN 201 ELSE 500)
    /\ UNCHANGED <<shared, call, wk>>

---------------------------------------------------------------------------
(* decide.                                                                 *)

(* db.get takes no lock: the status checked here may change before the     *)
(* decision writes.                                                        *)
DecideLoad(r) ==
    /\ req[r].pc = "decide"
    /\ LET f == call[r].flag IN
       IF f \notin DOMAIN flags THEN Answer(r, 404)
       ELSE IF flags[f] # "pending" THEN Answer(r, 409)
       ELSE Goto(r, IF call[r].op = "dismiss" THEN "dismiss_commit"
                                              ELSE "action_siblings")
    /\ UNCHANGED <<shared, call, wk>>

AuditRow(r) == [by |-> r, flag |-> call[r].flag, decision |-> call[r].op]

(* _queue_notifications: one pending row per flag, for its reporter. *)
WithNotes(r, S) ==
    [n \in DOMAIN outbox \cup {<<r, f>> : f \in S} |->
       IF n \in DOMAIN outbox THEN outbox[n]
       ELSE [status |-> "pending", attempts |-> 0]]

(* Resolution, audit row and outbox row in one transaction; the UPDATE of  *)
(* a flag deleted meanwhile is StaleDataError and rolls all of it back.    *)
DismissCommit(r) ==
    /\ req[r].pc = "dismiss_commit"
    /\ Unblocked(r)
    /\ LET f == call[r].flag IN
       IF f \in DOMAIN flags
       THEN /\ flags' = [flags EXCEPT ![f] = "dismissed"]
            /\ audit' = audit \cup {AuditRow(r)}
            /\ outbox' = WithNotes(r, {f})
            /\ req' = [req EXCEPT ![r].pc = "decide_refresh", ![r].notes = {f}]
       ELSE /\ Answer(r, 500)
            /\ UNCHANGED <<flags, audit, outbox>>
    /\ UNCHANGED <<photos, lastId, files, cache, queue, mails, call, wk, spent>>

(* Mutant: the flag decided on is not among its siblings. *)
ActionOtherSiblings(r) ==
    /\ req[r].pc = "action_siblings"
    /\ req' = [req EXCEPT ![r].pc = "action_resolve",
                          ![r].flags = {f \in FlagsOf(req[r].photo) :
                                          flags[f] = "pending" /\ f # call[r].flag}]
    /\ UNCHANGED <<shared, call, wk>>

ActionSiblings(r) ==
    /\ req[r].pc = "action_siblings"
    /\ req' = [req EXCEPT ![r].pc = "action_resolve",
                          ![r].flags = {f \in FlagsOf(req[r].photo) :
                                          flags[f] = "pending"}]
    /\ UNCHANGED <<shared, call, wk>>

(* Mutant: no flush, so no row lock, before the photo is looked up. *)
ActionResolveNoFlush(r) ==
    /\ req[r].pc = "action_resolve"
    /\ req' = [req EXCEPT ![r] = [@ EXCEPT !.pc = "action_photo",
                                           !.notes = req[r].flags]]
    /\ UNCHANGED <<shared, call, wk>>

(* Mutant: the jobs are enqueued before the commit. *)
ActionResolveDispatching(r) ==
    /\ req[r].pc = "action_resolve"
    /\ Unblocked(r)
    /\ IF req[r].flags = {call[r].flag} /\ call[r].flag \in DOMAIN flags
       THEN /\ Publish([note |-> <<r, call[r].flag>>, retries |-> 0])
            /\ req' = [req EXCEPT ![r] = [@ EXCEPT !.pc = "action_photo",
                                          !.heldFlags = req[r].flags]]
       ELSE Answer(r, 500) /\ UNCHANGED queue
    /\ UNCHANGED <<database, files, cache, mails, call, wk, spent>>

(* The flush takes the siblings' row locks; what it and _queue_notifications *)
(* write stays invisible until ActionCommit.                                 *)
ActionResolve(r) ==
    /\ req[r].pc = "action_resolve"
    /\ Unblocked(r)
    /\ IF req[r].flags \subseteq DOMAIN flags
       THEN req' = [req EXCEPT ![r] =
                      [@ EXCEPT !.pc = "action_photo",
                                !.notes = req[r].flags,
                                !.heldFlags = req[r].flags]]
       ELSE Answer(r, 500)
    /\ UNCHANGED <<shared, call, wk>>

(* Mutant: a photo already gone counts as a success. *)
ActionPhotoOptional(r) ==
    /\ req[r].pc = "action_photo"
    /\ IF req[r].photo \in DOMAIN photos
       THEN req' = [req EXCEPT ![r].pc = "lock_flags",
                               ![r].flags = FlagsOf(req[r].photo)]
       ELSE Answer(r, 200)
    /\ UNCHANGED <<shared, call, wk>>

(* db.delete(db.get(Photo, id)): UnmappedInstanceError on None, else the   *)
(* cascade loads the photo's flags.                                        *)
ActionPhoto(r) ==
    /\ req[r].pc = "action_photo"
    /\ IF req[r].photo \in DOMAIN photos
       THEN req' = [req EXCEPT ![r].pc = "lock_flags",
                               ![r].flags = FlagsOf(req[r].photo)]
       ELSE Answer(r, 500)
    /\ UNCHANGED <<shared, call, wk>>

(* The DELETE's own cascade locks the flags inserted since. *)
ActionCascade(r) ==
    /\ req[r].pc = "cascade"
    /\ call[r].op = "action"
    /\ Unblocked(r)
    /\ req' = [req EXCEPT ![r].pc = "action_files",
                          ![r].heldFlags = @ \cup FlagsOf(req[r].photo)]
    /\ UNCHANGED <<shared, call, wk>>

ActionFiles(r) ==
    /\ req[r].pc = "action_files"
    /\ DeletePhotoFiles(req[r].photo)
    /\ Goto(r, "action_invalidate")
    /\ UNCHANGED <<database, cache, queue, mails, call, wk>>

(* Mutant: the invalidation is left to the deletion endpoint. *)
ActionKeepsKey(r) ==
    /\ req[r].pc = "action_invalidate"
    /\ Goto(r, "action_commit")
    /\ UNCHANGED <<shared, call, wk>>

ActionInvalidate(r) ==
    /\ req[r].pc = "action_invalidate"
    /\ CacheDelete(req[r].photo)
    /\ Goto(r, "action_commit")
    /\ UNCHANGED <<database, files, queue, mails, call, wk>>

ActionCommit(r) ==
    /\ req[r].pc = "action_commit"
    /\ photos' = Drop(photos, {req[r].photo})
    /\ flags' = Drop(flags, FlagsOf(req[r].photo))
    /\ audit' = audit \cup {AuditRow(r)}
    /\ outbox' = WithNotes(r, req[r].notes)
    /\ req' = [req EXCEPT ![r] = [@ EXCEPT !.pc = "decide_refresh",
                                  !.heldFlags = {}, !.heldPhoto = FALSE]]
    /\ UNCHANGED <<lastId, files, cache, queue, mails, call, wk, spent>>

(* db.refresh(flag) fails if the flag went since; the audit row never goes. *)
DecideRefresh(r) ==
    /\ req[r].pc = "decide_refresh"
    /\ IF call[r].op = "action" \/ call[r].flag \in DOMAIN flags
       THEN Goto(r, "dispatch")
       ELSE Answer(r, 500)
    /\ UNCHANGED <<shared, call, wk>>

(* Mutant: a dispatched row may be dispatched again. *)
DispatchAgain(r) ==
    /\ req[r].pc = "dispatch"
    /\ \E f \in req[r].notes :
          /\ Publish([note |-> <<r, f>>, retries |-> 0])
          /\ \E left \in {req[r].notes, {}} : req' = [req EXCEPT ![r].notes = left]
    /\ UNCHANGED <<database, files, cache, mails, call, wk, spent>>

(* _dispatch: one deliver job per outbox row, then the answer. *)
Dispatch(r) ==
    /\ req[r].pc = "dispatch"
    /\ \E f \in req[r].notes :
          /\ Publish([note |-> <<r, f>>, retries |-> 0])
          /\ req' = [req EXCEPT ![r].notes = @ \ {f}]
    /\ UNCHANGED <<database, files, cache, mails, call, wk, spent>>

DispatchFails(r) ==
    /\ req[r].pc = "dispatch"
    /\ req[r].notes # {}
    /\ Spend("broker")
    /\ Answer(r, 500)
    /\ UNCHANGED <<database, files, cache, queue, mails, call, wk>>

Decided(r) ==
    /\ req[r].pc = "dispatch"
    /\ req[r].notes = {}
    /\ Answer(r, 200)
    /\ UNCHANGED <<shared, call, wk>>

ModerationStep(r) ==
    \/ FlagCommit(r) \/ FlagRefresh(r)
    \/ DecideLoad(r) \/ DismissCommit(r)
    \/ ActionSiblings(r) \/ ActionResolve(r) \/ ActionPhoto(r)
    \/ ActionCascade(r) \/ ActionFiles(r) \/ ActionInvalidate(r)
    \/ ActionCommit(r) \/ DecideRefresh(r)
    \/ Dispatch(r) \/ DispatchFails(r) \/ Decided(r)
=============================================================================
