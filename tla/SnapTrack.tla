----------------------------- MODULE SnapTrack -----------------------------
(***************************************************************************)
(* The whole system: requests and workers interleaved over the shared      *)
(* stores, with the faults the code has to live with.                      *)
(***************************************************************************)
EXTENDS Moderation, Tasks

(* The API process handling the request dies; PostgreSQL rolls its open    *)
(* transaction back.                                                       *)
ApiCrash(r) ==
    /\ req[r].pc \notin {"done", "crashed"}
    /\ Spend("api_crash")
    /\ req' = [req EXCEPT ![r] =
                 [@ EXCEPT !.pc = "crashed", !.flags = {}, !.notes = {},
                           !.heldFlags = {}, !.heldPhoto = FALSE]]
    /\ UNCHANGED <<database, files, cache, queue, mails, call, wk>>

(* Steps whose statement reaches the database; "upload" does so once the   *)
(* image is accepted.                                                      *)
DbStep == {"upload", "upload_commit", "upload_refresh", "load_photo", "load_thumb",
           "patch_commit", "patch_refresh", "delete_flags", "lock_flags",
           "lock_photo", "cascade", "flag_commit", "flag_refresh", "decide",
           "dismiss_commit", "action_siblings", "action_resolve",
           "action_photo", "action_commit", "decide_refresh"}

(* The statement fails: rollback, and the handler's answer is a 500. *)
ApiDbError(r) ==
    /\ req[r].pc \in DbStep
    /\ req[r].pc = "upload" => call[r].image \in Image
    /\ Spend("db")
    /\ Answer(r, 500)
    /\ UNCHANGED <<database, files, cache, queue, mails, call, wk>>

(* PostgreSQL aborts a transaction on a cycle of the waits-for graph. *)
Deadlocked(r) ==
    \E S \in SUBSET Request :
        /\ r \in S
        /\ \A a \in S : /\ \E b \in S : WaitsFor(a, b)
                        /\ \E b \in S : WaitsFor(b, a)

DeadlockAbort(r) ==
    /\ Deadlocked(r)
    /\ Answer(r, 500)
    /\ UNCHANGED <<shared, call, wk>>

(* The key's TTL runs out. *)
Expire(p) ==
    /\ p \in DOMAIN cache
    /\ cache' = Drop(cache, {p})
    /\ UNCHANGED <<database, files, queue, mails, call, req, wk, spent>>

RequestTurn(r) == PhotoStep(r) \/ ModerationStep(r) \/ DeadlockAbort(r)

(* Every request is over, every worker idle, nothing queued. *)
Quiescent ==
    /\ \A r \in Request : req[r].pc \in {"done", "crashed"}
    /\ \A w \in Worker : wk[w].pc = "idle"
    /\ DOMAIN queue = {}

Idle == Quiescent /\ UNCHANGED vars

Next ==
    \/ \E r \in Request : RequestTurn(r) \/ ApiCrash(r) \/ ApiDbError(r)
    \/ \E w \in Worker : WorkerTurn(w) \/ WorkerCrash(w) \/ Redeliver(w)
                           \/ WorkerDbError(w)
    \/ \E p \in PhotoId : Expire(p)
    \/ Idle

Spec == Init /\ [][Next]_vars

(* A thread of the pool runs each request to its end, an idle worker takes *)
(* the next message and runs its task. Nothing obliges a fault to occur,   *)
(* an operation to fail, nor Redis to drop a key.                          *)
Fairness ==
    /\ \A r \in Request : WF_vars(RequestTurn(r))
    /\ \A w \in Worker : WF_vars(WorkerTurn(w))

FairSpec == Spec /\ Fairness
=============================================================================
