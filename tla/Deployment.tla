----------------------------- MODULE Deployment -----------------------------
(***************************************************************************)
(* `docker compose up` on a database of any earlier revision: the API      *)
(* containers run `alembic upgrade head` and then serve                    *)
(* (docker/entrypoint.sh, app/alembic/env.py), the canary waits for the    *)
(* stable API (docker-compose.yml), the worker waits for neither.  The     *)
(* integration suite takes a database of its own down to base and up to    *)
(* head again.  PostgreSQL and Redis are up throughout.                    *)
(*                                                                         *)
(* A migration is one transaction.  Its statements become visible to the   *)
(* others when it commits; a statement that touches a table changed by an  *)
(* open transaction waits for the end of that transaction.                 *)
(***************************************************************************)
EXTENDS Migrations, FiniteSets

CONSTANTS
  Services,    \* the processes started: "api", "api-next", "worker", "pytest"
  MaxCrashes,  \* bound on the processes killed
  MaxUps       \* bound on the services started again by the operator

\* Compose starts what a service depends on with it.
ASSUME DeploymentAssumption ==
  /\ "api-next" \in Services => "api" \in Services
  /\ Services \subseteq {"api", "api-next", "worker", "pytest"}
  /\ MaxCrashes \in Nat /\ MaxUps \in Nat

VARIABLES
  db,       \* committed: [version, schema]
  pc,       \* pc[p]: created, starting, migrating, serving, healthy, exited,
            \* or absent: not a process of this database
  plan,     \* plan[p]: the statements its migration still has to run
  tx,       \* tx[p]: what its open transaction has changed
  queue,    \* kinds of Celery messages that wait in Redis
  missed,   \* the services that used a table which is not there
  crashes, ups

vars == <<db, pc, plan, tx, queue, missed, crashes, ups>>

Apis == Services \cap {"api", "api-next"}
Up == {"serving", "healthy"}
Kinds == {"thumbnail", "notification"}

(* The tables behind the request that enqueues a task, and behind the task.*)
Publishes(kind) == IF kind = "thumbnail" THEN {"users", "photos", "thumbnails"}
                   ELSE {"users", "photos", "flags", "moderation_actions", "notifications"}
Reads(kind) == IF kind = "thumbnail" THEN {"photos", "thumbnails"} ELSE {"notifications"}

(* What a transaction sees: the committed database and its own statements. *)
Seen(p) == View(db, tx[p])
Waits(p) == \E q \in Services \ {p} : Head(plan[p]).table \in tx[q].touched

(* The database and the broker may be those of an earlier release; the     *)
(* database is either that of the containers or that of the test suite.    *)
Init ==
  /\ db \in {Untouched} \union {At[r] : r \in Base .. Newest}
  /\ queue \in SUBSET {k \in Kinds : Publishes(k) \subseteq Tables(db.schema)}
  /\ \E present \in {Services \ {"pytest"}, Services \cap {"pytest"}} :
       pc = [p \in Services |-> IF p \in present THEN "created" ELSE "absent"]
  /\ plan = [p \in Services |-> <<>>]
  /\ tx = [p \in Services |-> Nothing]
  /\ missed = {} /\ crashes = 0 /\ ups = 0
-----------------------------------------------------------------------------
\* Mutant: the canary without its depends_on the stable API.
MayStartAnytime(p) == TRUE

(* depends_on: only the canary waits for another service.                  *)
MayStart(p) == p = "api-next" => pc["api"] = "healthy"

\* Mutant: an entrypoint that serves without migrating.
StartUnmigrated(p) ==
  /\ p # "pytest" /\ pc[p] = "created" /\ MayStart(p)
  /\ pc' = [pc EXCEPT ![p] = "serving"]
  /\ UNCHANGED <<db, plan, tx, queue, missed, crashes, ups>>

(* The container runs its entrypoint: the worker goes straight to work.    *)
Start(p) ==
  /\ p # "pytest" /\ pc[p] = "created" /\ MayStart(p)
  /\ pc' = [pc EXCEPT ![p] = IF p = "worker" THEN "serving" ELSE "starting"]
  /\ UNCHANGED <<db, plan, tx, queue, missed, crashes, ups>>

(* The transaction opens: Alembic reads the version, plans the statements, *)
(* and creates its own table where there is none.                          *)
Begin(p, path) ==
  /\ pc' = [pc EXCEPT ![p] = "migrating"]
  /\ plan' = [plan EXCEPT ![p] =
       (IF "alembic_version" \in Tables(db.schema) THEN <<>> ELSE <<VersionTable>>) \o path]
  /\ UNCHANGED <<db, tx, queue, missed, crashes, ups>>

Migrate(p) ==
  \/ p \in Apis /\ pc[p] = "starting" /\ Begin(p, UpgradePath(db.version))
  \/ p = "pytest" /\ pc[p] = "created" /\ Begin(p, UpgradePath(db.version))
  \/ p = "pytest" /\ pc[p] = "created" /\ Begin(p, DowngradePath(db.version))

(* The end of a transaction without a commit, and of the process with it.  *)
Exit(p) ==
  /\ pc' = [pc EXCEPT ![p] = "exited"]
  /\ plan' = [plan EXCEPT ![p] = <<>>]
  /\ tx' = [tx EXCEPT ![p] = Nothing]

\* Mutant: every statement commits by itself.
StatementAutocommit(p) ==
  /\ pc[p] = "migrating" /\ plan[p] # <<>> /\ Fits(db, Head(plan[p]))
  /\ db' = View(db, Execute(db, Nothing, Head(plan[p])))
  /\ plan' = [plan EXCEPT ![p] = Tail(@)]
  /\ UNCHANGED <<pc, tx, queue, missed, crashes, ups>>

(* A statement that fails ends the migration and, by `set -e`, the         *)
(* container, which nothing restarts.                                      *)
Statement(p) ==
  /\ pc[p] = "migrating" /\ plan[p] # <<>> /\ ~Waits(p)
  /\ IF Fits(Seen(p), Head(plan[p]))
     THEN /\ tx' = [tx EXCEPT ![p] = Execute(db, @, Head(plan[p]))]
          /\ plan' = [plan EXCEPT ![p] = Tail(@)]
          /\ UNCHANGED pc
     ELSE Exit(p)
  /\ UNCHANGED <<db, queue, missed, crashes, ups>>

(* The commit; then uvicorn starts, or the test goes on.                   *)
Commit(p) ==
  /\ pc[p] = "migrating" /\ plan[p] = <<>>
  /\ db' = Seen(p)
  /\ tx' = [tx EXCEPT ![p] = Nothing]
  /\ pc' = [pc EXCEPT ![p] = IF p = "pytest" THEN "created" ELSE "serving"]
  /\ UNCHANGED <<plan, queue, missed, crashes, ups>>

(* The container's health check: GET /healthz answers.                     *)
HealthCheck(p) ==
  /\ p \in Apis /\ pc[p] = "serving"
  /\ pc' = [pc EXCEPT ![p] = "healthy"]
  /\ UNCHANGED <<db, plan, tx, queue, missed, crashes, ups>>

(* An upload or a decision; without its tables it fails.                   *)
Request(p, kind) ==
  /\ p \in Apis /\ pc[p] \in Up
  /\ IF Publishes(kind) \subseteq Tables(db.schema)
     THEN queue' = queue \union {kind} /\ UNCHANGED missed
     ELSE missed' = missed \union {p} /\ UNCHANGED queue
  /\ UNCHANGED <<db, pc, plan, tx, crashes, ups>>

(* The worker takes a message; a missing table is no error it retries.     *)
Work(kind) ==
  /\ "worker" \in Services /\ pc["worker"] \in Up /\ kind \in queue
  /\ queue' = queue \ {kind}
  /\ missed' = IF Reads(kind) \subseteq Tables(db.schema) THEN missed ELSE missed \union {"worker"}
  /\ UNCHANGED <<db, pc, plan, tx, crashes, ups>>

(* A process is killed; PostgreSQL rolls its transaction back.             *)
Crash(p) ==
  /\ crashes < MaxCrashes /\ pc[p] \notin {"created", "exited", "absent"}
  /\ Exit(p)
  /\ crashes' = crashes + 1
  /\ UNCHANGED <<db, queue, missed, ups>>

(* The operator runs `docker compose up` again.                            *)
UpAgain(p) ==
  /\ ups < MaxUps /\ pc[p] = "exited"
  /\ pc' = [pc EXCEPT ![p] = "created"]
  /\ ups' = ups + 1
  /\ UNCHANGED <<db, plan, tx, queue, missed, crashes>>

Turn(p) == Start(p) \/ Migrate(p) \/ Statement(p) \/ Commit(p) \/ HealthCheck(p)

Next ==
  \/ \E p \in Services : Turn(p) \/ Crash(p) \/ UpAgain(p)
  \/ \E p \in Apis, kind \in Kinds : Request(p, kind)
  \/ \E kind \in Kinds : Work(kind)

Spec == Init /\ [][Next]_vars

(* Compose starts what may start, and a container that runs goes on.       *)
FairSpec == Spec /\ \A p \in Apis : WF_vars(Turn(p))
-----------------------------------------------------------------------------
(* Every variable has its type, and only a migration has a plan.           *)
TypeOK ==
  /\ db.version \in Base .. Newest /\ queue \subseteq Kinds /\ missed \subseteq Services
  /\ pc \in [Services -> Up \union {"created", "starting", "migrating", "exited", "absent"}]
  /\ \A p \in Services : plan[p] # <<>> \/ tx[p] # Nothing => pc[p] = "migrating"
  /\ crashes \in 0 .. MaxCrashes /\ ups \in 0 .. MaxUps

(* Whatever migration is killed at whatever statement, the tables, indexes *)
(* and keys committed are those of the revision alembic_version records    *)
(* (the transaction around context.run_migrations, env.py).  At base this  *)
(* is the assertion of integration_tests/test_migrations.py, line 17.      *)
SchemaOfRevision == db = Untouched \/ db = At[db.version]

(* An API that answers works on the schema of its models, whatever         *)
(* revision the database had before: entrypoint.sh migrates first.         *)
ServesItsSchema ==
  \A p \in Apis : pc[p] \in Up => db.schema = Metadata \union {Table("alembic_version")}

(* No request and no task meets a missing table, although the worker waits *)
(* for no migration: the tables a task reads were there when it was sent.  *)
TablesFound == missed = {}

(* A migration does not fail: no two collide, thanks to the depends_on of  *)
(* the canary, and every statement fits the schema it finds, down to base  *)
(* and up again.  What stands still was killed.                            *)
OnlyKilledStop == Cardinality({p \in Services : pc[p] = "exited"}) + ups = crashes

(* Unless something is killed, every API of the database comes up.         *)
EveryApiServes == <>(crashes > 0 \/ \A p \in Apis : pc[p] \in {"healthy", "absent"})
=============================================================================
