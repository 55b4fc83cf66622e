# SnapTrack API: TLA+ models and proofs

SnapTrack is a photo API (FastAPI over SQLAlchemy and PostgreSQL) with a Redis
cache, a storage volume and Celery workers that make thumbnails and deliver
moderation e-mails. The code is sequential inside each handler and each task,
so what is hard about it lies *between* the steps of several of them: a cache
fill overtaken by a write, a decision taken on a row read without a lock, a
job whose message comes back, a process that dies between two stores that no
transaction spans. That is what the largest of these models is about. Smaller
ones model what surrounds it: the threads and connections a request needs,
accounts and their tokens, listings walked while they change, migrations of a
deployment, and the HTTP surface together with the SDK generated from it.

Contents: [Inventory](#inventory) · [Modules](#modules) ·
[How state and actions correspond to the code](#how-state-and-actions-correspond-to-the-code) ·
[Runs](#runs) · [Fairness](#fairness) · [What is proved](#what-is-proved) ·
[Where code and texts disagree](#where-code-and-texts-disagree) ·
[Not modelled](#not-modelled) · [Plan](#plan)

## Inventory

### Components, their state and their operations

| component | state it keeps | operations that change state |
|---|---|---|
| photo endpoints, `api/routes/photos.py`, `services/photo_service.py` | none of its own: one session, so one transaction at a time, per request | upload, get (fills the cache), patch, delete, thumbnail status, the two file downloads, flag; list is read-only |
| moderation endpoints, `api/routes/moderation.py`, `services/moderation_service.py` | as above | create a flag, decide (dismiss, action); the queue listing is read-only |
| notification service, `services/notification_service.py` | outbox rows (`notifications`) | queue rows inside the decision's transaction, deliver one row |
| tasks, `workers/tasks.py`, `workers/celery_app.py` | the message a worker holds unacknowledged, the row it loaded | `thumbnails.generate`, `notifications.deliver`, each with a bounded number of retries |
| database schema, `models/`, `database.py` | `photos`, `thumbnails` (one per photo), `flags` (unique per photo and reporter), `moderation_actions` (no foreign keys), `notifications`; row locks of open transactions | commit, rollback, cascades |
| storage, `storage.py` | per photo the original and `thumb.jpg` | write the original, write the thumbnail, remove the directory |
| cache, `cache.py` | `photo:{id}` with a TTL | get, set, delete, each swallowing Redis errors |
| broker (external, Redis through Celery) | messages queued; messages delivered and not yet acknowledged | publish, deliver, acknowledge, redeliver |
| mailer, `services/mailer.py` | `.eml` files or log lines | deliver one message |
| image helpers, `services/images.py` | none | probe at upload, scale in the worker |
| session and pool, `database.py`, `api/deps.py` (`get_db`) | connections checked out, threads of the server's limiter | checkout, give back at commit and at close, time out |
| authentication, `api/routes/auth.py`, `api/deps.py`, `core/security.py` | `users`, tokens handed out | register, log in, resolve the current user and admin |
| HTTP surface: `main.py`, `api/middleware.py`, `api/responses.py`, `schemas/` | none | route, parse, authenticate, validate, document; the `Allow` header of a 405 |
| generated SDK, `sdk/snaptrack-api-client/` | client objects, their headers dictionaries and live httpx clients | 16 calls; `with_headers`, `with_cookies`, `with_timeout`, `with` blocks, `set_httpx_client` |
| migrations, `alembic/`, and deployment, `docker/entrypoint.sh`, `docker-compose.yml` | the schema and `alembic_version` | upgrade and downgrade, start, health check |
| observability, load tests, Traefik's weights | none | none |

### How they interact

A request handler calls the service, the service works on the session and,
before or after the commit, on the volume, on Redis and on the broker. Nothing
makes two of these stores change together. A worker takes a message, opens a
session of its own, works on the same tables and the same volume, and deletes
the same cache keys. Requests and workers see each other only through the
stores: committed rows, row locks, files, keys and messages.

### What is hard

* **Concurrency.** A handler runs in a thread of a pool, several at a time, in
  several processes. `get_photo_cached` reads a row and stores it later;
  `decide` checks the status of a flag on an unlocked read; the owner's
  deletion and a moderator's action lock flags and photo in orders that can
  form a cycle.
* **Several stores, no common transaction.** Upload writes the blob before the
  row commits, the owner's deletion removes it after, and the action decision
  removes it inside its open transaction. Jobs are published after the commit
  they belong to. Invalidation follows the commit in `update_photo` and
  `delete_photo` and precedes it in `decide`.
* **At-least-once delivery.** `task_acks_late` and `task_reject_on_worker_lost`:
  the message of a dead worker comes back, and a message can be delivered while
  a worker still runs it.
* **Retries.** Transient failures are retried under a budget; what counts as
  transient is decided by exception types.
* **Partial failure.** Redis, the broker, the disk, the mail directory, any SQL
  statement and the API process can fail between any two steps.

### What correctness means, component by component

* *photos, storage:* a visible photo has its original; "ready" is seen only
  when the thumbnail file is there; what is deleted leaves no original behind.
* *cache:* an entry that differs from its row is explained by a write still on
  its way to invalidate it or by a race the design accepts.
* *moderation:* a decision, its audit row and its outbox rows are one unit; no
  flag outlives its photo; a reporter whose pending flag goes away because of
  a moderator is notified; what a moderator was told stands.
* *notifications:* a row whose request got to dispatch it is delivered or given
  up on, never lost; a reporter gets extra copies only because of a crash or a
  redelivery.
* *tasks:* no thumbnail stays pending or processing without a job; retries stay
  within the budget; every job settles.
* *all requests:* every request ends, lock cycles included; the tables move
  only by whole operations.
* *pool:* no connection outlives its request; requests do not all wait for one
  another, and if they do, the checkout timeout ends it.
* *authentication:* one account per address however it is spelt; a token is
  worth what its account is worth now, and only to whoever obtained it.
* *listings:* a walk over the pages misses no more rows than left and repeats no
  more than came.
* *surface and SDK:* every status is documented but the 500 of a crash; what the caller
  passes arrives, and what the server writes is read as the same.
* *client objects:* copies do not touch each other's connections, tokens and
  settings.
* *deployment:* no migration leaves half a schema or fails, and nobody works on
  a schema that is not there.

`PROJECT.json` lists each hazard at its line, with the property that covers it
or the reason why none does.

## Modules

The core:

| module | what it holds |
|---|---|
| `Store` | the shared state, the types, row locks, fault budgets, `Init` |
| `Photos` (extends `Store`) | `photo_service` under the photo endpoints |
| `Moderation` (extends `Photos`) | `moderation_service` and the outbox writes; its action decision shares the deletion steps of `Photos` |
| `Tasks` (extends `Store`) | the two Celery tasks, worker crashes, redeliveries |
| `SnapTrack` (extends `Moderation`, `Tasks`) | faults of the API processes, deadlock detection, expiry, `Next`, `Spec`, `Fairness`, `FairSpec` |
| `Properties` | type invariant, safety, action and liveness properties |
| `Invariants` | the inductive invariants: `TypeInv`, `LockInv`, `RecordInv`, `BlobInv`, `CacheInv`, `JobInv` |
| `Ledger` | the abstract specification of photos, flags, audit log and outbox: one step per operation |
| `Refinement` | the mapping under which `SnapTrack` implements `Ledger` |
| `LedgerProof`, `JobProof` | the proofs, the second building on the first: types, locks, decisions and the ledger; files, cache, jobs and budgets |
| `MC` | values of the constants for the runs |

Around it:

| module | what it holds |
|---|---|
| `Pool`, `PoolProof`, `MCPool` | threads and connections of one API process |
| `Accounts`, `AccountsProof`, `MCAccounts` | registration, login, tokens, the current user, and an operator who changes accounts |
| `Listing`, `ListingProof` | both listings, as a walk over pages of a changing table |
| `Wire` | values that cross the HTTP boundary, kinds of fields |
| `Schemas`, `Api` (server) | pydantic models; routes, documented responses, validation, order of the checks, `Allow` header |
| `SdkModels`, `SdkCalls` (client) | generated models (`from_dict`, `to_dict`); requests made and answers parsed by each endpoint function |
| `Exchange`, `ExchangeProof`, `MCExchange` | the two sides composed, one exchange after another |
| `SdkClient`, `SdkClientProof`, `MCSdkClient` | `Client` and `AuthenticatedClient` as mutable objects |
| `Migrations` | the statements of the three revisions, up and down, and the schema they act on |
| `Deployment`, `DeploymentProof` | the containers that migrate, serve and work on one database |

Definitions commented *Mutant* are variants of an action with a plausible bug
in it. Nothing uses them; substituting one for the action it varies must make
the property named for it in `PROJECT.json` fail.

## How state and actions correspond to the code

**Grain.** A step is a transaction; or one statement of a transaction, where a
row lock makes it observable to others; or one call to the volume, to Redis, to
the broker or to the mailer. PostgreSQL runs at READ COMMITTED: a statement
sees what was committed before it. Sessions have `expire_on_commit=False` and
`autoflush=False` (`database.py`), so an attribute read after a commit costs no
statement, an UPDATE is emitted only for attributes that differ from the loaded
value (`PatchCommit`, `ThumbProcessing`, `UpdateNote`), and an UPDATE that matches no row is a
`StaleDataError` while a DELETE that matches none is only a warning.

**Rows.** `photos` is a function on the live ids, each photo joined with its
thumbnail; they are inserted and deleted together. A flag is its unique
`(photo_id, reporter_id)` pair; a notification is the pair of the decision that
queued it and the flag it answers. `lastId` is the `photos.id` sequence, which a
rollback does not turn back. Captions, MIME types, e-mail texts, dimensions and
error strings are left out, except that captions are kept as two values because
staleness is about them.

**Requests.** `call[r]` is what request `r` asks for and `req[r]` is what its
handler holds between two steps: the step, the photo, the row it read, the flags
it loaded, the outbox rows still to dispatch, the row locks of its open
transaction and the status code it answered with. Each request is handled once;
a client retry is another request.

**Row locks.** A lock is taken by the step that emits the UPDATE or DELETE and
released by commit or rollback. `Unblocked(r)` is the guard of every step that
needs one. The foreign key makes the INSERT of a flag wait for a transaction
deleting its photo. `Deadlocked` is a cycle in the waits-for graph, and
`DeadlockAbort` is PostgreSQL's answer to it.

**Workers.** `wk[w]` holds the message not yet acknowledged, the step of the
task, and the status and attempts the task read when it loaded its row: both
are written back from memory, so two workers running duplicates of one message
overwrite each other's counts. A publish that fails during `self.retry` makes
Celery reject the message without requeueing, so the job is lost.

**Faults.** Each kind occurs at most `FaultLimit[kind]` times and all together
at most `MaxFaults` times: `api_crash`,
`worker_crash`, `redeliver`, `cache` (a Redis error, swallowed), `broker` (a
failed publish), `disk` (a failed write of an image), `rmtree` (files left by
`ignore_errors=True`), `db` (a failed statement), `mail`
(`NotificationDeliveryError`), `maildir` (the unguarded `mkdir`). A promise the
code does not keep under some kinds is stated under `Never(kinds)`: it holds
until the first of them occurs, in the same runs.

**The ledger.** `Refinement` maps the live photos, the flags, the audit rows and
the keys of the outbox to themselves, the ids above the sequence to `unused`,
and an id between flush and commit of an upload to `uploading`. All else (locks,
steps, files, cache, queue) is hidden. `Remove` tells at least the reporters
waiting at the commit; it may also tell one whose flag was dismissed after the
siblings were selected. `RemoveInVain` is the action decision that finds flag
and photo gone but had passed its checks: `StaleDataError` rolls it back if it
had a flag to resolve, and otherwise it is on record. A pending flag goes only with
its owner's photo or a notice. The ledger is what the code does in one step, not all
that its documents ask: two decisions that overlap may both be on record for one
flag, and `Remove` may close none. That these happen is shown with `twice` and
`untold`, not by the refinement.

**Pool.** A request is the plan of sync functions FastAPI runs for it, each in a
thread of the limiter; the session checks a connection out at the first
statement and keeps it, across threads, until commit or close. Closing runs
outside the limiter. Streaming of files and the event loop take no thread and
are left out, and so is a second checkout after `rollback`.

**Accounts.** Passwords are compared, tokens cannot be forged; a token is its
subject and whether `exp` is past. There is no endpoint that disables, promotes
or removes an account: the operator does, in the database. `since` is history:
the rows the account of a request has had since the request arrived.

**Listing.** `created_at` is `now()`, the start of the inserting transaction, the
id comes at its flush and the row at its commit, so the three orders differ.
Count, page and `selectinload` are three statements. Photos and the queue differ
only in what makes a row leave, which the model leaves open.

**Surface and SDK.** Strings are words that stand for what the two sides tell
apart: an enumeration value, an instant in one of its notations, a text within
or beyond its limit. `Serve` is the set of answers to a request, in FastAPI's
order: route, parse the body, authenticate, authorise, validate, run. A handler, or
the authentication before it, may raise where no code expects it (`Crash`), for
whatever reason: a failed statement, a broken image file, a text the database does
not take. Only the probes catch everything. Each SDK endpoint is a record of what its
module says. The asynchronous functions are the
blocking ones awaited and have no definitions of their own. The code that writes,
reads and compares documents calls itself for nested ones; no schema nests deeper
than a list of rows that may hold an object, so the model has one operator per
depth (`PartDocument`, `RowDocument`, `Document`, and so on) and no recursion.

**Client objects.** httpx clients copy what they are built from, are entered at
most once and raise once closed; `headers` is a shared dictionary, whose identity
the model keeps. Cookies and the timeout are treated alike in the code and are
one `option` here. Raised errors are disabled steps: they change nothing.

**Deployment.** A migration is one transaction (`env.py`); PostgreSQL's DDL is
transactional and a statement waits for the open transaction that touched its
table. An open transaction (`tx`) is the tables it touched, the objects it made
and took away and the version it wrote; it sees them laid over the committed `db`
(`View`), and the commit makes `db` what it sees. `At[r]` is the database of
revision `r`: what the upgrades up to `r` create, beside Alembic's own table.
Alembic reads `alembic_version` before its first statement. A container
that exits stays so until `docker compose up` is run again; the canary depends on
the healthy stable API, the worker on no other container. Compose gives a
container about 50 seconds to become healthy; the model lets it take as long as
it needs. The database belongs either to the containers or to the integration
suite, which takes it up and down; the rest are `absent`.

**Seeds.** Runs start from photos that earlier uploads left: ready with both
files, or pending with the message queued; and from pending flags.

## Runs

All bounds are in the `.cfg` files and in the `MC` modules.

| run | question | instance |
|---|---|---|
| `decisions` | are decisions atomic and answered for; do the tables follow the ledger? | 3 requests of upload, get, delete, flag, dismiss, action on a flagged photo; one crash, failing statement, disk, rmtree or broker |
| `deletions` | does a flag outlive its photo, does a lock cycle hang a request? | 3 requests of flag, delete, action; no faults; fair |
| `photos` | do rows, blobs, cache and thumbnail jobs agree? | 2 requests of upload (good, truncated, junk, too large), get, foreign get, patch, the three downloads, delete, action; 1 worker; any one fault |
| `jobs` | is a job stranded or tried too often, a mail repeated, something left unsettled? | 2 workers, a pending thumbnail, a get, deletion or dismissal; any two of crash, redelivery, failing statement, broker or mail directory, up to 2 failing writes or mails; fair |
| `pool` | do connections leak, does a process stall, does every request end? | 4 requests of four kinds, 2 threads, 1 connection; fair |
| `accounts` | who gets an account, and who may act? | 4 requests of register (two spellings, two passwords), login, me, moderate; 2 changes by the operator |
| `listing` | what does a walk over the pages miss or repeat? | 4 rows, pages of 2, 2 inserts, 2 removals |
| `exchange` | do server and SDK mean the same? | every call with every combination of set, unset and null arguments; every answer with no, one or all nullable fields null; raw requests of every method and path; any handler may crash |
| `client` | what do client objects and their copies share? | an object and its copy, 3 httpx clients, 2 tokens, both modes |
| `deployment` | does every revision migrate, alone, together, killed? | 4 processes, every starting revision, 3 kills, 3 restarts |
| `twice`, `stale_caption` | counterexamples, see [below](#where-code-and-texts-disagree) | 2 requests, no faults |

Eight further configurations (`untold`, `vanished_photo`, `removed_cached`,
`lost_delete`, `lost_note`, `mail_dir`, `truncated`, `stuck_thumbnail`) are no runs of
the project; each prints one more counterexample described there.

Why the bounds are enough for these questions. Every race under *hazards* in the
core needs at most three actors on one photo (two transactions and a third that
changes what they rely on, as in flag, delete, action), and one photo suffices
because no code relates two of them; `decisions` and `photos` allow uploads
beside it to exercise the id sequence. One retry is the least that tells "again"
from "give up". A fault a run allows may fall on any step. `jobs`, where the code
retries, allows two, so that a failure can strike the recovery from another one,
and mail and disk faults can use up the retry budget. `AttemptsWithinBudget` is checked
there, where two workers can run one job side by side. `photos` gives notifications no
retry, because `jobs` is about them. In `pool`, four requests exceed the three at which two threads and one
connection can form the circle, and as they end the run passes through every
smaller load. In `listing`, two inserts and two removals shift a window by a
whole page in either direction. In `client`, an object and its copy share a
headers dictionary under different tokens while both kinds of their httpx clients
live. In `deployment`, three kills can hit each container once.

Type invariants other than `TypeInv` (`TypeOK` of `Accounts`, `Listing`, `Exchange`,
`SdkClient` and `Deployment`) say only what the modules' states look like; TLC
accepted them on the same instances, no run is kept for them, and all are proved.

Symmetry over requests and workers, and over tokens and modes in `client`, is used
in runs without liveness properties only.

Deadlock checking is on in every run but `deployment`: steps such as `Idle` and
`Done` stand for the server at rest, so a deadlock would be a request or a job
that nothing can ever move. A deployment comes to rest when its containers are up
and its bounds are used.

## Fairness

`Fairness` is weak fairness of each request's handler and of each worker's task.
The handler of a request is run by a thread to its
end; a Celery worker runs the task it took and takes another when idle. Expiry of
keys is not fair: no property waits for it. No fairness is put on a fault action, so no liveness
property holds because something failed. Weak fairness of a handler is on its
disjunction of steps, among them the failing outcomes of the broker or Redis:
a step always has the successful outcome, and failing ones run out. Waiting for
a lock is a disabled step, so `RequestsTerminate` rests on `DeadlockAbort` and on
the lock holders' own fairness.

`Pool` is weakly fair to each request: the limiter hands threads out in turn, a
thread runs on, and `pool_timeout` ends every wait for a connection, so that no
waiter needs strong fairness to end. `Deployment` is weakly fair to the API
containers: compose starts what may start, and a process goes on. Kills and
restarts are not fair, nor is the worker, which nothing waits for.

## What is proved

TLC's instances have at most three requests and two workers; the theorems about
the core hold for all sets of users, captions, requests and workers, all seeds,
all retry and fault budgets, under `ConstantAssumption`, `SeedAssumption` and
`NoneAssumption` of `Store`. Those about `Pool`, `Accounts`, `SdkClient`,
`Listing`, `Deployment` and `Exchange` hold for all values of their constants, under
`PoolAssumption`, `AccountAssumption`, `SdkClientAssumption`, `ListingAssumption`,
`DeploymentAssumption` and `ExchangeAssumption`. The assumptions are types, "lower-casing twice is
lower-casing once", "compose starts the API a canary depends on", seeds that an upload and a flag of the owner leave behind (a
pending one not tried yet, a ready one within the tries of one delivery), and "`None`
is no value"; TLC evaluates each of them.

Almost no property of the runs is inductive: each is a consequence of an
invariant that says what every step relies on. TLC accepted each of these on the
instances of the runs named before it was proved.

| invariant | defined in | checked on | what it gives |
|---|---|---|---|
| `TypeInv` | `Invariants` | `photos` | types |
| `LockInv` | `Invariants` | `deletions` | `FlagsHavePhotos`, `LockedFlagKeepsPhoto` |
| `RecordInv` | `Invariants` | `decisions` | `AnsweredDecisionStands`, `NoteJobHasRow`, the steps of the refinement |
| `BlobInv` | `Invariants` | `photos`, `decisions` | `OriginalOnDisk`, `ReadyThumbOnDisk`, `RemovedOriginalGone`, `ServingFailsOnlyOnRemoval` |
| `CacheInv` | `Invariants` | `photos` | `StaleEntryExplained` |
| `JobInv` | `Invariants` | `jobs`, `photos`, `decisions`, `deletions` | `NoStrandedThumbnail`, `SentNotMailedAgain`, `NoStrandedNote` |
| `BudgetInv` | `Invariants` | `jobs`, `photos`, `decisions` | `AttemptsWithinBudget`, `MailedWithinDeliveries` |
| `Accounted` | `Pool` | `pool` | `NoStall` |
| `AccountInv` | `AccountsProof` | `accounts` | `OneAccountPerAddress`, `ActsOnlyIfEntitled`, `TokenStaysWithHolder` |
| `SdkInv` | `SdkClientProof` | `client` | `BlocksStayOpen`, `BuiltForItsOwner` |
| `ListingInv` | `ListingProof` | `listing` | `WalkAccountsForRows`, `TotalFitsPage` |
| `DeploymentInv` | `DeploymentProof` | `deployment` | `SchemaOfRevision`, `ServesItsSchema`, `TablesFound`, `OnlyKilledStop` |
| `ExchangeInv` | `ExchangeProof` | `exchange` | `UndocumentedIsCrash`, `AllowIsExact`, `ArgumentsArrive`, `AnswersParsed` |

Those of the core build on one another in this order: types, locks, decisions,
blobs, cache, jobs and budgets. Each proof has a case per action and, under it, a step per conjunct the
action can disturb; the helper lemmas say what an action does to a record, a
table, a bag or a sequence, once.

**Type correctness** (`LedgerProof`, first part). `TypeOK` is not inductive: a handler takes
fields of its call, a row it has loaded and an id it has been given for granted,
a task the kind of its message and what is left of its retry budget. `TypeInv`
adds exactly that (`Fits` for a request, `MessageFits` for a worker). The
retry counter staying in its range is the part a bug would break: a `>`
for the `>=` of `tasks.py` publishes a message outside its type. `TypeCorrect` is
the corollary for `TypeOK`.

**Locks** (`LedgerProof`, second part). That no locked row disappears needs every deletion to
hold what it deletes (`Keeps`), which needs the photo to be locked if there is
one when the DELETE runs, hence that a photo absent then does not appear before
the commit: ids are never reused, and nobody knows the id of an upload that has
not committed (`Knows`, `Apart`). A flag cannot be filed on a photo under deletion
because the INSERT needs the lock the deletion holds.

**Decisions and the ledger** (`LedgerProof`, last part). `DecisionStands`: what a moderator
was told is on record and stays so. That the flag is not pending afterwards rests on
`DecidedForGood` (a decided flag is never filed or opened again), the notice of a
dismissal on `DismissedTold`, and that the reporter hears of an action on
`InformsReporter`: whoever finds the flag not pending any more finds the notice of
the decision that came first. `NoteRowFound`: no job runs for a row that is not there.
`LedgerImplemented`: every step of `SnapTrack` is a step of `Ledger` or a stutter,
so all that the ledger promises holds of the implementation. The hard step is the
commit of an action decision. It must tell everyone whose pending flag it takes
away, though it selected the siblings earlier and without locks. The proof shows
why that is enough: `create_flag` loads the photo the way every owner's endpoint
does, so a photo has one flag at most, its owner's (`OwnersFlag`); no flag comes
while the action runs, and from the UPDATE on it holds what it tells (`TellsAll`,
`HoldsTold`).

**Files and the cache** (`JobProof`, first part). A row is committed after its blob and
deleted before it, so a visible photo has its original; the one exception is the
open action decision that removes files before it commits
(`ActionHasRemovedFiles`), and every statement about files names it. `ThumbSafe`
carries "the thumbnail was there" across the steps between a worker's write, its
commit and a request that serves the file. `CacheInv` replaces "some job or
deletion excuses this entry" by "one that is still going to invalidate it"
(`EntryDue`), which is what survives the end of that job, and `KeyDropped` says that
an action about to commit has left no entry that anybody read before it.

**Jobs** (`JobProof`, second part). `ThumbsDue` and `NotesDue` say of every unfinished row what
will still write it; a worker that only has its message to acknowledge does not
count. `SentOnce` needs that, without duplicates, each row has one job
(`OneJob`): it waits for dispatch, is queued, or is held by one worker.
`TriesCounted` relates the attempts of a row to the retries of its message, so
that a row given up has used its budget: `NoStrandedNote` rests on it.

**Budgets** (`JobProof`, last part). `MailsBounded` and `AttemptsBounded` bound a
counter by the number of crashes and redeliveries, so their invariant counts
messages. `MailsToCome` and `TriesToCome` collect, for a row or a photo, what its
jobs may still do: a pair of the place where the job is (a copy in the queue, a
worker, an upload about to publish) and the number of the try. `BudgetInv` says
that what has been done and what is to come add up to no more than the deliveries
account for. A step then does one of four things to such a set: it moves pairs to
another place (`Handing`), drops some (`Fewer`), spends one for what it writes
(`Spending`), or, for a crash or a redelivery, adds those of one more delivery
(`Granting`). Two tasks may run on one photo and each writes the attempts it
loaded plus one, so the bound is also carried for what a task has loaded
(`TriesBudgeted`).

**Connection pool** (`PoolProof`), for any number and kinds of requests, threads
and connections. `Accounted`: the limits hold, and a request that has ended keeps
nothing. `NoStall`: with fewer requests in flight than threads and connections
together someone can go on without a checkout timing out. If nobody could, every
thread would be held by a request waiting for a connection and every connection
by one waiting for a thread; these sets are disjoint, and `Counting` adds up their
sizes.

**Accounts** (`AccountsProof`). An id, once given, never stands for another
account: the sequence only moves forward, also over a rejected insert, and a
removed id does not come back (`Registrations`). Therefore what a login selected
still describes the account of that id if there is one (`Tokens`), and a token
leads back to a login with the address and password of whoever acts (`Holder`).

**Client objects** (`SdkClientProof`). An httpx client nobody handed on is used by
one object in one mode (`OneUser`), so nobody closes it under a `with` block. What
an object asks for next is in its dictionary and options now (`SettingsKept`),
although a copy may hold the same dictionary and write another token into it.

**Listings** (`ListingProof`), for any page size, number of rows, of writers and
of removals. The place of a row is the number of rows newer than it
(`Place`). Places are an injection onto `0..n-1`, which gives every row its
position in the sorted listing without an induction over it, so a page is the rows
whose place is in its window. A row that goes lets at most one other into the
part of the listing already walked, and a row that comes lets none in: `Misses`
carries "of the rows there all along, those missed are no more than those gone".
A row shown `t` times whose place is `d` places in front of the walk again owes
`t + d` insertions, but one (`Repeats`): each of them pushed it by one place.
`Totals` relates the total to what came and went between the count and the page.

**Deployment** (`DeploymentProof`), for any number of kills and restarts. What a
migration still has to run is a rest of the 19 statements up or the 16 down, and
what its transaction sees is the state the statements before have left
(`Underway`); one lemma per kind of statement shows that the next one fits it
(`UpFits`, `DownFits`): a table is made once and after those its keys refer to,
and goes once and before them. A commit may only overwrite the database it has
read. That nobody else changes it meanwhile rests on `depends_on`: the canary leaves
"created" only when the stable API is healthy, hence at the head (`CanaryAtHead`),
and at the head there is nothing to migrate, even for an API that was killed and
started again (`Settled`); the suite has its database to itself (`Alone`). The queue
holds only messages whose tables are there (`QueueServed`), and upgrades take no
table away.

**Surface and SDK** (`ExchangeProof`), for any sets of null fields, any variants
of a document and so lists of any length, with a crash possible anywhere. `ExchangeInv`
only says that each stage is the outcome of the one before; the work is in what
the two sides compute. `ServeCases` and `HandlerCases` list what any request can
be answered, well-formed or not, and `Said` compares that with the documented codes
of each of the 16 operations (`OnlyCrashesUndocumented`): what goes undocumented is the
500 of a handler that raised, never the answer of one that came to its end. `Routed` shows of each endpoint function that, of
the 19 routes, the one of its operation takes its request, although
`/photos/{photo_id}` and others match the same paths. `Written` and `Validated` carry an argument
through `to_dict` or the form and the request model. The way back is a round trip
by depth of nesting: `SchemasAgree` compares each of the 15 response classes field
by field with its SDK class, `Documents` says what the server writes of a field,
`Built` and `Dicts` what `from_dict` and `to_dict` make of it, and `FieldRound`
that the value is the same again if what it nests is. `RoundStep` lifts that from
fields to classes of a depth given those of the depth below, and `RoundTrip`
applies it three times. `Matching` relates the table of `_parse_response` to what
the server answers with each code. The decision endpoint alone parses
by trial, and `NotAFlag` shows why a moderation action fails the first one:
`reporter_id` is required and not in it.

**Model-checked only.** Liveness (`RequestsTerminate`, `ThumbnailsSettle`,
`NotesSettle`, `EveryRequestEnds`, `EveryApiServes`): fairness
and `ENABLED` are out of the prover's reach. So are induction over data and recursive
operators; the modules declare none. Every invariant and every action
property of the passing runs is a theorem.

## Where code and texts disagree

Two disagreements have a run with a counterexample, listed under `findings`:

* `twice` (`FlagDecidedOnce`): `docs/moderation-feature.md:49` makes a second decision
  on a flag a 409; two that overlap both pass the check, are both recorded and both
  notify.
* `stale_caption` (`NoStaleCaption`): `config.py:43-44` and ADR 0001 exclude staleness;
  a GET overtaken by a PATCH fills the cache with the old caption.

Eight more are stated in `Properties` in the words of the text they contradict. Each
has a configuration of its own beside the others, under which `tlc -config
<name>.cfg MC` prints the counterexample; `lost_note` uses `FairSpec`, the others need
no fairness.

| configuration | property | text | what happens |
|---|---|---|---|
| `untold` | `DecisionTellsReporter` | `README.md:171-173`: a decision writes the affected reporter a message | an action that had loaded the flag finds it dismissed when it selects the siblings: it tells nobody and removes the photo; the reporter was told that it stays |
| `vanished_photo` | `ActionFindsPhoto` | `moderation_service.py:119`: the photo is never `None` | the owner deleted it after the flag was loaded; 500 |
| `removed_cached` | `RemovedNotCached` | `docs/moderation-feature.md:60-62`: an action invalidates as `delete_photo` does | it does so before its commit: a GET in between caches the removed photo |
| `lost_delete` | `OutageOnlyMisses` | `README.md:46-49`: a Redis outage degrades to a cache miss | a delete that fails leaves a hit with the old row |
| `lost_note` | `CommittedNoteAttempted` | `notification_service.py:3-5`: the row is written in the transaction "so a notification is never lost to a crash between the DB commit and enqueueing the job" | such a crash leaves the row "pending" for good: nothing sweeps the outbox |
| `mail_dir` | `FailedMailRecorded` | `README.md:176-177`: a failure leaves the row "failed" and is retried | an `OSError` of the mail directory is neither recorded nor retried |
| `truncated` | `CorruptNotRetried` | `README.md:42-43`: a corrupt source goes straight to "failed" | a truncated image raises a plain `OSError`, which is retried |
| `stuck_thumbnail` | `ProcessingHasJob` | `README.md:44-45`: unexpected errors are retried and land in "failed" | an error of the job's last commit leaves "processing" |

Four are about the wording of the SDK; TLC refutes them when they are added to the
configuration named:

| definition | text | what happens | configuration |
|---|---|---|---|
| `UnexpectedOnlyIfUndocumented` | SDK `errors.py:5` | the two file endpoints know no 200, so the documented 200 raises `UnexpectedStatus` | `exchange` |
| `SyncOnlyIfSuccessful` | SDK `README.md:64` | `sync()` returns the parsed error body | `exchange` |
| `NoCaptionIsNone` | `body_upload_photo_photos_post.py:21` | a caption of `None` is sent and stored as the text "None" | `exchange` |
| `OriginalUntouched` | `client.py:183` | `with_headers` also changes the live httpx clients of the original | `client` |

`README.md:57-58` says that every status code an operation returns is listed. That
holds of every handler that comes to its end; input can still make one raise. An
over-long caption, file name or content type on upload fails the INSERT
(`models/photo.py:18-24`), a PNG with a bad checksum raises a `SyntaxError` that
`probe_image` does not catch (`images.py:21-25`), and a NUL in a text is refused by
the database driver. The model does not list such causes: `Crash` allows the 500
for any request of any operation but the probes, with or without one of them, and
an over-long caption on upload never succeeds.

Two more behaviours are modelled, contradict no text and are excepted by name from
the properties they would break: an action decision that fails after
`delete_photo_files` leaves the photo without its files (`ActionHasRemovedFiles`),
and an upload whose process dies, or whose broker refuses the job, after the commit
leaves the thumbnail "pending" (`NoStrandedThumbnail`). The first flag of a reporter
answers 409 if the photo has just gone (`FlagCommit`).

## Not modelled

Pixels, MIME types, hashing, signing, metrics, logging, message wording. What
`/readyz` reports of each dependency. The SQLite set-up of the unit tests. The
offline mode of Alembic, which prints SQL, and columns that carry neither index
nor key. The weighted split between stable and canary, Prometheus, Grafana and
the load tests: configuration of external programs. Leftover *thumbnails* of a
deleted photo (the worker recreates the directory) are in the model and under no
property. Wall-clock time is abstracted: a TTL is an expiry that may happen at
any moment, a retry delay is the queue, a pool timeout any wait.

## Plan

In the order of importance:

1. *(done)* The core with its properties and runs; `TypeInv` and `LockInv` proved.
2. *(done)* `Ledger` and its refinement; `Pool` with its proofs; `Accounts`,
   `Listing`, the surface and the SDK, migrations and deployment.
3. *(done)* The core's remaining invariants and the refinement of `Ledger`;
   `Accounts` and `SdkClient`; the two counting properties.
4. *(done)* `Listing` and `Deployment`.
5. *(done)* `Exchange`, with documents of bounded nesting instead of recursive ones.

An abstract specification of one notification's life was planned and given up:
`NoStrandedNote`, `SentNotMailedAgain`, `NoteJobHasRow` and `MailedWithinDeliveries`
already state each of its steps.
