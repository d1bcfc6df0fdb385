# Café inventory and replenishment: a TLA+ verification

Specifications of the café inventory program (FastAPI, SQLAlchemy, Postgres or
SQLite, the Unleashed API), model-checked with TLC and, where a theorem is
given, proved with TLAPS for every value of the constants. Paths below are
those of the repository; every definition that models code is listed with its
lines in `PROJECT.json` under `map`.

## 1. Inventory of the system

| Part | State | Operations | Hard behaviour | What makes it correct |
|---|---|---|---|---|
| Counts and ledger (`services/inventory_service.py`, `routers/scan.py`) | `StoreInventory.current_count`, `InventoryTransaction` rows with a unique `idempotency_key` | removal, undo, correction, receipt of a line, audit rows; creation and deletion of a row by an administrator | requests run in a thread pool, each with its own session; row locks exist on Postgres only; a session's identity map keeps values loaded before the lock | keyed movements happen once; an undo reverses its removal; receipts add exactly what was shipped; nothing acknowledged is lost; removals are not overwritten |
| Receipt (`services/receipt_service.py`) | `DailyRequest.status`, line roll-ups, ledger rows | `process_completion`: fetch, detect, resolve lines, apply each, recompute | runs from poller, webhook and button at once; every line commits by itself; crash and retry; checks before a network call, writes after it | RECEIVED only when covered, never more than shipped, received in the end |
| Polling (`services/sync_service.py`, `scheduler.py`) | none of its own | sweep over open requests | must repair whatever the others leave | liveness of receipts |
| Webhooks (`services/webhook_service.py`, `routers/webhooks.py`) | `WebhookEvent` | insert, de-duplicate, process, mark | lost, repeated and concurrent notifications; an event is marked PROCESSED whatever the outcome, ERROR if the handler raised | never harmful; the poller does not depend on it |
| Daily requests (`services/request_service.py`, `routers/manager.py`, `routers/warehouse.py`) | `DailyRequest`, `DailyRequestLine`, order Guid | generate, override, cancel, submit, retry | the Guid is committed before the POST, the outcome after it; anything may commit in between; answers are lost | one order per request, found under its Guid |
| Auto-submit (`services/auto_submit_service.py`) | none of its own | end-of-day sweep | races with managers, failures left for the next day | does not order twice |
| Scheduler and settings (`scheduler.py`, `services/settings_service.py`) | settings rows; the jobs in the memory of the process | save, read back, replace the job, fire, start | the rows are committed before the job is changed; crashes between; two saves at once; missed fire times | the job is the one the settings ask for; a process left alone sweeps every day |
| Unleashed (`integrations/unleashed.py`) | Sales Orders, shipments | upsert on Guid, read order, read shipments | external; a failed call may have succeeded | (assumed) |
| Users (`routers/admin.py`, `routers/auth.py`, `security.py`) | users | save, delete | the last-admin guard checks, then acts | an active administrator remains; names go from the history only when that was confirmed |
| Stores, products, items (`routers/admin.py`) | the tables that refer to one another | save, delete, purge, assign | a purge of several statements while stores record; foreign keys decide at the commit | no orphans; history goes only when that was confirmed |
| Product import, seeding (`services/product_import.py`, `scripts/seed.py`) | products, items | CSV upsert, missing rows, seed at startup | pending rows are invisible to queries (autoflush off) | tags unique, an assignment leaves no gap |
| Attention banner (`services/attention_service.py`) | none | one query | | stuck requests are shown |

How they interact. The receipt service changes counts only through
`apply_receipt_line`; everything else it shares with managers and the
submission are columns of `DailyRequest`. Poller, webhook handler and
warehouse button all call `process_completion`. The auto-submit job and the
manager both call `generate_daily_request` and `submit_to_unleashed`. There are
no locks other than the row lock of `_lock_inventory`; between any two commits
of one session any other session may run.

The webhook endpoint is `async def` and calls blocking code, so one webhook is
handled at a time (`Deliver` waits for the others); the other endpoints run in
the thread pool; scheduled jobs have `max_instances=1`. The administration pages are
ordinary requests of the thread pool too, each with a session of its own. A process is restarted
from the database alone.

### The database session

What the models take from SQLAlchemy and the databases, because the code
depends on it:

- a row already in a session's identity map is not refreshed by a later query,
  `FOR UPDATE` or not (`seen`, `cache`, `lineCache`, `view` are what a session
  has loaded); commit and rollback expire everything;
- an UPDATE writes only the columns whose value differs from the loaded one, so
  writing back what one believes to be there writes nothing;
- a unique violation surfaces at the commit; an UPDATE of a deleted row raises;
  a second DELETE of a row does not; an audit row naming a deleted line
  violates its foreign key (enforced on SQLite too, `database.py:28-35`);
- on SQLite `FOR UPDATE` is skipped (`inventory_service.py:60`), and reading
  does not take the write lock.

## 2. The modules

| Module | Models | Shape |
|---|---|---|
| `KeyedReceipts` | what `apply_receipt_line` promises its callers | abstract: `Receive` a new key exactly, or some other movement of one item |
| `Inventory` | `inventory_service` and its entry points | `pc[s]` is how far the request of session `s` is: `Begin...` is the router's load, `CheckUndo` the checks of an undo, `Lock` is `_lock_inventory`, `Commit` is `_apply` with the commit, `CommitRejected` the `IntegrityError` of that commit, `Abort` any other exception or a crash; `Dangle` is the deletion of what the ledger row is to refer to |
| `Inventory_proofs` | | the inductive invariant and the theorems |
| `Receipt` | `process_completion` for one submitted request, its three callers, cancellation | one step per database or network operation; applying a line is `KeyedReceipts!Receive` |
| `Receipt_proofs` | | the inductive invariant, totals over the ledger, the theorems, the step refinement of `KeyedReceipts` |
| `Submission` | requests of one store up to the order: generate, override, cancel, submit, sweep | one step per load, commit and POST |
| `Submission_proofs` | | the inductive invariant and the theorems |
| `Catalogue` | stores, products, items, ledger, requests, lines and users as tables with their foreign and unique keys; deletion with purge, import and assignment, seeding; what stores and warehouse do to these rows | an administrator's request is several steps (`BeginDelete`, `PurgeLedger`, `PurgeLines`, `CommitDelete`; `BeginSave`, `FlushProduct`, `BeginImport` or `BeginBackfill`, then `CommitPlan`), everybody else commits at once (`Work`) |
| `Catalogue_proofs` | | the inductive invariants and the theorems about references, keys, history and undisturbed requests |
| `Administration` | `users_save`, `users_delete` and the guard of `require_roles` | `op[r]` is what request `r` has loaded and is to write; check and commit are two steps |
| `Administration_proofs` | | an administrator remains, history names existing users, a name goes from it only in a confirmed deletion |
| `Schedule` | the auto-submit job and its settings: save, read back, change of the job, fire, stop, start | a clock of a few hours; APScheduler is external |
| `Schedule_proofs` | | the job follows the settings, a save saves the form |
| `MC...` | | instances for TLC |

`Inventory` is shown to implement `KeyedReceipts` (refinement: the received
lines are the UNLEASHED_RECEIPT rows of the ledger), and `Receipt` is built on
`KeyedReceipts` instead of on `Inventory`: that is the composition, and it is
proved from both sides (`ReceiptPromiseKept`, `ReceivesAsPromised`).

Abstractions. Quantities are integers (the code has floats; nothing here
depends on fractions or rounding). Tokens, tags, employees, notes, log lines
and pages are left out; a tag is the item it points at. Ids and keys are
abstract values: an undo key carries the ledger position of its removal, a
receipt key is a model value. Ids of deleted rows are not used again, as on
Postgres. `UNDO_WINDOW_MINUTES` is the action `Expire`,
which may make any removal too old at any moment. In `Receipt` each line is a
product that the store keeps, `CompleteOrder` and `RecordShipment` are
Unleashed's operators, and a duplicate webhook delivery changes nothing and is
no action. Failures that the database or a missing product can cause inside the
`try` of `process_completion` are `ApplyFail`. In `Submission` there is one
product, and stock is abstracted to what generation may suggest; a store that
is purged is the matter of `Catalogue`, and a receipt whose request line is
purged under it does not occur in `Receipt`.

The code answers "duplicate" to every `IntegrityError` of an undo or a receipt
(`inventory_service.py:185-197,280-294`). Its comments explain that by a race
for the key (`:186`, `:281`), but a foreign key can fail as well: an undo
carries the employee of the removal it has loaded, and an administrator may
have deleted that user since (`users_delete` clears the name in the ledger, not
in the session); a receipt names a request line that may be gone. Then
"duplicate" is said of a movement that nobody committed. `Inventory` has this
answer (`Dangle`, `CommitRejected`), and AcknowledgedIsCommitted excepts it.
Whatever deletes the row, `Dangle` may happen to any session until its commit.

`Submission` takes Unleashed to answer a POST with the Guid that was posted. The
code stores the Guid of the answer (`request_service.py:278-279`); with another
one OrdersAreKnown would be about that assumption and not about the code.
`Schedule` takes Unleashed to be configured: without credentials there is no
scheduler (`scheduler.py:61`), and `up` stands for `_scheduler is not None`.

`Catalogue` tells rows apart by what they refer to. A store has one request,
which is a draft (the editable statuses), sent or absent; a cancelled one is not
told from one that was sent, since both only count as history. Names, par
levels, prices, the active flags of stores and products and renamed codes are
left out: no foreign key looks at them. `SaveItem`
covers creating an item and editing one. What stores do is one atomic step
each, because its own races are those of the other modules; the steps of the
administrators, which this module is about, are not. A row that an open purge
has deleted blocks whoever would update it or refer to it (`Untouched`), as the
database's locks do. `Administration` leaves out passwords and the login:
`require_roles` reads the account afresh with every request. In `Schedule` the
time zone is part of the time, an hour stands for the job's
`misfire_grace_time`, and the scheduler's thread is never an hour late
(`Tick` waits for a due job); that the sweep takes time is left to
`Submission`, whose `Sweep` is what `Fire` starts. Definitions
marked "Variant" are deliberate mistakes: each property is refuted when one of
them replaces the definition it precedes, so no property holds vacuously.

## 3. Runs

| Run | Bounds | Shows |
|---|---|---|
| `InventoryPostgres` | 2 sessions, 2 items, 1 receipt key, amounts {0,1}, new rows up to 2 (+ those under way) | TypeOK (every row moves the count in its kind's direction), KeysUnique, UndoGivesBack, AcknowledgedIsCommitted, the refinement KeepsReceiptPromise and EveryRequestAnswered with row locks |
| `InventoryRemoval` | as `InventoryPostgres` | **refuted**: RemovalsDecreaseTheCount |
| `Receipt` | 2 lines, one shipment line each, poller and one webhook, all three combinations of the settings that differ, 1 crash or database failure, any number of failed queries | TypeOK, ReceivedIsCovered, EventuallyReceived under each setting, NeverMoreThanShipped where shipments alone count |
| `ReceiptDoubleAdd` | default settings, poller and webhook | **refuted**: NeverDoubleAdded |
| `ReceiptCancelled` | default settings, poller and webhook | **refuted**: CancelledIsFinal |
| `Submission` | 1 manager and the job, 2 days, 2 requests, 2 lines ever, suggestion 0 or 1, override 2 | TypeOK, OrdersAreKnown, SubmittedIsOrdered when no two first submissions overlap |
| `SubmissionTwice` | 2 managers and the job, overlap allowed | **refuted**: OneOrderPerRequest |
| `SubmissionNextDay` | the job alone, 2 days | **refuted**: RetriedUnderOneGuid |
| `Catalogue` | 2 stores, 2 products, 1 user, 2 administrators (symmetric), tags of which two places share one, 4 databases to begin with, no request begun after 2 commits | TypeOK (no orphans, unique tags), HistoryGoesConfirmed, UndisturbedSucceeds, AssignmentComplete |
| `Schedule` | 2 administrators' requests, a day of 2 hours, any crashes | TypeOK, JobMatchesSettings, SavedAsAsked, SweptDaily |
| `ScheduleRestart` | the same | **refuted**: RestartStillRuns |
| `Administration` | 3 users, 2 roles, 2 requests, users and requests symmetric; every assignment of accounts with an administrator to begin with | TypeOK (history names existing users), AdminRemains, HistoryForgottenConfirmed |

Why the bounds are enough to be interesting. Two sessions suffice for every
pairwise race of the inventory; two items let an undo be posted to the wrong
tag and let a lock on one item coexist with work on another; a ledger of two
rows, which concurrent sessions may overrun by one, holds a removal with its
undo and a racing second undo or receipt. In `Receipt` a partial receipt needs
two lines; the Sales Order of the first asks for more than the request
(`MCOrdered`), so order lines and shipments differ. Two days and two requests
let a failed request meet its successor, and a second draft of the day meet the
first. `Submission`'s two lines over a behaviour are one regeneration.
`Catalogue`'s two commits are those that come between the steps of a purge
(the purge's own commit may follow them); its start databases are an empty one, one
without items, one whose store has history, and a draft that was overridden.
Its tag is shared as "A" with "B-C" and "A-B" with "C" share "A-B-C". Two hours
let a job be due now, later, and again tomorrow. Three users are two
administrators that delete each other and one more. The clock of `Schedule`
never stops and its run checks deadlock too; the other
instances come to rest when their bounds are used up, their request is received
or cancelled, or nobody active is left, and do not.

The webhook stands for the warehouse button in `Receipt`: both begin
`process_completion` in the same states; `ReceiptCancelled` has the button
instead. SQLite, where rows are not
locked, has no run of its own: TypeOK and the three properties that rest on the
unique key are proved for both databases, and `KeepsReceiptPromise` is claimed
with locks only.

Some properties are weaker than a reader may wish, because the code does not
keep the stronger one. Each proviso is written into the property and names what
the code does there.

- `UndoGivesBack`: the ledger row of an undo reverses its removal always; the
  count rises by the quantity when it has not moved since the undo loaded it. A
  count that has moved is written over, as by removals (the router loads the row,
  then `undo_removal` locks it).
- `AcknowledgedIsCommitted`: with the exception of "duplicate" described above.
- `UndisturbedSucceeds`: an administrator whose request nobody's commit came
  between gets no error, but for three faults. `products_save` flushes ahead of
  its `try` when the product goes to every store (`admin.py:209`), so that a code
  in use is a server error and not the message at `:216`. A receipt of a
  substitute names the line of the product it stands in for; the purge of that
  product deletes its own ledger rows only and fails on the line
  (`admin.py:274`). Two rows of one import may share a tag, since the check for
  taken tags does not see the rows pending in its own session
  (`product_import.py:44`); the docstring (`:32-33`) has such a tag left blank.
  Each is excused at its own step and with its own cause.
- `AdminRemains`: as long as no two requests that change users overlap.
  Overlapping ones can remove each other's administrator and lock everybody out.
- `JobMatchesSettings`: as long as no two changes have overlapped since the
  process started; otherwise the job may be that of the change that was saved
  first.

A stale form is accepted everywhere: a user page opened before another
administrator deactivated the user activates the user again when it is posted
(`admin.py:511`). The models have this behaviour, and nothing in the repository
promises another.

### What the refuted properties say

- **RemovalsDecreaseTheCount** (`inventory_service.py:7`). The router loads the
  item, then `record_removal` locks it; the locking query returns the object
  loaded before. Session A loads 2, session B loads 2, A removes 1 and commits,
  B obtains the lock, still sees 2 and writes 1. The ledger holds two removals,
  the count fell once. Undo and correction load the row the same way. Receipts
  do not, and keep their promise on Postgres.
- **NeverDoubleAdded** (`README.md:123`, `receipt_service.py:11`). Completed
  before its shipments are recorded, an order is received from its order lines;
  if the request is then still open, its shipments are added as well.
- **CancelledIsFinal** (`request_service.py:152`, `enums.py:35`). A receipt that
  loaded the request before the cancellation writes its own status over it.
- **OneOrderPerRequest** (`request_service.py:239`). Two first submissions that
  overlap each commit a Guid and post under it.
- **RetriedUnderOneGuid** (`auto_submit_service.py:13`). The sweep of the next
  day never looks at the failed request of the day before.
- **RestartStillRuns** (`scheduler.py:52`). The job store is in memory, and at
  startup the job is planned for the next fire time after now; the grace time
  can help only a process that was running. A restart near the fire time skips
  the day.

### Fairness

`Inventory`: a request whose next step is enabled takes it (its thread is
scheduled: weak fairness of `Proceed`), and a row lock that is free again and
again is obtained (Postgres queues the waiters: strong fairness of `Lock`).
Nobody has to start a request, and nobody has to fail.

`Receipt`: only the polling job is assumed to run (`scheduler.py:75`; APScheduler
starts it again after each interval), and Unleashed to answer it infinitely
often if it is asked infinitely often (strong fairness of `Detect` and
`Resolve`, which compete with `GiveUp` and `ShipmentsFail`). Nothing is assumed
of webhooks, the button or the manager. `EventuallyReceived` therefore also
says that a lost or wasted webhook does no lasting harm; without the poller
there would be nothing to repair it.

`Schedule`: time passes, the scheduler's thread runs a due job, and a request
that was accepted is carried out (weak fairness of `Tick`, `Fire` and
`Proceed`). Nobody has to save settings, and a process that is down need not be
started again. `SweptDaily` therefore speaks of a process that from some time on
stays up with the job switched on and its settings left alone.

`Submission`, `Catalogue` and `Administration` state no fairness and no
liveness: nothing in the code repeats a submission or an administrator's
request by itself.

## 4. Proofs

The theorems hold for every value of the constants that the named assumptions of
the modules allow: quantities are integers (in `Receipt`, natural numbers:
Unleashed neither orders nor ships a negative quantity, and lines of quantity
zero are skipped, `receipt_service.py:71,101`),
bounds are natural numbers, `None` is none of the values it is told from, and
the databases a behaviour of `Catalogue` begins with are consistent
(`StartAssumption`: an inconsistent one could not have been written past the
keys). TLC evaluates all of them in the runs. Nothing is assumed finite that the
code does not make finite: the ledger and the recorded shipments are proved
finite, since each step adds one row.

| Module | Theorem | States |
|---|---|---|
| `Inventory_proofs` | `Invariance` | `Spec => []IInv` |
| | `TypeCorrect`, `MovementsOnce`, `UndosExact`, `RepliesTrue` | TypeOK, KeysUnique, UndoGivesBack, AcknowledgedIsCommitted, with and without row locks |
| | `ReceiptPromiseKept` | `RowLocks` implies `Spec => KeepsReceiptPromise` |
| `Submission_proofs` | `Invariance` | `Spec => []IInv` |
| | `TypeCorrect` | TypeOK, whether or not submissions overlap |
| | `OrdersKnown`, `SubmittedOrdered` | `~ Overlap` implies OrdersAreKnown and SubmittedIsOrdered |
| | `OneOrder` | `~ Overlap` implies OneOrderPerRequest, which the run without the proviso refutes |
| `Receipt_proofs` | `Invariance`, `TypeCorrect` | `Spec => []IInv`, TypeOK |
| | `ReceivedCovered`, `NotMoreThanShipped` | ReceivedIsCovered, NeverMoreThanShipped |
| | `ReceivesAsPromised` | `Spec => Store!Spec`: Receipt implements `KeyedReceipts` |
| | `DoubleAddedByFallbackOnly` | NeverDoubleAdded, unless shipments are used with the fallback to order lines |
| `Catalogue_proofs` | `Invariance` | `Spec => []IInv` |
| | `TypeCorrect` | TypeOK: the references between the tables and the unique keys |
| | `HistoryConfirmed`, `UndisturbedOk`, `AssignmentsComplete` | HistoryGoesConfirmed, UndisturbedSucceeds, AssignmentComplete |
| `Administration_proofs` | `Invariance`, `TypeCorrect` | `Spec => []IInv`, TypeOK |
| | `AdministratorRemains`, `NamesGoConfirmed` | AdminRemains, HistoryForgottenConfirmed |
| `Schedule_proofs` | `Invariance`, `TypeCorrect` | `Spec => []IInv`, TypeOK |
| | `JobFollowsSettings`, `SavedForm` | JobMatchesSettings, SavedAsAsked |

`Inventory`. The invariants are not inductive alone. `IInv` adds: a request under way has
the kind and key its operation gives it and an undo past its checks names a
removal of its item and amount (`RequestsFormed`), without which the row that
`Commit` appends need not reverse it (UndoGivesBack); a session holds the lock of an
item exactly while it is about to commit a movement of it (`LocksHeld`); and a
receipt holding the lock has in its identity map the count of the moment
(`ReceiptsFresh`). The last is where the row lock is used: while one session
holds it no other can commit a movement of the item, and a receipt, unlike a
removal, loads the row only with the lock. `ReceiptPromiseKept` follows: a
commit of a receipt adds exactly its quantity, any other commit is the
abstract's other movement, and every other step leaves counts and receipts
alone (`CommitKeepsPromise`, `OtherStepsKeepPromise`).

`Submission`. `Formed` says that rows, orders and views are well-formed, that a
session past its first step has loaded an existing request, and that a
submission past the commit of its Guid finds one in the row: no later step takes
it away. The two safety properties need `Safe` besides: the Guid a submission
has loaded is the one stored (`Current`), an answered submission has its order
(`Ordered`), and two submissions of one request find its Guid stored (`Alone`).
`Alone` is what the proviso `~ Overlap` buys: the commit of a new Guid meets no
other submission of the request, hence no view of another Guid and, by
OrdersAreKnown itself, no order of it. With overlapping first submissions
`CommitGuid` breaks `Current`, which is the run `SubmissionTwice`. Most other
steps leave Guids and orders alone and are covered by one lemma, `SafeAside`.
`OneOrder` follows from OrdersAreKnown: two orders of a request would both be
under its one stored Guid.

`Receipt`. A total over the ledger is the number of its units (`Total` is the
cardinality of the set of pairs of a row and a number up to its quantity), not a
recursive sum: that a total grows when its terms do is then an injection between
sets of units (`TotalGrows`), and no induction is needed. The hazard is that a
worker writes what it read earlier: `RECEIVED` is decided on totals that other
workers have added to since. `SumsCurrent` says what survives that: totals that
a worker has read never exceed the ledger's, because rows are only added. A
decision on them is therefore safe though it may be late, which is
ReceivedIsCovered. `FromOneSource` says where rows come from: with shipments
only, each row and each line that a worker has resolved and not yet applied is
a recorded shipment, under its key. Distinct rows have distinct keys, so the rows
of a line map injectively to its shipments (NeverMoreThanShipped). Without
shipments each is an order line, so that of the four combinations of the
settings one can add twice. `ReceivesAsPromised`: `Apply` of a key is
`KeyedReceipts!Receive`, every other step leaves the stock alone; with
`ReceiptPromiseKept` the chain from `process_completion` to row locks is closed
on Postgres.

`Catalogue`. The references hold because the keys decide at each commit, and the
proof shows where that is not enough: what a transaction deletes is chosen by
earlier statements, and stores commit in between. `PurgeSound` says of every
purge, raced or not, that what it has deleted belongs to its target, that
history is among it only if that was confirmed (HistoryGoesConfirmed), and that
no ledger row that stays names a line that goes; a row that a store adds
later is kept out of the deleted ones (`RecordKeeps`), and a row that names a deleted
line cannot be added because its writer waits (`Untouched`). Without the
last part the commit could leave a row whose line is gone. `Undisturbed` speaks
of requests nobody's commit came between: for these what the transaction has
read is all there is (`PurgeCurrent`: nothing of the target is left behind a
finished statement; `PlanCurrent`: what is planned is missing, what is not planned is
there), hence no key is broken at the commit. Each commit of somebody else
marks the requests under way as raced (`OthersCommitKeeps`), so these parts
have to be kept by a request's own steps only. UndisturbedSucceeds needs its
exceptions at `FlushProduct`, `PurgeLines` and the `CommitPlan` of an import, and
nowhere else: the rows planned for one product or for one store have tags of
their own (`PlannedTags`). The unique keys are
proved with an invariant of their own, `Unique`: a plan has one row for a
place.

`Administration`. As long as no two requests have been under way together, what
the one under way has loaded is what is stored, and the other administrator that
its check has found is still there (`ChecksHold`); the commit then leaves one.
TypeOK and HistoryForgottenConfirmed hold of overlapping requests too.
`NamesExist` (history names existing users) holds because the commit of a
deletion is checked against the history of that moment; a name goes only where
the deletion had found the history, and `WellFormed` has it that such a deletion
was confirmed.

`Schedule`. The job is behind the settings only while a request is past its
commit, and what such a request has read back is what is saved (`JobFollows`);
a crash takes the request and the job together, and a start makes the job from
the rows. A save writes the rows that differ from those it has loaded;
`FreshView` says that these are the rows of the database unless another save
came between, hence SavedAsAsked.

Only model-checked: the liveness properties EventuallyReceived,
EveryRequestAnswered and SweptDaily, because fairness and ENABLED are beyond the
prover. Every invariant and every action property of a passing run is proved.
The refuted properties have counterexamples, which need no proof; NeverDoubleAdded
and OneOrderPerRequest are proved under the hypothesis that their runs drop.

## 5. Plan and what is left

Order of work: the counts (everything else relies on them), receipts (the only
writer that retries), submissions, then the tables and their administration,
the users, the schedule; then the proofs in the same order. That is done. Left,
in order of worth:

1. An abstract life cycle of a request (a draft, an order, a receipt) that
   `Submission` and `Receipt` both implement, so that what the one leaves is
   where the other begins.
2. A sequential refinement: with one session, `Inventory` implements an atomic
   ledger whose count is the start count plus the sum of its rows.
3. `Submission` and `Receipt` composed over `KeyedReceipts` and several stores:
   an override during the POST, the sweep aborted by one store, shipments beyond
   the request.
4. `Receipt` with two shipments of one line and three workers: stale roll-ups.

### Not modelled

- The attention banner (`attention_service.py`): one query, no state.
- Pages, templates, static files, configuration (`templating.py`, `main.py`,
  `config.py`, `scan.js`): no state another part depends on.
- Signing of requests and of webhooks, paging and parsing of answers: pure
  functions of formats; their failures are the failed calls of `Submission` and
  `Receipt`.
- CSV parsing of the import: it comes to a set of products. `generate_tags.py`
  only prints.
- Par levels, bulk par entry and renamed codes, active flags of stores and
  products: single-row writes that nothing checked here reads.
- Passwords, sessions and login.
