------------------------------ MODULE Inventory ------------------------------
(***************************************************************************)
(* The store counts and their ledger: app/services/inventory_service.py,   *)
(* entered from the scan router, the manager's count correction and the    *)
(* receipt service.  A Session is one database session serving one request *)
(* at a time; sessions run concurrently in the server's thread pool.       *)
(*                                                                         *)
(* A session keeps an identity map: once it has loaded a StoreInventory    *)
(* row, a later query for the same row, locking or not, hands back the     *)
(* object with the attributes loaded first.  seen[s] is that cached        *)
(* current_count.  RowLocks says whether the database honours SELECT ...   *)
(* FOR UPDATE (Postgres) or the code skips the clause (SQLite).            *)
(***************************************************************************)
EXTENDS Integers, Sequences

CONSTANTS
  Session,      \* database sessions
  Item,         \* StoreInventory rows: one per store and product
  Quantity,     \* quantities a form or a shipment line may carry
  Target,       \* counts a manager may enter
  ReceiptKey,   \* idempotency keys of shipment and order lines
  RowLocks,     \* TRUE: Postgres, FALSE: SQLite
  MaxLedger,    \* no request starts once the ledger has this many rows
  None          \* no session, no key, nothing cached

ASSUME QuantityAssumption == Quantity \subseteq Int
ASSUME TargetAssumption == Target \subseteq Int
ASSUME RowLocksAssumption == RowLocks \in BOOLEAN
ASSUME NoneAssumption == None \notin Session \union Int

VARIABLES
  rows,      \* the items whose StoreInventory row exists
  count,     \* current_count of each item
  ledger,    \* the committed InventoryTransaction rows, in commit order
  expired,   \* ledger positions of the removals older than the undo window
  holder,    \* the session holding the row lock of an item
  pc,        \* how far the request of a session has come
  req,       \* the request a session is serving, or served last
  seen,      \* current_count in the identity map of a session
  reply,     \* what the last request of a session was told
  dangling   \* the sessions whose ledger row would refer to a deleted row

vars == <<rows, count, ledger, expired, holder, pc, req, seen, reply, dangling>>

Kind == {"STORE_REMOVAL", "SCAN_UNDO", "UNLEASHED_RECEIPT", "COUNT_ADJUSTMENT"}

\* Idempotency keys: "undo-removal:<id>" and the receipt service's "recv:...".
NoKey == [scope |-> "none", of |-> None]
UndoKey(r) == [scope |-> "undo-removal", of |-> r]
RecvKey(k) == [scope |-> "recv", of |-> k]
Key == [scope: {"none", "undo-removal", "recv"}, of: Nat \union ReceiptKey \union {None}]

Row == [item: Item, kind: Kind, delta: Int, before: Int, key: Key]
Request == [kind: Kind, item: Item, amount: Int, key: Key]

NoRequest == [kind |-> "none", item |-> None, amount |-> 0, key |-> NoKey]

KeyUsed(key) == key # NoKey /\ \E n \in DOMAIN ledger : ledger[n].key = key
Removals == {n \in DOMAIN ledger : ledger[n].kind = "STORE_REMOVAL"}

-----------------------------------------------------------------------------
\* Serving a request: from "idle", through "loaded" (undo only: the tag's row
\* is read, the removal not yet checked) and "ready" (about to take the row
\* lock) to "locked" (the ledger row is staged), and back to "idle".

Accept(s, phase, kind, i, amount, key, cached) ==
  /\ pc[s] = "idle"
  /\ Len(ledger) < MaxLedger
  /\ pc' = [pc EXCEPT ![s] = phase]
  /\ req' = [req EXCEPT ![s] = [kind |-> kind, item |-> i, amount |-> amount, key |-> key]]
  /\ seen' = [seen EXCEPT ![s] = cached]
  /\ reply' = [reply EXCEPT ![s] = "none"]
  /\ dangling' = dangling \ {s}
  /\ UNCHANGED <<rows, count, ledger, expired, holder>>

\* The end of a request: the transaction is over, so its row lock is gone and
\* the identity map with it.
Finish(s, answer) ==
  /\ pc' = [pc EXCEPT ![s] = "idle"]
  /\ seen' = [seen EXCEPT ![s] = None]
  /\ reply' = [reply EXCEPT ![s] = answer]
  /\ holder' = [i \in Item |-> IF holder[i] = s THEN None ELSE holder[i]]
  /\ UNCHANGED <<rows, expired, req, dangling>>

\* Variant: record_removal takes any quantity.
BeginRemovalUnchecked(s, i, q) ==
  /\ i \in rows
  /\ Accept(s, "ready", "STORE_REMOVAL", i, q, NoKey, count[i])

\* POST /scan/{tag} and /api/scan/{tag}: the router loads the row by its tag,
\* without a lock, and hands the object to record_removal.
BeginRemoval(s, i, q) ==
  /\ i \in rows
  /\ q > 0
  /\ Accept(s, "ready", "STORE_REMOVAL", i, q, NoKey, count[i])

\* POST /manager/inventory/adjust: the same, with the corrected count.
BeginAdjustment(s, i, c) ==
  /\ i \in rows
  /\ Accept(s, "ready", "COUNT_ADJUSTMENT", i, c, NoKey, count[i])

\* POST /scan/{tag}/undo: the signed token names a removal of the ledger; the
\* tag it is posted to may be any item's.
BeginUndo(s, i, r) ==
  /\ i \in rows
  /\ Accept(s, "loaded", "SCAN_UNDO", i, 0, UndoKey(r), count[i])

Undoable(i, r) ==
  /\ ledger[r].item = i
  /\ ledger[r].kind = "STORE_REMOVAL"
  /\ ledger[r].delta < 0
  /\ r \notin expired

\* undo_removal up to the lock: the checks, then the fast path on the key.
CheckUndo(s) ==
  LET i == req[s].item
      r == req[s].key.of
  IN /\ pc[s] = "loaded"
     /\ \/ /\ ~ Undoable(i, r)
           /\ Finish(s, "error")
           /\ UNCHANGED <<count, ledger>>
        \/ /\ Undoable(i, r)
           /\ KeyUsed(UndoKey(r))
           /\ Finish(s, "duplicate")
           /\ UNCHANGED <<count, ledger>>
        \/ /\ Undoable(i, r)
           /\ ~ KeyUsed(UndoKey(r))
           /\ pc' = [pc EXCEPT ![s] = "ready"]
           /\ req' = [req EXCEPT ![s] = [kind |-> "SCAN_UNDO", item |-> ledger[r].item,
                                         amount |-> - ledger[r].delta, key |-> UndoKey(r)]]
           /\ UNCHANGED <<rows, count, ledger, expired, holder, seen, reply, dangling>>

\* Variant: the caller loads the row before apply_receipt_line locks it.
BeginReceiptPreloaded(s, i, k, q) ==
  /\ q > 0
  /\ ~ KeyUsed(RecvKey(k))
  /\ Accept(s, "ready", "UNLEASHED_RECEIPT", i, q, RecvKey(k), count[i])

\* apply_receipt_line up to the lock: nothing is loaded yet, only the key is
\* looked up.  A key already in the ledger ends the request as a duplicate.
BeginReceipt(s, i, k, q) ==
  /\ q > 0
  /\ ~ KeyUsed(RecvKey(k))
  /\ Accept(s, "ready", "UNLEASHED_RECEIPT", i, q, RecvKey(k), None)

\* _lock_inventory: SELECT, with FOR UPDATE on Postgres.  The row is read now
\* only if the session has not loaded it before.
Lock(s) ==
  LET i == req[s].item
  IN /\ pc[s] = "ready"
     /\ i \in rows
     /\ RowLocks => holder[i] = None
     /\ pc' = [pc EXCEPT ![s] = "locked"]
     /\ seen' = [seen EXCEPT ![s] = IF @ = None THEN count[i] ELSE @]
     /\ holder' = IF RowLocks THEN [holder EXCEPT ![i] = s] ELSE holder
     /\ UNCHANGED <<rows, count, ledger, expired, req, reply, dangling>>

\* Variant: the missing row is taken for an item already handled.
LockMissingIgnored(s) ==
  /\ pc[s] = "ready"
  /\ req[s].item \notin rows
  /\ Finish(s, "duplicate")
  /\ UNCHANGED <<count, ledger>>

\* The row is gone: _lock_inventory finds none (InventoryError), or on SQLite
\* the UPDATE does not find the one that was "locked" (StaleDataError).
LockMissing(s) ==
  /\ pc[s] \in {"ready", "locked"}
  /\ req[s].item \notin rows
  /\ Finish(s, "error")
  /\ UNCHANGED <<count, ledger>>

\* Variant: undo_removal passes the removal's quantity_delta on without abs().
DeltaUndoUnsigned(kind, amount, before) ==
  CASE kind \in {"STORE_REMOVAL", "SCAN_UNDO"} -> - amount
    [] kind = "COUNT_ADJUSTMENT" -> amount - before
    [] OTHER -> amount

\* The quantity_delta that _apply records for each kind of movement.
Delta(kind, amount, before) ==
  CASE kind = "STORE_REMOVAL" -> - amount
    [] kind = "COUNT_ADJUSTMENT" -> amount - before
    [] OTHER -> amount

\* _apply and its flush: the ledger row is inserted, and current_count is
\* written if it differs from the value that was loaded.
Write(s) ==
  LET r == req[s]
      delta == Delta(r.kind, r.amount, seen[s])
  IN /\ ledger' = Append(ledger, [item |-> r.item, kind |-> r.kind, delta |-> delta,
                                  before |-> seen[s], key |-> r.key])
     /\ count' = IF delta # 0 THEN [count EXCEPT ![r.item] = seen[s] + delta] ELSE count

\* Variant: idempotency_key is not unique in the database.
CommitUnconstrained(s) ==
  /\ pc[s] = "locked"
  /\ req[s].item \in rows
  /\ s \notin dangling
  /\ Write(s)
  /\ Finish(s, "applied")

Commit(s) ==
  /\ pc[s] = "locked"
  /\ req[s].item \in rows
  /\ ~ KeyUsed(req[s].key)
  /\ s \notin dangling
  /\ Write(s)
  /\ Finish(s, "applied")

\* Variant: the IntegrityError is answered without a rollback, so the
\* transaction stays open and keeps its row lock.
CommitRejectedLeaking(s) ==
  /\ pc[s] = "locked"
  /\ KeyUsed(req[s].key) \/ s \in dangling
  /\ pc' = [pc EXCEPT ![s] = "idle"]
  /\ seen' = [seen EXCEPT ![s] = None]
  /\ reply' = [reply EXCEPT ![s] = IF req[s].key = NoKey THEN "error" ELSE "duplicate"]
  /\ UNCHANGED <<rows, count, ledger, expired, holder, req, dangling>>

\* A constraint fails the commit: the unique idempotency_key, or a foreign key
\* to a row deleted meanwhile.  undo_removal and apply_receipt_line roll back
\* and answer every IntegrityError as a duplicate, also when a second look at
\* the key finds nothing; the other two let it through as a server error.
CommitRejected(s) ==
  /\ pc[s] = "locked"
  /\ KeyUsed(req[s].key) \/ s \in dangling
  /\ Finish(s, IF req[s].key = NoKey THEN "error" ELSE "duplicate")
  /\ UNCHANGED <<count, ledger>>

\* The request dies before its commit (an exception, a lost connection, the
\* process killed): get_db closes the session and the database rolls back.
Abort(s) ==
  /\ pc[s] # "idle"
  /\ Finish(s, "error")
  /\ UNCHANGED <<count, ledger>>

-----------------------------------------------------------------------------
\* UNDO_WINDOW_MINUTES have passed since a removal.
Expire(r) ==
  /\ r \in Removals \ expired
  /\ expired' = expired \union {r}
  /\ UNCHANGED <<rows, count, ledger, holder, pc, req, seen, reply, dangling>>

\* What the ledger row of a session is to refer to is deleted: the user who
\* removed (undo_removal takes him from the removal it has loaded, however he
\* is deleted since), or the request line that is being received.  Until its
\* flush the session holds no lock on either.
Dangle(s) ==
  /\ pc[s] \in {"ready", "locked"}
  /\ s \notin dangling
  /\ dangling' = dangling \union {s}
  /\ UNCHANGED <<rows, count, ledger, expired, holder, pc, req, seen, reply>>

\* POST /admin/inventory/{id}/delete: the ledger keeps the item's history.  A
\* session that had loaded the row finds another row, or none, under the same
\* store and product when it locks; only SQLite may use a deleted row's id
\* again, and then the session takes the new row for the one it has loaded.
DeleteRow(i) ==
  /\ i \in rows
  /\ holder[i] = None
  /\ rows' = rows \ {i}
  /\ \/ seen' = [s \in Session |->
                  IF pc[s] # "locked" /\ req[s].item = i THEN None ELSE seen[s]]
     \/ ~ RowLocks /\ UNCHANGED seen
  /\ UNCHANGED <<count, ledger, expired, holder, pc, req, reply, dangling>>

\* POST /admin/inventory without an id, and the rows that backfill and import
\* add: the only count that is set without a ledger row.  A second row for the
\* store and product violates uq_store_product and changes nothing.
CreateRow(i, c) ==
  /\ i \notin rows
  /\ rows' = rows \union {i}
  /\ count' = [count EXCEPT ![i] = c]
  /\ UNCHANGED <<ledger, expired, holder, pc, req, seen, reply, dangling>>

Init ==
  /\ rows = Item
  /\ count \in [Item -> Target]
  /\ ledger = <<>>
  /\ expired = {}
  /\ holder = [i \in Item |-> None]
  /\ pc = [s \in Session |-> "idle"]
  /\ req = [s \in Session |-> NoRequest]
  /\ seen = [s \in Session |-> None]
  /\ reply = [s \in Session |-> "none"]
  /\ dangling = {}

Begin(s) ==
  \/ \E i \in Item, q \in Quantity : BeginRemoval(s, i, q)
  \/ \E i \in Item, c \in Target : BeginAdjustment(s, i, c)
  \/ \E i \in Item, r \in Removals : BeginUndo(s, i, r)
  \/ \E i \in Item, k \in ReceiptKey, q \in Quantity : BeginReceipt(s, i, k, q)

Proceed(s) ==
  CheckUndo(s) \/ Lock(s) \/ LockMissing(s) \/ Commit(s) \/ CommitRejected(s)

Next ==
  \/ \E s \in Session : Begin(s) \/ Proceed(s) \/ Abort(s) \/ Dangle(s)
  \/ \E r \in Removals : Expire(r)
  \/ \E i \in Item : DeleteRow(i) \/ \E c \in Target : CreateRow(i, c)

\* A request that was accepted runs to its end: its thread is scheduled, and
\* Postgres queues the waiters for a row lock, so a lock that is free again
\* and again is obtained (strong fairness).
Fairness == \A s \in Session : WF_vars(Proceed(s)) /\ SF_vars(Lock(s))

Spec == Init /\ [][Next]_vars
FairSpec == Spec /\ Fairness
-----------------------------------------------------------------------------
\* inventory_service.py:7: removals decrease the count; receipts, and the undos
\* of removals, increase it.
MovesAsItsKind(row) ==
  /\ row.kind = "STORE_REMOVAL" => row.delta < 0
  /\ row.kind \in {"SCAN_UNDO", "UNLEASHED_RECEIPT"} => row.delta > 0

\* The module's type invariant: also, every ledger row moves the count in the
\* direction of its kind.
TypeOK ==
  /\ rows \subseteq Item
  /\ count \in [Item -> Int]
  /\ ledger \in Seq(Row)
  /\ \A n \in DOMAIN ledger : MovesAsItsKind(ledger[n])
  /\ expired \subseteq Removals
  /\ holder \in [Item -> Session \union {None}]
  /\ pc \in [Session -> {"idle", "loaded", "ready", "locked"}]
  /\ req \in [Session -> Request \union {NoRequest}]
  /\ seen \in [Session -> Int \union {None}]
  /\ reply \in [Session -> {"none", "applied", "duplicate", "error"}]
  /\ dangling \subseteq Session

\* An idempotency key stands on at most one ledger row: however many webhooks,
\* polls and taps race past the fast path, a shipped line is received once and
\* a removal is undone once (models.py:94, inventory_service.py:148).
KeysUnique ==
  \A m, n \in DOMAIN ledger :
    ledger[m].key = ledger[n].key /\ ledger[m].key # NoKey => m = n

\* The step that commits an undo reverses one removal: its ledger row carries
\* that removal's key, item and quantity, whichever tag the undo was posted to,
\* and when the count has not moved since the undo loaded it, the count goes up
\* by what the removal took (undo_removal).  A count that did move is written
\* over, as RemovalsDecreaseTheCount shows of removals.
GivesBack ==
  \A n \in DOMAIN ledger' \ DOMAIN ledger :
    LET undo == ledger'[n]
    IN undo.kind = "SCAN_UNDO" =>
         \E r \in Removals :
           /\ undo.key = UndoKey(r)
           /\ undo.item = ledger[r].item
           /\ undo.delta = - ledger[r].delta
           /\ undo.before = count[undo.item] =>
                count'[undo.item] = count[undo.item] - ledger[r].delta

UndoGivesBack == [][GivesBack]_vars

\* A keyed request told "applied" finds its movement committed, and so does one
\* told "duplicate" (the scan page shows "Undone", the receipt path counts the
\* line as skipped) as long as what its row refers to is still there.  When it
\* is not, the code says "duplicate" of a movement that nobody committed.
AcknowledgedIsCommitted ==
  \A s \in Session :
    /\ reply[s] = "applied" \/ (reply[s] = "duplicate" /\ s \notin dangling)
    /\ req[s].key # NoKey
    => KeyUsed(req[s].key)

\* The part of the ledger the receipt service relies on, and its promise.
ReceivedLines ==
  {[key |-> ledger[n].key.of, item |-> ledger[n].item, quantity |-> ledger[n].delta] :
     n \in {m \in DOMAIN ledger : ledger[m].kind = "UNLEASHED_RECEIPT"}}

Promise == INSTANCE KeyedReceipts WITH received <- ReceivedLines

\* With row locks, and whatever else runs at the same time, the ledger keeps
\* the promise of exact, at-most-once receipts.
KeepsReceiptPromise == Promise!Spec

\* Every accepted request is answered: no row lock outlives its transaction
\* and no session waits on a lock for ever.
EveryRequestAnswered == \A s \in Session : pc[s] # "idle" ~> pc[s] = "idle"

\* inventory_service.py:7, "Employee removals decrease the count": the step
\* that commits a removal leaves the item with less than it had.
RemovalsDecreaseTheCount ==
  [][\A n \in DOMAIN ledger' \ DOMAIN ledger :
       ledger'[n].kind = "STORE_REMOVAL" =>
         count'[ledger'[n].item] < count[ledger'[n].item]]_vars
=============================================================================
