------------------------------ MODULE Catalogue ------------------------------
(***************************************************************************)
(* The tables that refer to one another -- stores, products, the stores'   *)
(* items, the ledger, the daily requests with their lines, the users --    *)
(* and the administrators who set them up and delete from them             *)
(* (routers/admin.py, services/product_import.py, scripts/seed.py), while  *)
(* stores and the warehouse go on working.                                 *)
(*                                                                         *)
(* An administrator's request is a transaction of several statements:      *)
(* purge[a] is what a's transaction has read and deleted so far and plan[a]*)
(* what it is about to insert.  Nothing of either is visible to others     *)
(* before the commit, where the foreign keys and the unique keys decide.   *)
(* A row is named by what it refers to: an item by its store and product,  *)
(* a request by its store, a request line by its request's store and its   *)
(* product, a ledger row by its store, its product and the product of the  *)
(* request line it names.                                                  *)
(***************************************************************************)
EXTENDS Naturals

CONSTANTS
  Store,
  Product,
  User,
  Admin,         \* administrators' requests under way
  Tag,
  TagOf,         \* "{store_code}-{product_code}"
  SeedPlace,     \* the items of scripts/seed.py
  Start,         \* the databases a behaviour may begin with
  MaxCommits,    \* commits after which nobody begins anything
  None

Place == [store: Store, product: Product]
Item == [store: Store, product: Product, tag: Tag \union {None}]
LedgerRow == [store: Store, product: Product, line: Product \union {None}]

\* The request line a ledger row names.
LineOf(row) == [store |-> row.store, product |-> row.line]

\* What a deletion and an assignment have in hand.
Purge == [target: Store \union Product, force: BOOLEAN, history: BOOLEAN,
          requests: SUBSET Store, ledger: SUBSET LedgerRow, lines: SUBSET Place]
Plan == [op: {"save", "import", "backfill"}, products: SUBSET Product, stores: SUBSET Store,
         new: SUBSET Product, touched: SUBSET Product, rows: SUBSET Item]

ASSUME CatalogueAssumption ==
  /\ TagOf \in [Place -> Tag]
  \* store_code and product_code are unique: of one store, or of one product,
  \* two tags differ.
  /\ \A q, r \in Place :
       TagOf[q] = TagOf[r] /\ (q.store = r.store \/ q.product = r.product) => q = r
  /\ SeedPlace \subseteq Place
  /\ Store \intersect Product = {}
  /\ None \notin Store \union Product \union Tag \union Admin \union Purge \union Plan

\* uq_store_product, and the unique tag_id.
KeysUnique(rows) ==
  \A i, j \in rows :
    (i.store = j.store /\ i.product = j.product) \/ (i.tag = j.tag /\ i.tag # None) => i = j

\* The references between the tables, which the foreign keys enforce, and the
\* unique keys of the items.
Consistent(d) ==
  /\ d.stores \subseteq Store /\ d.products \subseteq Product
  /\ d.items \subseteq Item /\ d.ledger \subseteq LedgerRow /\ d.lines \subseteq Place
  /\ d.requests \in [Store -> {"none", "draft", "sent"}]
  /\ \A row \in d.items \union d.ledger \union d.lines :
       row.store \in d.stores /\ row.product \in d.products
  /\ \A s \in Store : d.requests[s] # "none" => s \in d.stores
  /\ \A row \in d.lines : d.requests[row.store] # "none"
  /\ \A row \in d.ledger : row.line # None => LineOf(row) \in d.lines
  /\ KeysUnique(d.items)

ASSUME StartAssumption == \A d \in Start : Consistent(d)

VARIABLES
  stores, products,
  items,      \* StoreInventory
  ledger,     \* InventoryTransaction
  requests,   \* the status of a store's DailyRequest, "none" if there is none
  lines,      \* DailyRequestLine
  home,       \* User.store_id
  pc,         \* how far an administrator's request is
  purge,      \* the deletion under way
  plan,       \* the assignment under way
  reply,      \* how an administrator's last request ended
  raced,      \* somebody else has committed since it began
  commits

database == <<stores, products, items, ledger, requests, lines, home>>
vars == <<database, pc, purge, plan, reply, raced, commits>>

\* A row refers to store or product x.
Names(x, row) == x \in {row.store, row.product}

Taken(q) == \E i \in items : i.store = q.store /\ i.product = q.product
TagTaken(t) == \E i \in items : i.tag = t

-----------------------------------------------------------------------------
\* Somebody commits: whoever else is in the middle of a request is raced.
CountCommit(a) ==
  /\ commits' = commits + 1
  /\ raced' = [b \in Admin |-> raced[b] \/ (b # a /\ pc[b] # "idle")]

\* a's request ends; whatever it has not committed is rolled back.
End(a, outcome) ==
  /\ pc' = [pc EXCEPT ![a] = "idle"]
  /\ reply' = [reply EXCEPT ![a] = outcome]
  /\ purge' = [purge EXCEPT ![a] = None]
  /\ plan' = [plan EXCEPT ![a] = None]

\* An integrity error, or the process dies.
Fail(a, outcome) ==
  /\ End(a, outcome)
  /\ UNCHANGED <<database, raced, commits>>

Die(a) == pc[a] # "idle" /\ Fail(a, "none")

Begin(a, step) ==
  /\ pc[a] = "idle"
  /\ commits < MaxCommits
  /\ pc' = [pc EXCEPT ![a] = step]
  /\ raced' = [raced EXCEPT ![a] = FALSE]

-----------------------------------------------------------------------------
\* has_history of stores_delete and products_delete.
HasHistory(x) ==
  \/ \E row \in items \union ledger : Names(x, row)
  \/ x \in Store /\ requests[x] # "none"
  \/ x \in Product /\ \E row \in lines : row.product = x

StartPurge(a, x, force) ==
  /\ Begin(a, IF HasHistory(x) THEN "ledger" ELSE "delete")
  /\ reply' = [reply EXCEPT ![a] = "none"]
  /\ purge' = [purge EXCEPT ![a] =
       [target |-> x, force |-> force, history |-> HasHistory(x),
        requests |-> {s \in Store : s = x /\ requests[s] # "none"}, ledger |-> {}, lines |-> {}]]

\* Variant: the confirmation is not asked for.
BeginDeleteAtOnce(a, x, force) ==
  /\ x \in stores \union products
  /\ StartPurge(a, x, force)
  /\ UNCHANGED <<database, plan, commits>>

\* stores_delete, products_delete: the row is loaded, its history looked for
\* and, for a store, its requests' ids read.  Without the confirmation a
\* target with history is left alone.
BeginDelete(a, x, force) ==
  /\ x \in stores \union products
  /\ \/ /\ HasHistory(x) /\ ~ force
        /\ Begin(a, "idle")
        /\ reply' = [reply EXCEPT ![a] = "confirm"]
        /\ UNCHANGED purge
     \/ (HasHistory(x) => force) /\ StartPurge(a, x, force)
  /\ UNCHANGED <<database, plan, commits>>

\* DELETE of the ledger rows; a row another transaction has deleted is waited
\* for.
PurgeLedger(a) ==
  LET rows == {row \in ledger : Names(purge[a].target, row)}
  IN /\ pc[a] = "ledger"
     /\ \A b \in Admin \ {a} : purge[b] # None => purge[b].ledger \intersect rows = {}
     /\ purge' = [purge EXCEPT ![a].ledger = rows]
     /\ pc' = [pc EXCEPT ![a] = "lines"]
     /\ UNCHANGED <<database, plan, reply, raced, commits>>

DoomedLines(a) ==
  {row \in lines : IF purge[a].target \in Store THEN row.store \in purge[a].requests
                                                ELSE row.product = purge[a].target}

\* DELETE of the request lines (and of a store's requests, by the ids read at
\* the beginning): a ledger row that still names one of them fails it.
PurgeLines(a) ==
  LET rows == DoomedLines(a)
  IN /\ pc[a] = "lines"
     /\ \A b \in Admin \ {a} : purge[b] # None => purge[b].lines \intersect rows = {}
     /\ \/ /\ \E row \in ledger \ purge[a].ledger : LineOf(row) \in rows
           /\ Fail(a, "error")
        \/ /\ \A row \in ledger \ purge[a].ledger : LineOf(row) \notin rows
           /\ purge' = [purge EXCEPT ![a].lines = rows]
           /\ pc' = [pc EXCEPT ![a] = "delete"]
           /\ UNCHANGED <<database, plan, reply, raced, commits>>

\* Variant: a store's users keep naming it.
HomeKept(x) == home

\* Users of a deleted store have none.
HomeWithout(x) == [u \in User |-> IF home[u] = x THEN None ELSE home[u]]

\* The items (of a target that had history), the users' store_id and the row
\* itself, then the commit: any row that still names the target fails it.
CommitDelete(a) ==
  LET p == purge[a]
      x == p.target
      kept == IF p.history THEN {i \in items : ~ Names(x, i)} ELSE items
      left == (ledger \ p.ledger) \union (lines \ p.lines) \union kept
      free == /\ \A row \in left : ~ Names(x, row)
              /\ x \in Store /\ requests[x] # "none" => x \in p.requests
              /\ \A u \in User : HomeWithout(x)[u] # x
  IN /\ pc[a] = "delete"
     /\ \/ ~ free /\ Fail(a, "error")
        \/ /\ free
           /\ stores' = stores \ {x}
           /\ products' = products \ {x}
           /\ items' = kept
           /\ ledger' = ledger \ p.ledger
           /\ lines' = lines \ p.lines
           /\ requests' = [s \in Store |-> IF s \in p.requests THEN "none" ELSE requests[s]]
           /\ home' = HomeWithout(x)
           /\ End(a, "done")
           /\ CountCommit(a)

-----------------------------------------------------------------------------
\* Variant: a product that some store has is taken for one every store has.
MissingAnywhere(P, S) ==
  {q \in Place : q.product \in P /\ q.store \in S /\ \A i \in items : i.product # q.product}

\* The places without an item, as ensure_inventory_rows finds them ...
Missing(P, S) == {q \in Place : q.product \in P /\ q.store \in S /\ ~ Taken(q)}

\* ... and the rows it adds for them.  Its queries see what is committed, and
\* not the rows it has added itself: the session does not autoflush.
Planned(P, S) ==
  {[store |-> q.store, product |-> q.product,
    tag |-> IF TagTaken(TagOf[q]) THEN None ELSE TagOf[q]] : q \in Missing(P, S)}

BeginPlan(a, step, op, P, S, new, touched) ==
  /\ Begin(a, step)
  /\ reply' = [reply EXCEPT ![a] = "none"]
  /\ plan' = [plan EXCEPT ![a] =
       [op |-> op, products |-> P, stores |-> S, new |-> new, touched |-> touched,
        rows |-> Planned(P, S)]]
  /\ UNCHANGED <<database, purge, commits>>

\* products_save: the product of an id is updated, and without an id one is
\* inserted, also under a code that is in use (an id given another product's
\* code fails the same way).  Only one that goes to every store is flushed.
BeginSave(a, p, known, assign) ==
  /\ known => p \in products
  /\ BeginPlan(a, IF assign THEN "save" ELSE "assign", "save", {p}, {},
               IF known THEN {} ELSE {p}, IF known THEN {p} ELSE {})

\* Its db.flush(), ahead of the try: a code in use, or an update of a product
\* that is gone, is a server error.  Then the stores are read.
FlushProduct(a) ==
  LET p == plan[a]
  IN /\ pc[a] = "save"
     /\ \/ /\ p.new \intersect products # {} \/ ~ p.touched \subseteq products
           /\ Fail(a, "error")
        \/ /\ p.new \intersect products = {}
           /\ pc' = [pc EXCEPT ![a] = "assign"]
           /\ plan' = [plan EXCEPT ![a].stores = stores, ![a].rows = Planned(p.products, stores)]
           /\ UNCHANGED <<database, purge, reply, raced, commits>>

\* products_import: products are created or updated and, if that is asked for,
\* given to every store.
BeginImport(a, P, assign) ==
  BeginPlan(a, "assign", "import", P, IF assign THEN stores ELSE {}, P \ products,
            P \intersect products)

\* inventory_backfill: every product for one store.
BeginBackfill(a, s) ==
  /\ s \in stores
  /\ BeginPlan(a, "assign", "backfill", products, {s}, {}, {})

\* Variant: foreign keys are off, as SQLite has them by default.
AcceptedOrphans(p) ==
  /\ p.new \intersect products = {}
  /\ \A i \in p.rows : ~ Taken(i) /\ (i.tag # None => ~ TagTaken(i.tag))
  /\ \A i, j \in p.rows : i.tag = j.tag /\ i.tag # None => i = j

\* The keys let the plan's rows in.
Accepted(p) ==
  /\ p.new \intersect products = {}
  /\ \A i \in p.rows :
       /\ i.store \in stores
       /\ i.product \in products \union p.new
       /\ ~ Taken(i)
       /\ i.tag # None => ~ TagTaken(i.tag)
  /\ \A i, j \in p.rows : i.tag = j.tag /\ i.tag # None => i = j

\* All of it, or nothing; the UPDATE of a product that is gone also fails, if
\* there is anything to update.  Only products_save catches the IntegrityError,
\* and says that the code is in use.
CommitPlan(a) ==
  LET p == plan[a]
  IN /\ pc[a] = "assign"
     /\ \/ ~ p.touched \subseteq products /\ Fail(a, "error")
        \/ ~ Accepted(p) /\ Fail(a, IF p.op = "save" THEN "refused" ELSE "error")
        \/ /\ Accepted(p)
           /\ products' = products \union p.new
           /\ items' = items \union p.rows
           /\ End(a, "done")
           /\ CountCommit(a)
           /\ UNCHANGED <<stores, ledger, requests, lines, home>>

-----------------------------------------------------------------------------
\* What others commit in one transaction.
Commit ==
  /\ commits < MaxCommits
  /\ CountCommit(None)
  /\ UNCHANGED <<pc, plan, reply>>

\* stores_save.
SaveStore(s) ==
  /\ s \notin stores
  /\ stores' = stores \union {s}
  /\ UNCHANGED <<products, items, ledger, requests, lines, home, purge>>

\* inventory_save: a new item, or one that is edited into another.
SaveItem(old, i) ==
  /\ i.store \in stores /\ i.product \in products
  /\ \A j \in items \ old : ~ (j.store = i.store /\ j.product = i.product)
  /\ \A j \in items \ old : i.tag = None \/ j.tag # i.tag
  /\ items' = (items \ old) \union {i}
  /\ UNCHANGED <<stores, products, ledger, requests, lines, home, purge>>

\* inventory_delete: the ledger keeps what it says of the item.
DeleteItem(i) ==
  /\ items' = items \ {i}
  /\ UNCHANGED <<stores, products, ledger, requests, lines, home, purge>>

\* users_save.
SaveHome(u, s) ==
  /\ home' = [home EXCEPT ![u] = s]
  /\ UNCHANGED <<stores, products, items, ledger, requests, lines, purge>>

\* seed.run at startup: what is missing is added and the seeded items have
\* their tags again.
Seed ==
  LET Seeded(q) == [store |-> q.store, product |-> q.product, tag |-> TagOf[q]]
      others == {i \in items : [store |-> i.store, product |-> i.product] \notin SeedPlace}
  IN /\ \A a \in Admin : pc[a] = "idle"
     /\ \A q, r \in SeedPlace : TagOf[q] = TagOf[r] => q = r
     /\ \A q \in SeedPlace : \A i \in others : i.tag # TagOf[q]
     /\ stores' = stores \union {q.store : q \in SeedPlace}
     /\ products' = products \union {q.product : q \in SeedPlace}
     /\ items' = others \union {Seeded(q) : q \in SeedPlace}
     /\ UNCHANGED <<ledger, requests, lines, home, purge>>

\* Ledger rows are inserted: a purge has not deleted these.
Record(kept, rows) ==
  /\ ledger' = kept \union rows
  /\ purge' = [a \in Admin |->
       IF purge[a] = None THEN None ELSE [purge[a] EXCEPT !.ledger = @ \ rows]]

\* A removal, an undo or a correction of an item.
Move(i) ==
  /\ Record(ledger, {[store |-> i.store, product |-> i.product, line |-> None]})
  /\ UNCHANGED <<stores, products, items, requests, lines, home>>

\* No transaction has deleted the request of s, lines of it or ledger rows that
\* name these; otherwise whoever updates or refers to them waits.
Untouched(s) ==
  \A a \in Admin : purge[a] # None =>
    /\ pc[a] = "delete" => s \notin purge[a].requests
    /\ \A row \in purge[a].lines : row.store # s
    /\ \A row \in purge[a].ledger : row.line # None => row.store # s

\* generate_daily_request, for the products of P that are short: the draft's
\* lines are replaced, ledger rows naming them are detached, and the new lines
\* are audited.
Generate(s, P) ==
  /\ requests[s] # "sent" /\ Untouched(s)
  /\ \A p \in P : Taken([store |-> s, product |-> p])
  /\ requests' = [requests EXCEPT ![s] = "draft"]
  /\ lines' = {row \in lines : row.store # s} \union {[store |-> s, product |-> p] : p \in P}
  /\ Record({IF row.store = s THEN [row EXCEPT !.line = None] ELSE row : row \in ledger},
            {[store |-> s, product |-> p, line |-> None] : p \in P})
  /\ UNCHANGED <<stores, products, items, home>>

Audits(rows) == {[store |-> row.store, product |-> row.product, line |-> row.product] : row \in rows}

\* override_line, or a submission that failed: lines of the draft are audited.
Audit(s) ==
  /\ requests[s] = "draft" /\ Untouched(s)
  /\ \E rows \in SUBSET {row \in lines : row.store = s} : Record(ledger, Audits(rows))
  /\ UNCHANGED <<stores, products, items, requests, lines, home>>

\* submit_to_unleashed: a request with lines, which are audited.
Submit(s) ==
  /\ requests[s] = "draft" /\ Untouched(s)
  /\ \E row \in lines : row.store = s
  /\ requests' = [requests EXCEPT ![s] = "sent"]
  /\ Record(ledger, Audits({row \in lines : row.store = s}))
  /\ UNCHANGED <<stores, products, items, lines, home>>

\* _apply_receipt_lines: the item is found by the product code that was
\* shipped, the request line by its number: a substitute names the line of the
\* product it stands in for.
Receive(row, i) ==
  /\ requests[row.store] = "sent"
  /\ i.store = row.store
  /\ \A a \in Admin : purge[a] # None => row \notin purge[a].lines
  /\ Record(ledger, {[store |-> i.store, product |-> i.product, line |-> row.product]})
  /\ UNCHANGED <<stores, products, items, requests, lines, home>>

-----------------------------------------------------------------------------
Init ==
  /\ \E d \in Start :
       /\ stores = d.stores /\ products = d.products /\ items = d.items
       /\ ledger = d.ledger /\ requests = d.requests /\ lines = d.lines
  /\ home = [u \in User |-> None]
  /\ pc = [a \in Admin |-> "idle"]
  /\ purge = [a \in Admin |-> None]
  /\ plan = [a \in Admin |-> None]
  /\ reply = [a \in Admin |-> "none"]
  /\ raced = [a \in Admin |-> FALSE]
  /\ commits = 0

Administer(a) ==
  \/ \E x \in Store \union Product, force \in BOOLEAN : BeginDelete(a, x, force)
  \/ PurgeLedger(a)
  \/ PurgeLines(a)
  \/ CommitDelete(a)
  \/ \E p \in Product, known, assign \in BOOLEAN : BeginSave(a, p, known, assign)
  \/ FlushProduct(a)
  \/ \E P \in SUBSET Product \ {{}}, assign \in BOOLEAN : BeginImport(a, P, assign)
  \/ \E s \in Store : BeginBackfill(a, s)
  \/ CommitPlan(a)
  \/ Die(a)

Work ==
  \/ Commit /\ \E s \in Store : SaveStore(s)
  \/ Commit /\ \E old \in {{}} \union {{i} : i \in items}, i \in Item : SaveItem(old, i)
  \/ Commit /\ \E i \in items : DeleteItem(i)
  \/ Commit /\ \E u \in User, s \in stores \union {None} : SaveHome(u, s)
  \/ Commit /\ Seed
  \/ Commit /\ \E i \in items : Move(i)
  \/ Commit /\ \E s \in stores, P \in SUBSET Product : Generate(s, P)
  \/ Commit /\ \E s \in stores : Audit(s)
  \/ Commit /\ \E s \in stores : Submit(s)
  \/ Commit /\ \E row \in lines, i \in items : Receive(row, i)

Next == Work \/ \E a \in Admin : Administer(a)

Spec == Init /\ [][Next]_vars
-----------------------------------------------------------------------------
\* The module's type invariant: rows refer to rows that exist, and no two items
\* have the same place or the same tag.
TypeOK ==
  /\ Consistent([stores |-> stores, products |-> products, items |-> items, ledger |-> ledger,
                 requests |-> requests, lines |-> lines])
  /\ home \in [User -> stores \union {None}]
  /\ purge \in [Admin -> Purge \union {None}]
  /\ plan \in [Admin -> Plan \union {None}]
  /\ \A a \in Admin : reply[a] \in {"none", "confirm", "done", "refused", "error"}

\* A confirmed deletion takes what the row names.
Confirmed(row) ==
  \E a \in Admin :
    /\ purge[a] # None /\ purge[a].force /\ Names(purge[a].target, row)
    /\ purge[a].target \notin stores' \union products'

\* admin.py:125, "Deleting history is irreversible -- show an explicit
\* confirmation first": whatever is recorded while a deletion is under way, a
\* ledger row, a request or a request line goes only with the store or product
\* it belongs to, and only in a deletion that was confirmed.  Refreshing a
\* draft detaches the ledger rows that name its lines and replaces the lines.
GoesConfirmed ==
  /\ \A row \in ledger :
       [row EXCEPT !.line = None] \notin {[r EXCEPT !.line = None] : r \in ledger'} => Confirmed(row)
  /\ \A s \in Store :
       requests[s] # "none" /\ requests'[s] = "none" =>
         s \notin stores' /\ Confirmed([store |-> s, product |-> None])
  /\ \A row \in lines \ lines' :
       \/ Confirmed(row)
       \/ requests[row.store] = "draft" /\ requests'[row.store] = "draft" /\ row.store \in stores'

HistoryGoesConfirmed == [][GoesConfirmed]_vars

\* A request of an administrator that nobody else's commit came between does
\* not end in an error (get_db rolls it back and the page is a 500), but in
\* three cases, each a fault of the code: the flush of products_save stands
\* ahead of its try (admin.py:209), so a code in use is an error where the form
\* promises an answer; a substitute's receipt names a line of the product to
\* delete, and only the product's own ledger rows are purged (admin.py:274); an
\* import gives one tag to two of its rows, which ensure_inventory_rows is to
\* leave blank (product_import.py:32).  Nothing else in the order of a purge or
\* in an assignment fails, and who is told that a code is in use is told so
\* truly.
Substituted(p) == \E row \in ledger : row.line = p /\ row.product # p

SharedTag(rows) == \E i, j \in rows : i # j /\ i.tag = j.tag /\ i.tag # None

CodeInUse(a) == plan[a].new \intersect products # {}

Excusable(a) ==
  pc[a] # "idle" /\ pc'[a] = "idle" /\ ~ raced[a] =>
    /\ reply'[a] = "refused" => CodeInUse(a)
    /\ reply'[a] = "error" =>
         \/ pc[a] = "save" /\ CodeInUse(a)
         \/ pc[a] = "lines" /\ Substituted(purge[a].target)
         \/ pc[a] = "assign" /\ plan[a].op = "import" /\ SharedTag(plan[a].rows)

UndisturbedSucceeds == [][\A a \in Admin : Excusable(a)]_vars

\* admin.py:394, "Create rows for every active product this store lacks", and
\* the same for a product and every store: an assignment that is not raced
\* leaves no place without an item.
Complete(a) ==
  plan[a] # None /\ reply'[a] = "done" /\ pc'[a] = "idle" /\ ~ raced[a] =>
    \A p \in plan[a].products, s \in plan[a].stores :
      \E i \in items' : i.store = s /\ i.product = p

AssignmentComplete == [][\A a \in Admin : Complete(a)]_vars
=============================================================================
