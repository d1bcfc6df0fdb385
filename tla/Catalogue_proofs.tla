--------------------------- MODULE Catalogue_proofs ---------------------------
(***************************************************************************)
(* That the tables keep referring to existing rows, that history goes only *)
(* when that was confirmed, and that an administrator whom nobody disturbs *)
(* gets what was asked for: for any stores, products, users and number of  *)
(* administrators.                                                         *)
(***************************************************************************)
EXTENDS Catalogue, TLAPS

Purging == {"ledger", "lines", "delete"}
Planning == {"save", "assign"}
Phase == {"idle"} \union Planning \union Purging

\* The references between the tables, as Consistent states them of a database.
Tables ==
  /\ stores \subseteq Store /\ products \subseteq Product
  /\ items \subseteq Item /\ ledger \subseteq LedgerRow /\ lines \subseteq Place
  /\ requests \in [Store -> {"none", "draft", "sent"}]
  /\ \A row \in items \union ledger \union lines : row.store \in stores /\ row.product \in products
  /\ \A s \in Store : requests[s] # "none" => s \in stores
  /\ \A row \in lines : requests[row.store] # "none"
  /\ \A row \in ledger : row.line # None => LineOf(row) \in lines
  /\ home \in [User -> stores \union {None}]

\* An administrator has a deletion or an assignment in hand while in the
\* middle of one.
Requests ==
  /\ pc \in [Admin -> Phase]
  /\ purge \in [Admin -> Purge \union {None}]
  /\ plan \in [Admin -> Plan \union {None}]
  /\ reply \in [Admin -> {"none", "confirm", "done", "refused", "error"}]
  /\ raced \in [Admin -> BOOLEAN]
  /\ \A a \in Admin : purge[a] # None <=> pc[a] \in Purging
  /\ \A a \in Admin : plan[a] # None <=> pc[a] \in Planning

\* A purge deletes what belongs to its target, history only if that was
\* confirmed; no ledger row that stays names a request line that goes.
PurgeSound(a) ==
  LET p == purge[a] IN
    /\ p.requests \subseteq {p.target} \intersect Store
    /\ pc[a] \in {"ledger", "lines"} => p.force /\ p.history
    /\ p.ledger # {} \/ p.lines # {} \/ p.requests # {} => p.force
    /\ \A row \in p.ledger : Names(p.target, row)
    /\ \A row \in p.lines : IF p.target \in Store THEN row.store \in p.requests
                                                   ELSE row.product = p.target
    /\ \A row \in ledger \ p.ledger : row.line # None => LineOf(row) \notin p.lines

\* What an administrator has read, and deleted so far, is still all there is as
\* long as nobody else commits.
PurgeCurrent(a) ==
  LET p == purge[a] IN
    /\ p.history <=> HasHistory(p.target)
    /\ p.target \in Store /\ requests[p.target] # "none" => p.target \in p.requests
    /\ p.history /\ pc[a] # "ledger" => \A row \in ledger \ p.ledger : ~ Names(p.target, row)
    /\ p.history /\ pc[a] = "delete" => \A row \in lines \ p.lines : ~ Names(p.target, row)

PlanCurrent(a) ==
  LET p == plan[a] IN
    /\ p.touched \subseteq products
    /\ p.op # "save" => p.new \intersect products = {}
    /\ \A i \in p.rows :
         /\ i.store \in stores /\ i.product \in products \union p.new
         /\ ~ Taken(i)
         /\ i.tag # None => ~ TagTaken(i.tag)
    /\ \A q \in p.products, s \in p.stores :
         \E i \in items \union p.rows : i.store = s /\ i.product = q

Undisturbed(a) ==
  ~ raced[a] =>
    /\ pc[a] \in Purging => PurgeCurrent(a)
    /\ pc[a] \in Planning => PlanCurrent(a)

\* A product that waits for its flush is the one that is saved; and only an
\* import plans for several products and several stores at once.
PlanSound(a) ==
  LET p == plan[a] IN
    /\ pc[a] = "save" => /\ p.op = "save" /\ p.products \subseteq p.new \union p.touched
                         /\ \A x, y \in p.products : x = y
    /\ p.op # "import" => ~ SharedTag(p.rows)

IInv ==
  /\ Tables
  /\ Requests
  /\ \A a \in Admin : pc[a] \in Purging => PurgeSound(a)
  /\ \A a \in Admin : pc[a] \in Planning => PlanSound(a)
  /\ \A a \in Admin : Undisturbed(a)

LEMMA StoreIsNoProduct == \A s \in Store, p \in Product : s # p
  BY CatalogueAssumption

LEMMA NoneIsNothing ==
  None \notin Store /\ None \notin Product /\ None \notin Admin /\ None \notin Purge /\ None \notin Plan
  BY CatalogueAssumption

\* The databases to begin with are consistent, and nobody has begun anything.
LEMMA InitIInv == Init => IInv
  <1> SUFFICES ASSUME Init PROVE IInv
    OBVIOUS
  <1>1. Tables
    <2>1. PICK d \in Start :
            /\ stores = d.stores /\ products = d.products /\ items = d.items
            /\ ledger = d.ledger /\ requests = d.requests /\ lines = d.lines
      BY DEF Init
    <2>2. Consistent(d)
      BY StartAssumption
    <2> QED
      BY <2>1, <2>2 DEF Consistent, Tables, Init
  <1>2. Requests
    BY DEF Init, Requests, Phase, Purging, Planning
  <1> QED
    BY <1>1, <1>2 DEF Init, IInv, Undisturbed, Purging, Planning

-----------------------------------------------------------------------------
\* A step of a that commits nothing: what it has to keep is its own.
LEMMA OwnStepKeeps ==
  ASSUME IInv, NEW a \in Admin, UNCHANGED database, Requests',
         \A b \in Admin \ {a} : /\ pc'[b] = pc[b] /\ purge'[b] = purge[b]
                                /\ plan'[b] = plan[b] /\ raced'[b] = raced[b],
         pc'[a] \in Purging => PurgeSound(a)', pc'[a] \in Planning => PlanSound(a)',
         Undisturbed(a)'
  PROVE  IInv'
  <1>1. Tables'
    BY DEF IInv, Tables, database
  <1>2. ASSUME NEW b \in Admin, pc'[b] \in Purging PROVE PurgeSound(b)'
    <2>1. CASE b # a
      <3>1. pc'[b] = pc[b] /\ purge'[b] = purge[b] /\ ledger' = ledger
        BY <2>1 DEF database
      <3>2. PurgeSound(b)
        BY <1>2, <3>1 DEF IInv
      <3> QED
        BY <3>1, <3>2 DEF PurgeSound, Names, LineOf
    <2> QED
      BY <1>2, <2>1
  <1>3. ASSUME NEW b \in Admin PROVE Undisturbed(b)'
    <2>1. CASE b # a
      <3>1. /\ pc'[b] = pc[b] /\ purge'[b] = purge[b] /\ plan'[b] = plan[b] /\ raced'[b] = raced[b]
            /\ Undisturbed(b)
        BY <1>3, <2>1 DEF IInv
      <3> QED
        BY <3>1 DEF Undisturbed, PurgeCurrent, PlanCurrent, HasHistory, Names, Taken, TagTaken, database
    <2> QED
      BY <2>1
  <1>4. ASSUME NEW b \in Admin, pc'[b] \in Planning PROVE PlanSound(b)'
    BY <1>4 DEF IInv, PlanSound
  <1> QED
    BY <1>1, <1>2, <1>3, <1>4 DEF IInv

\* A request that ends has nothing in hand.
LEMMA EndRequests ==
  ASSUME Requests, NEW a \in Admin, NEW outcome \in {"none", "done", "refused", "error"}, End(a, outcome),
         raced' \in [Admin -> BOOLEAN]
  PROVE  Requests' /\ pc'[a] = "idle" /\ reply'[a] = outcome
  BY NoneIsNothing DEF Requests, End, Purging, Planning, Phase

LEMMA FailKeeps ==
  ASSUME IInv, NEW a \in Admin, NEW outcome \in {"none", "refused", "error"}, Fail(a, outcome)
  PROVE  IInv'
  <1>1. End(a, outcome) /\ UNCHANGED database /\ raced' = raced
    BY DEF Fail
  <1>2. Requests' /\ pc'[a] = "idle"
    BY <1>1, EndRequests DEF IInv, Requests
  <1>3. \A b \in Admin \ {a} : /\ pc'[b] = pc[b] /\ purge'[b] = purge[b]
                               /\ plan'[b] = plan[b] /\ raced'[b] = raced[b]
    BY <1>1 DEF IInv, Requests, End
  <1> QED
    BY <1>1, <1>2, <1>3, OwnStepKeeps DEF Undisturbed, Purging, Planning

\* A deletion begins: what it has read is there.
LEMMA StartPurgeKeeps ==
  ASSUME IInv, NEW a \in Admin, NEW x \in stores \union products, NEW force \in BOOLEAN,
         HasHistory(x) => force, StartPurge(a, x, force), UNCHANGED <<database, plan, commits>>
  PROVE  IInv'
  <1> DEFINE p == [target |-> x, force |-> force, history |-> HasHistory(x),
                   requests |-> {s \in Store : s = x /\ requests[s] # "none"},
                   ledger |-> {}, lines |-> {}]
             step == IF HasHistory(x) THEN "ledger" ELSE "delete"
  <1>1. /\ pc[a] = "idle" /\ pc' = [pc EXCEPT ![a] = step] /\ raced' = [raced EXCEPT ![a] = FALSE]
        /\ reply' = [reply EXCEPT ![a] = "none"] /\ purge' = [purge EXCEPT ![a] = p]
    BY DEF StartPurge, Begin
  <1>2. x \in Store \union Product
    BY DEF IInv, Tables
  <1>3. HasHistory(x) \in BOOLEAN
    BY DEF HasHistory
  <1>4. p \in Purge
    BY <1>2, <1>3 DEF Purge
  <1>5. pc'[a] = step /\ purge'[a] = p /\ step \in Purging /\ step \notin Planning
    BY <1>1 DEF IInv, Requests, Purging, Planning
  <1>6. Requests'
    BY <1>1, <1>4, <1>5, NoneIsNothing DEF IInv, Requests, Phase, Purging, Planning
  <1>7. PurgeSound(a)'
    BY <1>5 DEF PurgeSound, Names, LineOf, HasHistory
  <1>8. HasHistory(x)' <=> HasHistory(x)
    BY DEF HasHistory, database
  <1>9. PurgeCurrent(a)'
    BY <1>2, <1>5, <1>8 DEF PurgeCurrent, Names, database
  <1>10. Undisturbed(a)'
    BY <1>5, <1>9 DEF Undisturbed
  <1>11. \A b \in Admin \ {a} : /\ pc'[b] = pc[b] /\ purge'[b] = purge[b]
                                /\ plan'[b] = plan[b] /\ raced'[b] = raced[b]
    BY <1>1 DEF IInv, Requests
  <1> QED
    BY <1>5, <1>6, <1>7, <1>10, <1>11, OwnStepKeeps

\* stores_delete, products_delete: without the confirmation nothing begins.
LEMMA BeginDeleteKeeps ==
  ASSUME IInv, NEW a \in Admin, NEW x \in Store \union Product, NEW force \in BOOLEAN,
         BeginDelete(a, x, force)
  PROVE  IInv'
  <1>1. CASE (HasHistory(x) => force) /\ StartPurge(a, x, force)
    BY <1>1, StartPurgeKeeps DEF BeginDelete
  <1>2. CASE Begin(a, "idle") /\ reply' = [reply EXCEPT ![a] = "confirm"] /\ UNCHANGED purge
    <2>1. /\ pc[a] = "idle" /\ pc' = pc /\ raced' = [raced EXCEPT ![a] = FALSE]
          /\ reply' = [reply EXCEPT ![a] = "confirm"] /\ UNCHANGED <<database, purge, plan>>
      BY <1>2 DEF BeginDelete, Begin, IInv, Requests
    <2>2. Requests'
      BY <2>1 DEF IInv, Requests
    <2>3. pc'[a] = "idle"
      BY <2>1
    <2>4. \A b \in Admin \ {a} : raced'[b] = raced[b]
      BY <2>1 DEF IInv, Requests
    <2> QED
      BY <2>1, <2>2, <2>3, <2>4, OwnStepKeeps DEF Undisturbed, Purging, Planning
  <1> QED
    BY <1>1, <1>2 DEF BeginDelete

\* DELETE of the ledger rows: none of the target's is left.
LEMMA PurgeLedgerKeeps ==
  ASSUME IInv, NEW a \in Admin, PurgeLedger(a)
  PROVE  IInv'
  <1> DEFINE p == purge[a]
             rows == {row \in ledger : Names(p.target, row)}
  <1>1. /\ pc[a] = "ledger" /\ pc' = [pc EXCEPT ![a] = "lines"]
        /\ purge' = [purge EXCEPT ![a].ledger = rows]
        /\ UNCHANGED <<database, plan, reply, raced, commits>>
    BY DEF PurgeLedger
  <1>2. p \in Purge /\ PurgeSound(a) /\ p.force /\ p.history
    BY <1>1 DEF IInv, Requests, PurgeSound, Purging
  <1>3. rows \subseteq LedgerRow
    BY DEF IInv, Tables
  <1>4. pc'[a] = "lines" /\ purge'[a] = [p EXCEPT !.ledger = rows]
    BY <1>1 DEF IInv, Requests
  <1>5. /\ purge'[a].target = p.target /\ purge'[a].force = p.force /\ purge'[a].history = p.history
        /\ purge'[a].requests = p.requests /\ purge'[a].lines = p.lines /\ purge'[a].ledger = rows
        /\ purge'[a] \in Purge
    BY <1>2, <1>3, <1>4 DEF Purge
  <1>6. Requests'
    BY <1>1, <1>4, <1>5, NoneIsNothing DEF IInv, Requests, Phase, Purging, Planning
  <1>7. ledger \ rows \subseteq ledger \ p.ledger
    BY <1>2 DEF PurgeSound
  <1>8. PurgeSound(a)'
    BY <1>1, <1>2, <1>4, <1>5, <1>7 DEF PurgeSound, Names, LineOf, database
  <1>9. ~ raced[a] => PurgeCurrent(a)
    BY <1>1 DEF IInv, Undisturbed, Purging
  <1>10. HasHistory(p.target)' <=> HasHistory(p.target)
    BY <1>1 DEF HasHistory, database
  <1>11. Undisturbed(a)'
    BY <1>1, <1>4, <1>5, <1>9, <1>10 DEF Undisturbed, PurgeCurrent, Planning, Names, database
  <1>12. \A b \in Admin \ {a} : /\ pc'[b] = pc[b] /\ purge'[b] = purge[b]
                                /\ plan'[b] = plan[b] /\ raced'[b] = raced[b]
    BY <1>1 DEF IInv, Requests
  <1> QED
    BY <1>1, <1>4, <1>6, <1>8, <1>11, <1>12, OwnStepKeeps DEF Planning

\* The request lines that go are the target's, and all of them unless somebody
\* has added to them.
LEMMA DoomedLinesAreNamed ==
  ASSUME IInv, NEW a \in Admin, pc[a] = "lines"
  PROVE  /\ DoomedLines(a) \subseteq lines
         /\ ~ raced[a] => \A row \in lines \ DoomedLines(a) : ~ Names(purge[a].target, row)
  <1> DEFINE x == purge[a].target
  <1>1. purge[a] \in Purge
    BY DEF IInv, Requests, Purging
  <1>2. ASSUME ~ raced[a], NEW row \in lines, Names(x, row) PROVE row \in DoomedLines(a)
    <2>1. row.store \in Store /\ row.product \in Product /\ requests[row.store] # "none"
      BY <1>2 DEF IInv, Tables, Place
    <2>2. x \in Store /\ requests[x] # "none" => x \in purge[a].requests
      BY <1>2 DEF IInv, Undisturbed, PurgeCurrent, Purging
    <2>3. CASE x = row.store
      BY <2>1, <2>2, <2>3 DEF DoomedLines
    <2>4. CASE x = row.product
      BY <2>1, <2>4, StoreIsNoProduct DEF DoomedLines
    <2> QED
      BY <1>2, <2>3, <2>4 DEF Names
  <1> QED
    BY <1>2 DEF DoomedLines

\* DELETE of the request lines.
LEMMA PurgeLinesKeeps ==
  ASSUME IInv, NEW a \in Admin, PurgeLines(a)
  PROVE  IInv'
  <1> DEFINE p == purge[a]
             rows == DoomedLines(a)
  <1>1. CASE Fail(a, "error")
    BY <1>1, FailKeeps
  <1>2. CASE /\ \A row \in ledger \ p.ledger : LineOf(row) \notin rows
             /\ purge' = [purge EXCEPT ![a].lines = rows]
             /\ pc' = [pc EXCEPT ![a] = "delete"]
             /\ UNCHANGED <<database, plan, reply, raced, commits>>
    <2>1. pc[a] = "lines"
      BY DEF PurgeLines
    <2>2. p \in Purge /\ PurgeSound(a) /\ p.history /\ p.force
      BY <2>1 DEF IInv, Requests, PurgeSound, Purging
    <2>3. /\ rows \subseteq lines /\ lines \subseteq Place
          /\ ~ raced[a] => \A row \in lines \ rows : ~ Names(p.target, row)
      BY <2>1, DoomedLinesAreNamed DEF IInv, Tables
    <2>4. \A row \in rows : IF p.target \in Store THEN row.store \in p.requests
                                                  ELSE row.product = p.target
      BY DEF DoomedLines
    <2> HIDE DEF rows
    <2>5. pc'[a] = "delete" /\ purge'[a] = [p EXCEPT !.lines = rows]
      BY <1>2 DEF IInv, Requests
    <2>6. /\ purge'[a].target = p.target /\ purge'[a].force = p.force /\ purge'[a].history = p.history
          /\ purge'[a].requests = p.requests /\ purge'[a].ledger = p.ledger /\ purge'[a].lines = rows
          /\ purge'[a] \in Purge
      BY <2>2, <2>3, <2>5 DEF Purge
    <2>7. Requests'
      BY <1>2, <2>1, <2>5, <2>6, NoneIsNothing DEF IInv, Requests, Phase, Purging, Planning
    <2>8. PurgeSound(a)'
      BY <1>2, <2>2, <2>4, <2>5, <2>6 DEF PurgeSound, Names, LineOf, database
    <2>9. ~ raced[a] => PurgeCurrent(a)
      BY <2>1 DEF IInv, Undisturbed, Purging
    <2>10. HasHistory(p.target)' <=> HasHistory(p.target)
      BY <1>2 DEF HasHistory, database
    <2>11. Undisturbed(a)'
      BY <1>2, <2>1, <2>3, <2>5, <2>6, <2>9, <2>10
      DEF Undisturbed, PurgeCurrent, Planning, Names, database
    <2>12. \A b \in Admin \ {a} : /\ pc'[b] = pc[b] /\ purge'[b] = purge[b]
                                  /\ plan'[b] = plan[b] /\ raced'[b] = raced[b]
      BY <1>2 DEF IInv, Requests
    <2> QED
      BY <1>2, <2>5, <2>7, <2>8, <2>11, <2>12, OwnStepKeeps DEF Planning
  <1> QED
    BY <1>1, <1>2 DEF PurgeLines

\* The rows that are planned are the ones that are missing: their keys are free,
\* and with them no place is left without an item.
LEMMA PlannedRows ==
  ASSUME IInv, NEW P \in SUBSET Product, NEW S \in SUBSET stores
  PROVE  /\ Planned(P, S) \subseteq Item
         /\ \A i \in Planned(P, S) :
              /\ i.store \in S /\ i.product \in P
              /\ ~ Taken(i)
              /\ i.tag # None => ~ TagTaken(i.tag)
         /\ \A q \in P, s \in S :
              \E i \in items \union Planned(P, S) : i.store = s /\ i.product = q
  <1>1. stores \subseteq Store
    BY DEF IInv, Tables
  <1>2. Missing(P, S) \subseteq Place
    BY DEF Missing
  <1>3. Planned(P, S) \subseteq Item
    <2> SUFFICES ASSUME NEW q \in Missing(P, S)
                 PROVE  [store |-> q.store, product |-> q.product,
                         tag |-> IF TagTaken(TagOf[q]) THEN None ELSE TagOf[q]] \in Item
      BY DEF Planned
    <2>1. q.store \in Store /\ q.product \in Product /\ TagOf[q] \in Tag
      BY <1>2, CatalogueAssumption DEF Place
    <2> QED
      BY <2>1 DEF Item
  <1>4. \A i \in Planned(P, S) :
          /\ i.store \in S /\ i.product \in P
          /\ ~ Taken(i)
          /\ i.tag # None => ~ TagTaken(i.tag)
    <2> SUFFICES ASSUME NEW q \in Missing(P, S),
                        NEW i, i = [store |-> q.store, product |-> q.product,
                                    tag |-> IF TagTaken(TagOf[q]) THEN None ELSE TagOf[q]]
                 PROVE  /\ i.store \in S /\ i.product \in P
                        /\ ~ Taken(i)
                        /\ i.tag # None => ~ TagTaken(i.tag)
      BY DEF Planned
    <2>1. i.store = q.store /\ i.product = q.product /\ q.store \in S /\ q.product \in P /\ ~ Taken(q)
      BY DEF Missing
    <2>2. ~ Taken(i)
      BY <2>1 DEF Taken
    <2>3. i.tag # None => ~ TagTaken(i.tag)
      OBVIOUS
    <2> QED
      BY <2>1, <2>2, <2>3
  <1>5. ASSUME NEW q \in P, NEW s \in S
        PROVE  \E i \in items \union Planned(P, S) : i.store = s /\ i.product = q
    <2> DEFINE here == [store |-> s, product |-> q]
    <2>1. here \in Place /\ here.store = s /\ here.product = q
      BY <1>1 DEF Place
    <2>2. CASE Taken(here)
      BY <2>1, <2>2 DEF Taken
    <2>3. CASE ~ Taken(here)
      <3>1. here \in Missing(P, S)
        BY <2>1, <2>3 DEF Missing
      <3>2. [store |-> here.store, product |-> here.product,
             tag |-> IF TagTaken(TagOf[here]) THEN None ELSE TagOf[here]] \in Planned(P, S)
        BY <3>1 DEF Planned
      <3> QED
        BY <2>1, <3>2
    <2> QED
      BY <2>2, <2>3
  <1> QED
    BY <1>3, <1>4, <1>5

\* Rows planned for one product, or for one store, have different tags.
LEMMA PlannedTags ==
  ASSUME NEW P, NEW S, (\A x, y \in P : x = y) \/ (\A x, y \in S : x = y)
  PROVE  ~ SharedTag(Planned(P, S))
  <1> SUFFICES ASSUME NEW q \in Missing(P, S), NEW r \in Missing(P, S),
                      TagOf[q] = TagOf[r]
               PROVE  q = r
    BY DEF SharedTag, Planned
  <1>1. q \in Place /\ r \in Place /\ (q.store = r.store \/ q.product = r.product)
    BY DEF Missing
  <1> QED
    BY <1>1, CatalogueAssumption

\* What is read when products are saved, imported or assigned.
LEMMA BeginPlanKeeps ==
  ASSUME IInv, NEW a \in Admin, NEW step \in Planning, NEW op \in {"save", "import", "backfill"},
         NEW P \in SUBSET Product, NEW S \in SUBSET stores,
         NEW new \in SUBSET Product, NEW touched \in SUBSET products,
         P \subseteq products \union new, op # "save" => new \intersect products = {},
         step = "save" => op = "save" /\ P \subseteq new \union touched /\ \A x, y \in P : x = y,
         op # "import" => (\A x, y \in P : x = y) \/ (\A x, y \in S : x = y),
         BeginPlan(a, step, op, P, S, new, touched)
  PROVE  IInv'
  <1> DEFINE p == [op |-> op, products |-> P, stores |-> S, new |-> new, touched |-> touched,
                   rows |-> Planned(P, S)]
  <1>1. /\ pc[a] = "idle" /\ pc' = [pc EXCEPT ![a] = step] /\ raced' = [raced EXCEPT ![a] = FALSE]
        /\ reply' = [reply EXCEPT ![a] = "none"] /\ plan' = [plan EXCEPT ![a] = p]
        /\ UNCHANGED <<database, purge, commits>>
    BY DEF BeginPlan, Begin
  <1>2. stores \subseteq Store /\ products \subseteq Product
    BY DEF IInv, Tables
  <1>3. /\ p.products = P /\ p.stores = S /\ p.new = new /\ p.touched = touched
        /\ p.rows = Planned(P, S) /\ p.op = op /\ p \in Plan
    BY <1>2, PlannedRows DEF Plan
  <1> HIDE DEF p
  <1>4. pc'[a] = step /\ plan'[a] = p /\ purge' = purge
    BY <1>1 DEF IInv, Requests
  <1>5. Requests'
    BY <1>1, <1>3, <1>4, NoneIsNothing DEF IInv, Requests, Phase, Purging, Planning
  <1>6. /\ \A i \in Planned(P, S) :
             /\ i.store \in stores /\ i.product \in products \union new
             /\ ~ Taken(i)
             /\ i.tag # None => ~ TagTaken(i.tag)
        /\ \A q \in P, s \in S : \E i \in items \union Planned(P, S) : i.store = s /\ i.product = q
    BY PlannedRows
  <1>7. PlanCurrent(a)'
    BY <1>1, <1>3, <1>4, <1>6 DEF PlanCurrent, Taken, TagTaken, database
  <1>8. Undisturbed(a)' /\ pc'[a] \notin Purging
    BY <1>4, <1>7 DEF Undisturbed, Purging, Planning
  <1>9. PlanSound(a)'
    BY <1>3, <1>4, PlannedTags DEF PlanSound
  <1>10. \A b \in Admin \ {a} : /\ pc'[b] = pc[b] /\ purge'[b] = purge[b]
                                /\ plan'[b] = plan[b] /\ raced'[b] = raced[b]
    BY <1>1 DEF IInv, Requests
  <1> QED
    BY <1>1, <1>5, <1>8, <1>9, <1>10, OwnStepKeeps

\* products_save: one product, of a code that may be in use.
LEMMA BeginSaveKeeps ==
  ASSUME IInv, NEW a \in Admin, NEW p \in Product, NEW known \in BOOLEAN, NEW assign \in BOOLEAN,
         BeginSave(a, p, known, assign)
  PROVE  IInv'
  <1>1. CASE known
    BY <1>1, BeginPlanKeeps DEF BeginSave, Planning
  <1>2. CASE ~ known
    BY <1>2, BeginPlanKeeps DEF BeginSave, Planning
  <1> QED
    BY <1>1, <1>2

\* Its flush: if the product is there now, its rows are planned for the stores.
LEMMA FlushProductKeeps ==
  ASSUME IInv, NEW a \in Admin, FlushProduct(a)
  PROVE  IInv'
  <1> DEFINE p == plan[a]
             rows == Planned(p.products, stores)
  <1>1. CASE Fail(a, "error")
    BY <1>1, FailKeeps
  <1>2. CASE /\ pc' = [pc EXCEPT ![a] = "assign"]
             /\ plan' = [plan EXCEPT ![a].stores = stores, ![a].rows = rows]
             /\ UNCHANGED <<database, purge, reply, raced, commits>>
    <2>1. pc[a] = "save" /\ p \in Plan /\ PlanSound(a)
      BY DEF FlushProduct, IInv, Requests, Planning
    <2>2. /\ p.op = "save" /\ p.products \subseteq p.new \union p.touched
          /\ \A x, y \in p.products : x = y
          /\ p.products \in SUBSET Product /\ stores \in SUBSET stores /\ stores \subseteq Store
      BY <2>1 DEF PlanSound, Plan, IInv, Tables
    <2>3. /\ rows \subseteq Item
          /\ \A i \in rows : /\ i.store \in stores /\ i.product \in p.products
                             /\ ~ Taken(i)
                             /\ i.tag # None => ~ TagTaken(i.tag)
          /\ \A q \in p.products, s \in stores :
               \E i \in items \union rows : i.store = s /\ i.product = q
      BY <2>2, PlannedRows
    <2>4. ~ SharedTag(rows)
      BY <2>2, PlannedTags
    <2> HIDE DEF rows
    <2>5. pc'[a] = "assign" /\ plan'[a] = [p EXCEPT !.stores = stores, !.rows = rows]
      BY <1>2 DEF IInv, Requests
    <2>6. /\ plan'[a].op = p.op /\ plan'[a].products = p.products /\ plan'[a].stores = stores
          /\ plan'[a].new = p.new /\ plan'[a].touched = p.touched /\ plan'[a].rows = rows
          /\ plan'[a] \in Plan
      <3>1. plan'[a] = [op |-> p.op, products |-> p.products, stores |-> stores, new |-> p.new,
                        touched |-> p.touched, rows |-> rows]
        BY <2>1, <2>5 DEF Plan
      <3>2. /\ p.op \in {"save", "import", "backfill"} /\ p.products \in SUBSET Product
            /\ p.new \in SUBSET Product /\ p.touched \in SUBSET Product
            /\ stores \in SUBSET Store /\ rows \in SUBSET Item
        BY <2>1, <2>2, <2>3 DEF Plan
      <3> HIDE DEF p
      <3> QED
        BY <3>1, <3>2 DEF Plan
    <2>7. Requests'
      BY <1>2, <2>1, <2>5, <2>6, NoneIsNothing DEF IInv, Requests, Phase, Purging, Planning
    <2>8. PlanSound(a)'
      BY <2>4, <2>5, <2>6 DEF PlanSound
    <2>9. ~ raced[a] => p.touched \subseteq products
      BY <2>1 DEF IInv, Undisturbed, PlanCurrent, Planning
    <2>10. ~ raced[a] => PlanCurrent(a)'
      <3>1. UNCHANGED <<stores, products, items>>
        BY <1>2 DEF database
      <3>2. ASSUME ~ raced[a] PROVE \A i \in rows : i.product \in products \union p.new
        BY <2>2, <2>3, <2>9, <3>2
      <3> HIDE DEF p
      <3> QED
        BY <2>2, <2>3, <2>6, <2>9, <3>1, <3>2 DEF PlanCurrent, Taken, TagTaken
    <2>11. Undisturbed(a)' /\ pc'[a] \notin Purging
      BY <1>2, <2>5, <2>10 DEF Undisturbed, Purging
    <2>12. \A b \in Admin \ {a} : /\ pc'[b] = pc[b] /\ purge'[b] = purge[b]
                                  /\ plan'[b] = plan[b] /\ raced'[b] = raced[b]
      BY <1>2 DEF IInv, Requests
    <2> QED
      BY <1>2, <2>7, <2>8, <2>11, <2>12, OwnStepKeeps
  <1> QED
    BY <1>1, <1>2 DEF FlushProduct

LEMMA BeginImportKeeps ==
  ASSUME IInv, NEW a \in Admin, NEW P \in SUBSET Product, NEW assign \in BOOLEAN,
         BeginImport(a, P, assign)
  PROVE  IInv'
  <1>1. BeginPlan(a, "assign", "import", P, IF assign THEN stores ELSE {}, P \ products,
                  P \intersect products)
    BY DEF BeginImport
  <1> QED
    BY <1>1, BeginPlanKeeps DEF Planning

LEMMA BeginBackfillKeeps ==
  ASSUME IInv, NEW a \in Admin, NEW s \in Store, BeginBackfill(a, s)
  PROVE  IInv'
  <1>1. s \in stores /\ BeginPlan(a, "assign", "backfill", products, {s}, {}, {})
        /\ products \subseteq Product
    BY DEF BeginBackfill, IInv, Tables
  <1> QED
    BY <1>1, BeginPlanKeeps DEF Planning

-----------------------------------------------------------------------------
\* A commit: whoever else was in the middle of a request is raced from now on.
LEMMA OthersCommitKeeps ==
  ASSUME IInv, NEW a, CountCommit(a), Tables', Requests',
         \A b \in Admin \ {a} : pc'[b] = pc[b] /\ plan'[b] = plan[b],
         \A b \in Admin \ {a} : pc[b] \in Purging => PurgeSound(b)',
         a \in Admin => pc'[a] = "idle"
  PROVE  IInv'
  <1>1. ASSUME NEW b \in Admin PROVE Undisturbed(b)'
    <2>1. CASE b # a
      <3>1. pc'[b] = pc[b] /\ (raced'[b] <=> raced[b] \/ pc[b] # "idle")
        BY <1>1, <2>1 DEF CountCommit, IInv, Requests
      <3> QED
        BY <3>1 DEF Undisturbed, Purging, Planning
    <2>2. CASE b = a
      BY <1>1, <2>2 DEF Undisturbed, Purging, Planning
    <2> QED
      BY <2>1, <2>2
  <1>2. ASSUME NEW b \in Admin, pc'[b] \in Purging PROVE PurgeSound(b)'
    BY <1>2 DEF Purging
  <1>3. ASSUME NEW b \in Admin, pc'[b] \in Planning PROVE PlanSound(b)'
    BY <1>3 DEF IInv, PlanSound, Planning
  <1> QED
    BY <1>1, <1>2, <1>3 DEF IInv

\* The target goes, and what is left does not refer to it.
LEMMA CommitDeleteKeeps ==
  ASSUME IInv, NEW a \in Admin, CommitDelete(a)
  PROVE  IInv'
  <1> DEFINE p == purge[a]
             x == p.target
             kept == IF p.history THEN {i \in items : ~ Names(x, i)} ELSE items
             left == (ledger \ p.ledger) \union (lines \ p.lines) \union kept
             free == /\ \A row \in left : ~ Names(x, row)
                     /\ x \in Store /\ requests[x] # "none" => x \in p.requests
                     /\ \A u \in User : HomeWithout(x)[u] # x
  <1>1. CASE Fail(a, "error")
    BY <1>1, FailKeeps
  <1>2. CASE /\ free
             /\ stores' = stores \ {x}
             /\ products' = products \ {x}
             /\ items' = kept
             /\ ledger' = ledger \ p.ledger
             /\ lines' = lines \ p.lines
             /\ requests' = [s \in Store |-> IF s \in p.requests THEN "none" ELSE requests[s]]
             /\ home' = HomeWithout(x)
             /\ End(a, "done")
             /\ CountCommit(a)
    <2>1. p \in Purge /\ PurgeSound(a)
      BY DEF CommitDelete, IInv, Requests, Purging
    <2>2. p.requests \subseteq {x}
      BY <2>1 DEF PurgeSound
    <2>3. kept \subseteq items
      OBVIOUS
    <2>4. \A row \in left : row.store # x /\ row.product # x
      BY <1>2 DEF Names
    <2>5. items' \union ledger' \union lines' = left
      BY <1>2
    <2>6. /\ stores' \subseteq Store /\ products' \subseteq Product
          /\ items' \subseteq Item /\ ledger' \subseteq LedgerRow /\ lines' \subseteq Place
      BY <1>2, <2>3 DEF IInv, Tables
    <2>7. requests' \in [Store -> {"none", "draft", "sent"}]
      BY <1>2 DEF IInv, Tables
    <2>8. \A row \in left : row.store \in stores' /\ row.product \in products'
      <3>1. left \subseteq items \union ledger \union lines
        OBVIOUS
      <3> HIDE DEF left
      <3> QED
        BY <1>2, <2>4, <3>1 DEF IInv, Tables
    <2>9. \A s \in Store : requests'[s] # "none" => s \in stores'
      BY <1>2 DEF IInv, Tables
    <2>10. \A row \in lines' : requests'[row.store] # "none"
      <3> SUFFICES ASSUME NEW row \in lines \ p.lines PROVE requests'[row.store] # "none"
        BY <1>2
      <3>1. row.store \in Store /\ requests[row.store] # "none" /\ row.store # x
        BY <2>4 DEF IInv, Tables, Place
      <3> QED
        BY <1>2, <2>2, <3>1
    <2>11. \A row \in ledger' : row.line # None => LineOf(row) \in lines'
      BY <1>2, <2>1 DEF IInv, Tables, PurgeSound
    <2>12. home' \in [User -> stores' \union {None}]
      BY <1>2 DEF IInv, Tables, HomeWithout
    <2>13. Tables'
      BY <2>5, <2>6, <2>7, <2>8, <2>9, <2>10, <2>11, <2>12 DEF Tables, LineOf
    <2>14. raced' \in [Admin -> BOOLEAN]
      BY <1>2 DEF CountCommit, IInv, Requests
    <2>15. Requests' /\ pc'[a] = "idle"
      BY <1>2, <2>14, EndRequests DEF IInv
    <2>16. \A b \in Admin \ {a} : pc'[b] = pc[b] /\ purge'[b] = purge[b] /\ plan'[b] = plan[b]
      BY <1>2 DEF End, IInv, Requests
    <2>17. ASSUME NEW b \in Admin \ {a}, pc[b] \in Purging PROVE PurgeSound(b)'
      <3>1. PurgeSound(b) /\ pc'[b] = pc[b] /\ purge'[b] = purge[b] /\ ledger' \subseteq ledger
        BY <1>2, <2>16, <2>17 DEF IInv
      <3> QED
        BY <3>1 DEF PurgeSound, Names, LineOf
    <2> QED
      BY <1>2, <2>13, <2>15, <2>16, <2>17, OthersCommitKeeps
  <1> QED
    BY <1>1, <1>2 DEF CommitDelete

\* What the keys accept refers to rows that are there.
LEMMA CommitPlanKeeps ==
  ASSUME IInv, NEW a \in Admin, CommitPlan(a)
  PROVE  IInv'
  <1> DEFINE p == plan[a]
  <1>1. CASE \E outcome \in {"refused", "error"} : Fail(a, outcome)
    BY <1>1, FailKeeps
  <1>2. CASE /\ Accepted(p)
             /\ products' = products \union p.new
             /\ items' = items \union p.rows
             /\ End(a, "done")
             /\ CountCommit(a)
             /\ UNCHANGED <<stores, ledger, requests, lines, home>>
    <2>1. p \in Plan
      BY DEF CommitPlan, IInv, Requests, Planning
    <2>2. /\ p.new \subseteq Product /\ p.rows \subseteq Item
          /\ \A i \in p.rows : i.store \in stores /\ i.product \in products'
      BY <1>2, <2>1 DEF Plan, Accepted
    <2> HIDE DEF p
    <2>3. Tables'
      BY <1>2, <2>2 DEF IInv, Tables, LineOf
    <2>4. raced' \in [Admin -> BOOLEAN]
      BY <1>2 DEF CountCommit, IInv, Requests
    <2>5. Requests' /\ pc'[a] = "idle"
      BY <1>2, <2>4, EndRequests DEF IInv
    <2>6. \A b \in Admin \ {a} : pc'[b] = pc[b] /\ purge'[b] = purge[b] /\ plan'[b] = plan[b]
      BY <1>2 DEF End, IInv, Requests
    <2>7. ASSUME NEW b \in Admin \ {a}, pc[b] \in Purging PROVE PurgeSound(b)'
      <3>1. PurgeSound(b) /\ pc'[b] = pc[b] /\ purge'[b] = purge[b] /\ ledger' = ledger
        BY <1>2, <2>6, <2>7 DEF IInv
      <3> QED
        BY <3>1 DEF PurgeSound, Names, LineOf
    <2> QED
      BY <1>2, <2>3, <2>5, <2>6, <2>7, OthersCommitKeeps
  <1> QED
    BY <1>1, <1>2 DEF CommitPlan

\* The same of everybody else's commits: deletions under way have to stay sound.
LEMMA CommitKeeps ==
  ASSUME IInv, Commit, Tables', purge' \in [Admin -> Purge \union {None}],
         \A b \in Admin : purge'[b] # None <=> purge[b] # None,
         \A b \in Admin : pc[b] \in Purging => PurgeSound(b)'
  PROVE  IInv'
  <1>1. CountCommit(None) /\ UNCHANGED <<pc, plan, reply>>
    BY DEF Commit
  <1>2. Requests'
    BY <1>1 DEF CountCommit, IInv, Requests
  <1> QED
    BY <1>1, <1>2, NoneIsNothing, OthersCommitKeeps

\* A commit that leaves the ledger alone.
LEMMA PlainCommitKeeps ==
  ASSUME IInv, Commit, Tables', UNCHANGED <<ledger, purge>>
  PROVE  IInv'
  <1>1. ASSUME NEW b \in Admin, pc[b] \in Purging PROVE PurgeSound(b)'
    BY <1>1 DEF IInv, PurgeSound, Commit, Names, LineOf
  <1> QED
    BY <1>1, CommitKeeps DEF IInv, Requests

\* A commit that records ledger rows, none of which names a request line that a
\* deletion under way has deleted.
LEMMA RecordKeeps ==
  ASSUME IInv, Commit, Tables', NEW kept, NEW rows, Record(kept, rows),
         \A b \in Admin : pc[b] \in Purging =>
           \A row \in (kept \ purge[b].ledger) \union rows :
             row.line # None => LineOf(row) \notin purge[b].lines
  PROVE  IInv'
  <1>1. /\ ledger' = kept \union rows /\ pc' = pc
        /\ purge' = [b \in Admin |->
             IF purge[b] = None THEN None ELSE [purge[b] EXCEPT !.ledger = @ \ rows]]
    BY DEF Record, Commit
  <1>2. ASSUME NEW b \in Admin, purge[b] # None
        PROVE  /\ purge'[b] \in Purge
               /\ purge'[b].target = purge[b].target /\ purge'[b].force = purge[b].force
               /\ purge'[b].history = purge[b].history /\ purge'[b].requests = purge[b].requests
               /\ purge'[b].lines = purge[b].lines /\ purge'[b].ledger = purge[b].ledger \ rows
    <2>1. purge[b] \in Purge /\ purge'[b] = [purge[b] EXCEPT !.ledger = @ \ rows]
      BY <1>1, <1>2 DEF IInv, Requests
    <2> QED
      BY <2>1 DEF Purge
  <1>3. \A b \in Admin : purge'[b] # None <=> purge[b] # None
    BY <1>1, <1>2, NoneIsNothing
  <1>4. purge' \in [Admin -> Purge \union {None}]
    BY <1>1, <1>2
  <1>5. ASSUME NEW b \in Admin, pc[b] \in Purging PROVE PurgeSound(b)'
    <2>1. PurgeSound(b) /\ purge[b] # None
      BY <1>5 DEF IInv, Requests
    <2>2. ledger' \ purge'[b].ledger \subseteq (kept \ purge[b].ledger) \union rows
      BY <1>1, <1>2, <2>1
    <2>3. \A row \in ledger' \ purge'[b].ledger : row.line # None => LineOf(row) \notin purge'[b].lines
      BY <1>2, <1>5, <2>1, <2>2
    <2>4. /\ pc'[b] = pc[b] /\ purge'[b].target = purge[b].target /\ purge'[b].force = purge[b].force
          /\ purge'[b].history = purge[b].history /\ purge'[b].requests = purge[b].requests
          /\ purge'[b].lines = purge[b].lines /\ purge'[b].ledger \subseteq purge[b].ledger
      BY <1>1, <1>2, <2>1
    <2> QED
      BY <2>1, <2>3, <2>4 DEF PurgeSound, Names
  <1> QED
    BY <1>3, <1>4, <1>5, CommitKeeps

\* stores_save.
LEMMA SaveStoreKeeps ==
  ASSUME IInv, Commit, NEW s \in Store, SaveStore(s)
  PROVE  IInv'
  <1>1. Tables'
    BY DEF SaveStore, IInv, Tables, LineOf
  <1> QED
    BY <1>1, PlainCommitKeeps DEF SaveStore

\* inventory_save.
LEMMA SaveItemKeeps ==
  ASSUME IInv, Commit, NEW old, NEW i \in Item, SaveItem(old, i)
  PROVE  IInv'
  <1>1. Tables'
    BY DEF SaveItem, IInv, Tables, LineOf
  <1> QED
    BY <1>1, PlainCommitKeeps DEF SaveItem

\* inventory_delete.
LEMMA DeleteItemKeeps ==
  ASSUME IInv, Commit, NEW i \in items, DeleteItem(i)
  PROVE  IInv'
  <1>1. Tables'
    BY DEF DeleteItem, IInv, Tables, LineOf
  <1> QED
    BY <1>1, PlainCommitKeeps DEF DeleteItem

\* users_save.
LEMMA SaveHomeKeeps ==
  ASSUME IInv, Commit, NEW u \in User, NEW s \in stores \union {None}, SaveHome(u, s)
  PROVE  IInv'
  <1>1. Tables'
    BY DEF SaveHome, IInv, Tables, LineOf
  <1> QED
    BY <1>1, PlainCommitKeeps DEF SaveHome

\* seed.run.
LEMMA SeedKeeps ==
  ASSUME IInv, Commit, Seed
  PROVE  IInv'
  <1> DEFINE Seeded(q) == [store |-> q.store, product |-> q.product, tag |-> TagOf[q]]
             others == {i \in items : [store |-> i.store, product |-> i.product] \notin SeedPlace}
  <1>1. /\ stores' = stores \union {q.store : q \in SeedPlace}
        /\ products' = products \union {q.product : q \in SeedPlace}
        /\ items' = others \union {Seeded(q) : q \in SeedPlace}
        /\ UNCHANGED <<ledger, requests, lines, home, purge>>
    BY DEF Seed
  <1>2. ASSUME NEW q \in SeedPlace
        PROVE  /\ q.store \in Store /\ q.product \in Product /\ Seeded(q) \in Item
               /\ Seeded(q).store = q.store /\ Seeded(q).product = q.product
    <2>1. q \in Place /\ TagOf[q] \in Tag
      BY CatalogueAssumption
    <2>2. q.store \in Store /\ q.product \in Product
      BY <2>1 DEF Place
    <2> QED
      BY <2>1, <2>2 DEF Item
  <1> HIDE DEF Seeded
  <1>3. \A row \in items' : row.store \in stores' /\ row.product \in products' /\ row \in Item
    BY <1>1, <1>2 DEF IInv, Tables
  <1>4. stores' \subseteq Store /\ products' \subseteq Product
    BY <1>1, <1>2 DEF IInv, Tables
  <1>5. stores \subseteq stores' /\ products \subseteq products'
    BY <1>1
  <1>6. Tables'
    BY <1>1, <1>3, <1>4, <1>5 DEF IInv, Tables, LineOf
  <1> QED
    BY <1>1, <1>6, PlainCommitKeeps

\* A removal, an undo or a correction names no request line.
LEMMA MoveKeeps ==
  ASSUME IInv, Commit, NEW i \in items, Move(i)
  PROVE  IInv'
  <1> DEFINE rows == {[store |-> i.store, product |-> i.product, line |-> None]}
  <1>1. Record(ledger, rows) /\ UNCHANGED <<stores, products, items, requests, lines, home>>
    BY DEF Move
  <1>2. i.store \in stores /\ i.product \in products /\ stores \subseteq Store /\ products \subseteq Product
    BY DEF IInv, Tables
  <1>3. \A row \in rows : row \in LedgerRow /\ row.store = i.store /\ row.product = i.product /\ row.line = None
    BY <1>2 DEF LedgerRow
  <1> HIDE DEF rows
  <1>4. ledger' = ledger \union rows
    BY <1>1 DEF Record
  <1>5. Tables'
    BY <1>1, <1>2, <1>3, <1>4 DEF IInv, Tables, LineOf
  <1>6. \A b \in Admin : pc[b] \in Purging =>
          \A row \in (ledger \ purge[b].ledger) \union rows :
            row.line # None => LineOf(row) \notin purge[b].lines
    BY <1>3 DEF IInv, PurgeSound
  <1> QED
    BY <1>1, <1>5, <1>6, RecordKeeps

\* Audits of a store's request lines refer to what these refer to.
LEMMA AuditsRefer ==
  ASSUME IInv, NEW rows \in SUBSET lines, NEW row \in Audits(rows)
  PROVE  /\ row \in LedgerRow /\ row.store \in stores /\ row.product \in products
         /\ LineOf(row) \in rows
  <1>1. PICK r \in rows : row = [store |-> r.store, product |-> r.product, line |-> r.product]
    BY DEF Audits
  <1>2. r \in Place /\ r.store \in stores /\ r.product \in products
    BY DEF IInv, Tables
  <1>3. r = [store |-> r.store, product |-> r.product] /\ r.store \in Store /\ r.product \in Product
    BY <1>2 DEF Place
  <1>4. row \in LedgerRow /\ row.store = r.store /\ row.product = r.product /\ row.line = r.product
    BY <1>1, <1>3 DEF LedgerRow
  <1> QED
    BY <1>2, <1>3, <1>4 DEF LineOf

\* override_line, submit_to_unleashed: lines of a request are audited that no
\* deletion under way has touched.
LEMMA AuditedKeeps ==
  ASSUME IInv, Commit, NEW s \in stores, NEW rows \in SUBSET {row \in lines : row.store = s},
         Untouched(s), Record(ledger, Audits(rows)), requests[s] = "draft",
         requests' \in {requests, [requests EXCEPT ![s] = "sent"]},
         UNCHANGED <<stores, products, items, lines, home>>
  PROVE  IInv'
  <1>1. ledger' = ledger \union Audits(rows)
    BY DEF Record
  <1>2. \A row \in Audits(rows) :
          /\ row \in LedgerRow /\ row.store \in stores /\ row.product \in products
          /\ LineOf(row) \in rows
    BY AuditsRefer
  <1>3. /\ requests' \in [Store -> {"none", "draft", "sent"}]
        /\ \A t \in Store : requests'[t] # "none" <=> requests[t] # "none"
    BY DEF IInv, Tables
  <1>4. \A row \in lines : row.store \in Store
    BY DEF IInv, Tables, Place
  <1>5. Tables'
    BY <1>1, <1>2, <1>3, <1>4 DEF IInv, Tables, LineOf
  <1>6. ASSUME NEW b \in Admin, pc[b] \in Purging, NEW row \in (ledger \ purge[b].ledger) \union Audits(rows),
               row.line # None
        PROVE  LineOf(row) \notin purge[b].lines
    <2>1. CASE row \in Audits(rows)
      <3>1. LineOf(row) \in rows
        BY <1>2, <2>1
      <3>2. \A r \in purge[b].lines : r.store # s
        BY <1>6 DEF Untouched, IInv, Requests
      <3> QED
        BY <3>1, <3>2
    <2>2. CASE row \in ledger \ purge[b].ledger
      BY <1>6, <2>2 DEF IInv, PurgeSound
    <2> QED
      BY <1>6, <2>1, <2>2
  <1> QED
    BY <1>5, <1>6, RecordKeeps

LEMMA AuditKeeps ==
  ASSUME IInv, Commit, NEW s \in stores, Audit(s)
  PROVE  IInv'
  BY AuditedKeeps DEF Audit

LEMMA SubmitKeeps ==
  ASSUME IInv, Commit, NEW s \in stores, Submit(s)
  PROVE  IInv'
  BY AuditedKeeps DEF Submit

\* _apply_receipt_lines: the request line is there when the receipt refers to it.
LEMMA ReceiveKeeps ==
  ASSUME IInv, Commit, NEW row \in lines, NEW i \in items, Receive(row, i)
  PROVE  IInv'
  <1> DEFINE new == [store |-> i.store, product |-> i.product, line |-> row.product]
             rows == {new}
  <1>1. /\ Record(ledger, rows) /\ i.store = row.store
        /\ UNCHANGED <<stores, products, items, requests, lines, home>>
        /\ \A b \in Admin : purge[b] # None => row \notin purge[b].lines
    BY DEF Receive
  <1>2. /\ row = [store |-> row.store, product |-> row.product] /\ row.product \in Product
        /\ i.store \in stores /\ i.product \in products /\ stores \subseteq Store /\ products \subseteq Product
    BY DEF IInv, Tables, Place
  <1>3. /\ new \in LedgerRow /\ new.store = i.store /\ new.product = i.product /\ LineOf(new) = row
    BY <1>1, <1>2 DEF LedgerRow, LineOf
  <1>4. \A r \in rows : /\ r \in LedgerRow /\ r.store \in stores /\ r.product \in products
                        /\ LineOf(r) = row
    BY <1>2, <1>3
  <1> HIDE DEF rows
  <1>5. ledger' = ledger \union rows
    BY <1>1 DEF Record
  <1>6. Tables'
    BY <1>1, <1>4, <1>5 DEF IInv, Tables, LineOf
  <1>7. \A b \in Admin : pc[b] \in Purging =>
          \A r \in (ledger \ purge[b].ledger) \union rows :
            r.line # None => LineOf(r) \notin purge[b].lines
    BY <1>1, <1>4 DEF IInv, PurgeSound, Requests
  <1> QED
    BY <1>1, <1>6, <1>7, RecordKeeps

\* Only rows of store s are detached, and these no longer name a line.
Detached(s) == {IF row.store = s THEN [row EXCEPT !.line = None] ELSE row : row \in ledger}

LEMMA DetachedRows ==
  ASSUME IInv, NEW s, NEW row \in Detached(s)
  PROVE  /\ row \in LedgerRow /\ row.store \in stores /\ row.product \in products
         /\ row.line # None => row \in ledger /\ row.store # s
  <1>1. PICK r \in ledger : row = IF r.store = s THEN [r EXCEPT !.line = None] ELSE r
    BY DEF Detached
  <1>2. r \in LedgerRow /\ r.store \in stores /\ r.product \in products
    BY DEF IInv, Tables
  <1> QED
    BY <1>1, <1>2 DEF LedgerRow

\* generate_daily_request: the lines that go are named by no row that stays.
LEMMA GenerateKeeps ==
  ASSUME IInv, Commit, NEW s \in stores, NEW P \in SUBSET Product, Generate(s, P)
  PROVE  IInv'
  <1> DEFINE kept == Detached(s)
             new == {[store |-> s, product |-> p] : p \in P}
             rows == {[store |-> s, product |-> p, line |-> None] : p \in P}
  <1>1. /\ Untouched(s) /\ \A p \in P : Taken([store |-> s, product |-> p])
        /\ requests' = [requests EXCEPT ![s] = "draft"]
        /\ lines' = {row \in lines : row.store # s} \union new
        /\ Record(kept, rows)
        /\ UNCHANGED <<stores, products, items, home>>
    BY DEF Generate, Detached
  <1>2. P \subseteq products /\ stores \subseteq Store
    BY <1>1 DEF Taken, IInv, Tables
  <1>3. \A row \in new : row \in Place /\ row.store = s /\ row.product \in products
    BY <1>2 DEF Place
  <1>4. \A row \in rows : /\ row \in LedgerRow /\ row.store = s /\ row.product \in products
                          /\ row.line = None
    BY <1>2 DEF LedgerRow
  <1>5. \A row \in kept : /\ row \in LedgerRow /\ row.store \in stores /\ row.product \in products
                          /\ row.line # None => row \in ledger /\ row.store # s
    BY DetachedRows
  <1> HIDE DEF kept, new, rows
  <1>6. ledger' = kept \union rows
    BY <1>1 DEF Record
  <1>7. /\ requests' \in [Store -> {"none", "draft", "sent"}]
        /\ \A t \in Store : requests'[t] # "none" <=> t = s \/ requests[t] # "none"
    BY <1>1, <1>2 DEF IInv, Tables
  <1>8. \A row \in ledger' : row.line # None => LineOf(row) \in lines'
    <2> SUFFICES ASSUME NEW row \in ledger', row.line # None PROVE LineOf(row) \in lines'
      OBVIOUS
    <2>1. row \in ledger /\ row.store # s
      BY <1>4, <1>5, <1>6
    <2>2. LineOf(row) \in lines /\ LineOf(row).store = row.store
      BY <2>1 DEF IInv, Tables, LineOf
    <2> QED
      BY <1>1, <2>1, <2>2
  <1>9. \A row \in lines' : /\ row \in Place /\ row.store \in stores /\ row.product \in products
                            /\ requests'[row.store] # "none"
    <2> SUFFICES ASSUME NEW row \in lines'
                 PROVE  /\ row \in Place /\ row.store \in stores /\ row.product \in products
                        /\ requests'[row.store] # "none"
      OBVIOUS
    <2>1. CASE row \in lines
      BY <1>2, <1>7, <2>1 DEF IInv, Tables
    <2>2. CASE row \in new
      BY <1>2, <1>3, <1>7, <2>2
    <2> QED
      BY <1>1, <2>1, <2>2
  <1>10. \A row \in ledger' : row \in LedgerRow /\ row.store \in stores /\ row.product \in products
    BY <1>4, <1>5, <1>6
  <1>11. Tables'
    BY <1>1, <1>7, <1>8, <1>9, <1>10 DEF IInv, Tables, LineOf
  <1>12. ASSUME NEW b \in Admin, pc[b] \in Purging, NEW row \in (kept \ purge[b].ledger) \union rows,
                row.line # None
         PROVE  LineOf(row) \notin purge[b].lines
    <2>1. row \in ledger \ purge[b].ledger
      BY <1>4, <1>5, <1>12
    <2> QED
      BY <1>12, <2>1 DEF IInv, PurgeSound
  <1> QED
    BY <1>1, <1>11, <1>12, RecordKeeps

LEMMA NextIInv == IInv /\ [Next]_vars => IInv'
  <1> SUFFICES ASSUME IInv, [Next]_vars PROVE IInv'
    OBVIOUS
  <1>1. CASE Work
    <2>1. CASE \E s \in Store : Commit /\ SaveStore(s)
      BY <2>1, SaveStoreKeeps
    <2>2. CASE \E old \in {{}} \union {{i} : i \in items}, i \in Item : Commit /\ SaveItem(old, i)
      BY <2>2, SaveItemKeeps
    <2>3. CASE \E i \in items : Commit /\ (DeleteItem(i) \/ Move(i))
      BY <2>3, DeleteItemKeeps, MoveKeeps
    <2>4. CASE \E u \in User, s \in stores \union {None} : Commit /\ SaveHome(u, s)
      BY <2>4, SaveHomeKeeps
    <2>5. CASE Commit /\ Seed
      BY <2>5, SeedKeeps
    <2>6. CASE \E s \in stores, P \in SUBSET Product : Commit /\ Generate(s, P)
      BY <2>6, GenerateKeeps
    <2>7. CASE \E s \in stores : Commit /\ (Audit(s) \/ Submit(s))
      BY <2>7, AuditKeeps, SubmitKeeps
    <2>8. CASE \E row \in lines, i \in items : Commit /\ Receive(row, i)
      BY <2>8, ReceiveKeeps
    <2> QED
      BY <1>1, <2>1, <2>2, <2>3, <2>4, <2>5, <2>6, <2>7, <2>8 DEF Work
  <1>2. ASSUME NEW a \in Admin, Administer(a) PROVE IInv'
    <2>1. CASE \E x \in Store \union Product, force \in BOOLEAN : BeginDelete(a, x, force)
      BY <2>1, BeginDeleteKeeps
    <2>2. CASE PurgeLedger(a) \/ PurgeLines(a) \/ CommitDelete(a)
      BY <2>2, PurgeLedgerKeeps, PurgeLinesKeeps, CommitDeleteKeeps
    <2>6. CASE \E p \in Product, known, assign \in BOOLEAN : BeginSave(a, p, known, assign)
      BY <2>6, BeginSaveKeeps
    <2>7. CASE FlushProduct(a)
      BY <2>7, FlushProductKeeps
    <2>3. CASE \E P \in SUBSET Product \ {{}}, assign \in BOOLEAN : BeginImport(a, P, assign)
      BY <2>3, BeginImportKeeps
    <2>4. CASE \E s \in Store : BeginBackfill(a, s)
      BY <2>4, BeginBackfillKeeps
    <2>5. CASE CommitPlan(a) \/ Die(a)
      BY <2>5, CommitPlanKeeps, FailKeeps DEF Die
    <2> QED
      BY <1>2, <2>1, <2>2, <2>3, <2>4, <2>5, <2>6, <2>7 DEF Administer
  <1>3. CASE UNCHANGED vars
    <2>1. Tables' /\ Requests'
      BY <1>3 DEF vars, database, IInv, Tables, Requests
    <2>2. \A a \in Admin : pc'[a] \in Purging => PurgeSound(a)'
      BY <1>3 DEF vars, database, IInv, PurgeSound, Names, LineOf
    <2>3. ASSUME NEW a \in Admin PROVE Undisturbed(a)'
      <3>1. Undisturbed(a)
        BY DEF IInv
      <3> QED
        BY <1>3, <3>1 DEF vars, database, Undisturbed, PurgeCurrent, PlanCurrent, HasHistory,
                          Names, Taken, TagTaken
    <2>4. \A a \in Admin : pc'[a] \in Planning => PlanSound(a)'
      BY <1>3 DEF vars, IInv, PlanSound
    <2> QED
      BY <2>1, <2>2, <2>3, <2>4 DEF IInv
  <1> QED
    BY <1>1, <1>2, <1>3 DEF Next

\* The inductive invariant holds in every behaviour.
THEOREM Invariance == Spec => []IInv
  BY InitIInv, NextIInv, PTL DEF Spec

-----------------------------------------------------------------------------
\* A plan has one row for a place.
OnePerPlace(rows) == \A i, j \in rows : i.store = j.store /\ i.product = j.product => i = j

Unique ==
  /\ KeysUnique(items)
  /\ \A a \in Admin : plan[a] # None => OnePerPlace(plan[a].rows)

LEMMA InitUnique == Init => Unique
  <1> SUFFICES ASSUME Init PROVE Unique
    OBVIOUS
  <1>1. PICK d \in Start : items = d.items
    BY DEF Init
  <1>2. KeysUnique(items)
    BY <1>1, StartAssumption DEF Consistent
  <1> QED
    BY <1>2 DEF Init, Unique

\* Fewer items still have unique keys.
LEMMA FewerUnique ==
  ASSUME NEW rows, NEW kept, KeysUnique(rows), kept \subseteq rows
  PROVE  KeysUnique(kept)
  BY DEF KeysUnique

LEMMA PlannedOnePerPlace ==
  ASSUME NEW P, NEW S
  PROVE  OnePerPlace(Planned(P, S))
  BY DEF OnePerPlace, Planned, Missing, Place

\* No statement of a step other than these touches the items.
LEMMA WorkUnique ==
  ASSUME IInv, Unique, Work
  PROVE  Unique'
  <1>1. plan' = plan
    BY DEF Work, Commit
  <1>2. items \subseteq Item
    BY DEF IInv, Tables
  <1>3. ASSUME NEW old \in {{}} \union {{i} : i \in items}, NEW i \in Item, SaveItem(old, i)
        PROVE  KeysUnique(items')
    BY <1>3 DEF SaveItem, Unique, KeysUnique
  <1>4. ASSUME NEW i \in items, DeleteItem(i) PROVE KeysUnique(items')
    BY <1>4 DEF DeleteItem, Unique, KeysUnique
  <1>5. ASSUME Seed PROVE KeysUnique(items')
    <2> DEFINE Seeded(q) == [store |-> q.store, product |-> q.product, tag |-> TagOf[q]]
               others == {i \in items : [store |-> i.store, product |-> i.product] \notin SeedPlace}
    <2>1. /\ \A q, r \in SeedPlace : TagOf[q] = TagOf[r] => q = r
          /\ \A q \in SeedPlace : \A i \in others : i.tag # TagOf[q]
          /\ items' = others \union {Seeded(q) : q \in SeedPlace}
      BY <1>5 DEF Seed
    <2>2. \A q \in SeedPlace : q = [store |-> q.store, product |-> q.product]
      BY CatalogueAssumption DEF Place
    <2>3. KeysUnique(others)
      BY FewerUnique DEF Unique
    <2>4. ASSUME NEW i \in others, NEW q \in SeedPlace
          PROVE  ~ (i.store = q.store /\ i.product = q.product)
      BY <2>2
    <2>5. KeysUnique({Seeded(q) : q \in SeedPlace})
      BY <2>1, <2>2 DEF KeysUnique
    <2>6. \A i \in others, j \in {Seeded(q) : q \in SeedPlace} :
            /\ ~ (i.store = j.store /\ i.product = j.product) /\ i.tag # j.tag
            /\ ~ (j.store = i.store /\ j.product = i.product)
      BY <2>1, <2>4
    <2> DEFINE seeded == {Seeded(q) : q \in SeedPlace}
    <2> HIDE DEF others, seeded
    <2> QED
      BY <2>1, <2>3, <2>5, <2>6 DEF KeysUnique, seeded
  <1>6. CASE items' = items
    BY <1>1, <1>6 DEF Unique
  <1>7. CASE KeysUnique(items')
    BY <1>1, <1>7 DEF Unique
  <1> QED
    BY <1>3, <1>4, <1>5, <1>6, <1>7
    DEF Work, SaveStore, SaveHome, Move, Generate, Audit, Submit, Receive

\* An administrator adds what the keys let in, and plans one row for a place.
LEMMA AdministerUnique ==
  ASSUME IInv, Unique, NEW a \in Admin, Administer(a)
  PROVE  Unique'
  <1>1. ASSUME NEW step, NEW op, NEW P, NEW S, NEW new, NEW touched,
               BeginPlan(a, step, op, P, S, new, touched)
        PROVE  Unique'
    <2>1. items' = items /\ plan'[a].rows = Planned(P, S)
      BY <1>1 DEF BeginPlan, database, IInv, Requests
    <2>2. \A b \in Admin \ {a} : plan'[b] = plan[b]
      BY <1>1 DEF BeginPlan, IInv, Requests
    <2> QED
      BY <2>1, <2>2, PlannedOnePerPlace DEF Unique
  <1>2. ASSUME NEW outcome, End(a, outcome), KeysUnique(items') PROVE Unique'
    BY <1>2 DEF End, IInv, Requests, Unique
  <1>3. ASSUME NEW outcome, Fail(a, outcome) PROVE Unique'
    BY <1>2, <1>3 DEF Fail, database, Unique
  <1>4. CASE UNCHANGED <<items, plan>>
    BY <1>4 DEF Unique
  <1>5. CASE CommitDelete(a)
    <2>1. CASE \E outcome : Fail(a, outcome)
      BY <1>3, <2>1
    <2>2. CASE items' \subseteq items /\ End(a, "done")
      BY <1>2, <2>2, FewerUnique DEF Unique
    <2> QED
      BY <1>5, <2>1, <2>2 DEF CommitDelete
  <1>6. CASE CommitPlan(a)
    <2>1. CASE \E outcome : Fail(a, outcome)
      BY <1>3, <2>1
    <2>2. CASE Accepted(plan[a]) /\ items' = items \union plan[a].rows /\ End(a, "done")
      <3>1. plan[a] # None /\ plan[a] \in Plan
        BY <1>6 DEF CommitPlan, IInv, Requests, Planning
      <3>2. KeysUnique(plan[a].rows)
        BY <2>2, <3>1 DEF Unique, OnePerPlace, Accepted, KeysUnique
      <3>3. KeysUnique(items')
        BY <2>2, <3>2 DEF Unique, Accepted, Taken, TagTaken, KeysUnique
      <3> QED
        BY <1>2, <2>2, <3>3
    <2> QED
      BY <1>6, <2>1, <2>2 DEF CommitPlan
  <1>11. CASE FlushProduct(a)
    <2>1. CASE \E outcome : Fail(a, outcome)
      BY <1>3, <2>1
    <2>2. CASE /\ plan' = [plan EXCEPT ![a].stores = stores,
                                       ![a].rows = Planned(plan[a].products, stores)]
               /\ UNCHANGED database
      <3>1. plan[a] \in Plan
        BY <1>11 DEF FlushProduct, IInv, Requests, Planning
      <3>2. items' = items /\ plan'[a].rows = Planned(plan[a].products, stores)
        BY <2>2, <3>1 DEF database, IInv, Requests, Plan
      <3>3. \A b \in Admin \ {a} : plan'[b] = plan[b]
        BY <2>2 DEF IInv, Requests
      <3> QED
        BY <3>2, <3>3, PlannedOnePerPlace DEF Unique
    <2> QED
      BY <1>11, <2>1, <2>2 DEF FlushProduct
  <1>7. CASE Die(a)
    BY <1>3, <1>7 DEF Die
  <1>8. ASSUME NEW x, NEW force, BeginDelete(a, x, force) PROVE UNCHANGED <<items, plan>>
    BY <1>8 DEF BeginDelete, database
  <1>9. CASE PurgeLedger(a)
    BY <1>4, <1>9 DEF PurgeLedger, database
  <1>10. CASE PurgeLines(a)
    BY <1>3, <1>4, <1>10 DEF PurgeLines, database
  <1> QED
    BY <1>1, <1>4, <1>5, <1>6, <1>7, <1>8, <1>9, <1>10, <1>11
    DEF Administer, BeginSave, BeginImport, BeginBackfill

\* For any stores, products, users and number of administrators, whatever is
\* deleted, generated, received, submitted, imported or seeded meanwhile: the
\* tables refer to rows that exist, and neither a place nor a tag has two items
\* (models.py, the foreign keys and the unique keys).
THEOREM TypeCorrect == Spec => []TypeOK
  <1>1. IInv /\ Unique /\ [Next]_vars => Unique'
    <2> SUFFICES ASSUME IInv, Unique, [Next]_vars PROVE Unique'
      OBVIOUS
    <2>1. CASE UNCHANGED vars
      BY <2>1 DEF vars, database, Unique
    <2> QED
      BY <2>1, WorkUnique, AdministerUnique DEF Next
  <1>2. IInv /\ Unique => TypeOK
    BY DEF IInv, Unique, Tables, Requests, TypeOK, Consistent
  <1> QED
    BY <1>1, <1>2, InitUnique, Invariance, PTL DEF Spec

-----------------------------------------------------------------------------
\* Nobody but a changes how far a's request is.
LEMMA OwnStep ==
  ASSUME IInv, [Next]_vars, NEW a \in Admin
  PROVE  \/ pc'[a] = pc[a] \/ pc[a] = "idle"
         \/ PurgeLedger(a) \/ PurgeLines(a) \/ CommitDelete(a) \/ FlushProduct(a) \/ CommitPlan(a)
         \/ Die(a)
  <1>1. CASE Work
    BY <1>1 DEF Work, Commit
  <1>2. ASSUME NEW b \in Admin, b # a, Administer(b) PROVE pc'[a] = pc[a]
    BY <1>2 DEF Administer, BeginDelete, StartPurge, Begin, PurgeLedger, PurgeLines, CommitDelete,
                BeginSave, FlushProduct, BeginImport, BeginBackfill, BeginPlan, CommitPlan, Die, Fail,
                End, IInv, Requests
  <1>3. CASE Administer(a)
    BY <1>3 DEF Administer, BeginDelete, StartPurge, BeginSave, BeginImport, BeginBackfill, BeginPlan,
                Begin
  <1>4. CASE UNCHANGED vars
    BY <1>4 DEF vars
  <1> QED
    BY <1>1, <1>2, <1>3, <1>4 DEF Next

\* A ledger row that is there still or only detached has not gone.
LEMMA Stays ==
  ASSUME NEW row \in ledger, row \in ledger' \/ [row EXCEPT !.line = None] \in ledger', IInv
  PROVE  [row EXCEPT !.line = None] \in {[r EXCEPT !.line = None] : r \in ledger'}
  <1>1. row \in LedgerRow
    BY DEF IInv, Tables
  <1>2. [[row EXCEPT !.line = None] EXCEPT !.line = None] = [row EXCEPT !.line = None]
    BY <1>1 DEF LedgerRow
  <1> QED
    BY <1>2

\* What a deletion takes when it commits is the target's, and it was confirmed.
LEMMA DeletedConfirmed ==
  ASSUME IInv, NEW a \in Admin, CommitDelete(a), NEW row, Names(purge[a].target, row),
         purge[a].force
  PROVE  Confirmed(row) \/ UNCHANGED database
  <1>1. pc[a] = "delete" /\ purge[a] # None
    BY DEF CommitDelete, IInv, Requests, Purging
  <1>2. CASE stores' = stores \ {purge[a].target} /\ products' = products \ {purge[a].target}
    BY <1>1, <1>2 DEF Confirmed
  <1> QED
    BY <1>2 DEF CommitDelete, Fail

\* Of the administrators' steps only the commit of a deletion takes anything.
LEMMA OthersTakeNothing ==
  ASSUME NEW a \in Admin, Administer(a), ~ CommitDelete(a)
  PROVE  UNCHANGED <<ledger, requests, lines>>
  BY DEF Administer, BeginDelete, PurgeLedger, PurgeLines, BeginSave, FlushProduct, BeginImport,
         BeginBackfill, BeginPlan, CommitPlan, Die, Fail, database

\* A ledger row that goes was in the purge of a confirmed deletion.
LEMMA LedgerGoesConfirmed ==
  ASSUME IInv, [Next]_vars, NEW row \in ledger,
         [row EXCEPT !.line = None] \notin {[r EXCEPT !.line = None] : r \in ledger'}
  PROVE  Confirmed(row)
  <1>1. row \notin ledger' /\ [row EXCEPT !.line = None] \notin ledger'
    BY Stays
  <1>2. ~ Work
    <2>1. ASSUME NEW s \in stores, NEW P \in SUBSET Product, Generate(s, P) PROVE FALSE
      <3>1. (IF row.store = s THEN [row EXCEPT !.line = None] ELSE row) \in ledger'
        BY <2>1 DEF Generate, Record
      <3> QED
        BY <1>1, <3>1
    <2> QED
      BY <1>1, <2>1 DEF Work, SaveStore, SaveItem, DeleteItem, SaveHome, Seed, Move, Audit, Submit,
                        Receive, Record
  <1>3. PICK a \in Admin : Administer(a)
    BY <1>1, <1>2 DEF Next, vars, database
  <1>4. CommitDelete(a)
    BY <1>1, <1>3, OthersTakeNothing
  <1>5. row \in purge[a].ledger /\ pc[a] = "delete" /\ ~ UNCHANGED database
    BY <1>1, <1>4 DEF CommitDelete, Fail, database
  <1>6. PurgeSound(a)
    BY <1>5 DEF IInv, Purging
  <1> QED
    BY <1>4, <1>5, <1>6, DeletedConfirmed DEF PurgeSound

\* A request that goes was one of the ids that a confirmed deletion of its store
\* had read.
LEMMA RequestGoesConfirmed ==
  ASSUME IInv, [Next]_vars, NEW s \in Store, requests[s] # "none", requests'[s] = "none"
  PROVE  s \notin stores' /\ Confirmed([store |-> s, product |-> None])
  <1>1. requests \in [Store -> {"none", "draft", "sent"}]
    BY DEF IInv, Tables
  <1>2. ~ Work
    BY <1>1 DEF Work, SaveStore, SaveItem, DeleteItem, SaveHome, Seed, Move, Generate, Audit, Submit,
                Receive
  <1>3. PICK a \in Admin : Administer(a)
    BY <1>2 DEF Next, vars, database
  <1>4. CommitDelete(a) /\ ~ UNCHANGED database
    BY <1>3, OthersTakeNothing DEF database
  <1>5. s \in purge[a].requests /\ pc[a] = "delete" /\ stores' = stores \ {purge[a].target}
    BY <1>1, <1>4 DEF CommitDelete, Fail
  <1>6. purge[a].target = s /\ purge[a].force
    BY <1>5 DEF IInv, Purging, PurgeSound
  <1>7. Names(purge[a].target, [store |-> s, product |-> None])
    BY <1>6 DEF Names
  <1> QED
    BY <1>4, <1>5, <1>6, <1>7, DeletedConfirmed

\* A request line that goes was purged, or its draft is refreshed.
LEMMA LineGoesConfirmed ==
  ASSUME IInv, [Next]_vars, NEW row \in lines, row \notin lines'
  PROVE  \/ Confirmed(row)
         \/ requests[row.store] = "draft" /\ requests'[row.store] = "draft" /\ row.store \in stores'
  <1>1. /\ requests \in [Store -> {"none", "draft", "sent"}]
        /\ row.store \in Store /\ row.store \in stores /\ requests[row.store] # "none"
    BY DEF IInv, Tables, Place
  <1>2. CASE Work
    <2>1. PICK s \in stores, P \in SUBSET Product : Generate(s, P)
      BY <1>2 DEF Work, SaveStore, SaveItem, DeleteItem, SaveHome, Seed, Move, Audit, Submit, Receive
    <2>2. row.store = s /\ requests[s] # "sent" /\ requests' = [requests EXCEPT ![s] = "draft"]
          /\ stores' = stores
      BY <2>1 DEF Generate
    <2> QED
      BY <1>1, <2>2
  <1>3. CASE ~ Work
    <2>1. PICK a \in Admin : Administer(a)
      BY <1>3 DEF Next, vars, database
    <2>2. CommitDelete(a) /\ ~ UNCHANGED database
      BY <2>1, OthersTakeNothing DEF database
    <2>3. row \in purge[a].lines /\ pc[a] = "delete"
      BY <2>2 DEF CommitDelete, Fail
    <2>4. PurgeSound(a)
      BY <2>3 DEF IInv, Purging
    <2>5. purge[a].force /\ Names(purge[a].target, row)
      BY <2>3, <2>4 DEF PurgeSound, Names
    <2> QED
      BY <2>2, <2>5, DeletedConfirmed
  <1> QED
    BY <1>2, <1>3

LEMMA NextGoesConfirmed == IInv /\ [Next]_vars => GoesConfirmed
  BY LedgerGoesConfirmed, RequestGoesConfirmed, LineGoesConfirmed DEF GoesConfirmed

\* DELETE FROM the request lines, not raced: a ledger row that names one and is
\* not the target's own can only be a substitute's.
LEMMA PurgeLinesExcusable ==
  ASSUME IInv, NEW a \in Admin, PurgeLines(a), ~ raced[a], pc'[a] = "idle"
  PROVE  Substituted(purge[a].target)
  <1> DEFINE p == purge[a]
             x == p.target
  <1>1. pc[a] = "lines" /\ \E row \in ledger \ p.ledger : LineOf(row) \in DoomedLines(a)
    BY DEF PurgeLines, IInv, Requests
  <1>2. PICK row \in ledger \ p.ledger : LineOf(row) \in DoomedLines(a)
    BY <1>1
  <1>3. PurgeSound(a) /\ PurgeCurrent(a)
    BY <1>1 DEF IInv, Undisturbed, Purging
  <1>4. row.store # x /\ row.product # x
    BY <1>1, <1>3 DEF PurgeSound, PurgeCurrent, Names
  <1>5. LineOf(row).store = row.store /\ LineOf(row).product = row.line
    BY DEF LineOf
  <1>6. row.line = x
    BY <1>2, <1>3, <1>4, <1>5 DEF DoomedLines, PurgeSound
  <1> QED
    BY <1>4, <1>6 DEF Substituted

\* DELETE of the target, not raced: no row names it any more.
LEMMA CommitDeleteSucceeds ==
  ASSUME IInv, NEW a \in Admin, CommitDelete(a), ~ raced[a]
  PROVE  reply'[a] = "done"
  <1> DEFINE p == purge[a]
             x == p.target
             kept == IF p.history THEN {i \in items : ~ Names(x, i)} ELSE items
             left == (ledger \ p.ledger) \union (lines \ p.lines) \union kept
  <1>1. pc[a] = "delete"
    BY DEF CommitDelete
  <1>2. p \in Purge /\ PurgeCurrent(a)
    BY <1>1 DEF IInv, Requests, Undisturbed, Purging
  <1>3. \A row \in left : ~ Names(x, row)
    <2>1. CASE p.history
      BY <1>1, <1>2, <2>1 DEF PurgeCurrent
    <2>2. CASE ~ p.history
      <3>1. /\ \A row \in items \union ledger : ~ Names(x, row)
            /\ ~ (x \in Store /\ requests[x] # "none")
            /\ ~ (x \in Product /\ \E row \in lines : row.product = x)
        BY <1>2, <2>2 DEF PurgeCurrent, HasHistory
      <3>2. ASSUME NEW row \in lines, Names(x, row) PROVE FALSE
        <4>1. row.store \in Store /\ row.product \in Product /\ requests[row.store] # "none"
          BY DEF IInv, Tables, Place
        <4> QED
          BY <3>1, <3>2, <4>1 DEF Names
      <3> QED
        BY <3>1, <3>2, <2>2
    <2> QED
      BY <2>1, <2>2
  <1>4. x \in Store /\ requests[x] # "none" => x \in p.requests
    BY <1>2 DEF PurgeCurrent
  <1>5. \A u \in User : HomeWithout(x)[u] # x
    BY <1>2, NoneIsNothing DEF HomeWithout, Purge
  <1>6. End(a, "done")
    BY <1>3, <1>4, <1>5 DEF CommitDelete
  <1> QED
    BY <1>6 DEF End, IInv, Requests

\* The flush, not raced: only a code in use fails it.
LEMMA FlushExcusable ==
  ASSUME IInv, NEW a \in Admin, FlushProduct(a), ~ raced[a], pc'[a] = "idle"
  PROVE  pc[a] = "save" /\ CodeInUse(a) /\ reply'[a] = "error"
  <1>1. pc[a] = "save" /\ Fail(a, "error")
        /\ (plan[a].new \intersect products # {} \/ ~ plan[a].touched \subseteq products)
    BY DEF FlushProduct, IInv, Requests
  <1>2. plan[a].touched \subseteq products
    BY <1>1 DEF IInv, Undisturbed, PlanCurrent, Planning
  <1> QED
    BY <1>1, <1>2 DEF CodeInUse, Fail, End, IInv, Requests

\* The insertion, not raced: the keys let in what was found missing, unless the
\* code of a saved product is in use or two rows of an import have one tag.
LEMMA CommitPlanExcusable ==
  ASSUME IInv, NEW a \in Admin, CommitPlan(a), ~ raced[a]
  PROVE  /\ pc[a] = "assign"
         /\ reply'[a] = "refused" => CodeInUse(a)
         /\ reply'[a] = "error" => plan[a].op = "import" /\ SharedTag(plan[a].rows)
  <1>1. pc[a] = "assign"
    BY DEF CommitPlan
  <1>2. PlanCurrent(a) /\ PlanSound(a)
    BY <1>1 DEF IInv, Undisturbed, Planning
  <1>3. \A outcome : End(a, outcome) => reply'[a] = outcome
    BY DEF End, IInv, Requests
  <1>4. ~ Accepted(plan[a]) => plan[a].new \intersect products # {} \/ SharedTag(plan[a].rows)
    BY <1>2 DEF Accepted, PlanCurrent, SharedTag
  <1>5. \/ ~ Accepted(plan[a]) /\ plan[a].op = "save" /\ reply'[a] = "refused"
        \/ ~ Accepted(plan[a]) /\ plan[a].op # "save" /\ reply'[a] = "error"
        \/ reply'[a] = "done"
    BY <1>2, <1>3 DEF CommitPlan, Fail, PlanCurrent
  <1> QED
    BY <1>1, <1>2, <1>4, <1>5 DEF PlanCurrent, PlanSound, CodeInUse

LEMMA NextExcusable == IInv /\ [Next]_vars => \A a \in Admin : Excusable(a)
  <1> SUFFICES ASSUME IInv, [Next]_vars, NEW a \in Admin,
                      pc[a] # "idle", pc'[a] = "idle", ~ raced[a]
               PROVE  Excusable(a)
    BY DEF Excusable
  <1>1. \/ PurgeLedger(a) \/ PurgeLines(a) \/ CommitDelete(a) \/ FlushProduct(a) \/ CommitPlan(a)
        \/ Die(a)
    BY OwnStep
  <1>2. \A outcome : End(a, outcome) => reply'[a] = outcome
    BY DEF End, IInv, Requests
  <1>3. CASE Die(a)
    BY <1>2, <1>3 DEF Die, Fail, Excusable
  <1>4. ~ PurgeLedger(a)
    BY DEF PurgeLedger, IInv, Requests
  <1>5. CASE CommitDelete(a)
    BY <1>5, CommitDeleteSucceeds DEF Excusable
  <1>6. CASE PurgeLines(a)
    <2>1. pc[a] = "lines" /\ Fail(a, "error")
      BY <1>6 DEF PurgeLines, IInv, Requests
    <2> QED
      BY <1>2, <1>6, <2>1, PurgeLinesExcusable DEF Fail, Excusable
  <1>7. CASE FlushProduct(a)
    BY <1>7, FlushExcusable DEF Excusable
  <1>8. CASE CommitPlan(a)
    BY <1>8, CommitPlanExcusable DEF Excusable
  <1> QED
    BY <1>1, <1>3, <1>4, <1>5, <1>6, <1>7, <1>8

LEMMA NextComplete == IInv /\ [Next]_vars => \A a \in Admin : Complete(a)
  <1> SUFFICES ASSUME IInv, [Next]_vars, NEW a \in Admin,
                      plan[a] # None, reply'[a] = "done", pc'[a] = "idle", ~ raced[a],
                      NEW p \in plan[a].products, NEW s \in plan[a].stores
               PROVE  \E i \in items' : i.store = s /\ i.product = p
    BY DEF Complete
  <1>1. pc[a] \in Planning
    BY DEF IInv, Requests
  <1>2. FlushProduct(a) \/ CommitPlan(a) \/ Die(a)
    BY <1>1, OwnStep DEF PurgeLedger, PurgeLines, CommitDelete, Planning
  <1>3. ~ Die(a) /\ ~ FlushProduct(a)
    BY DEF Die, FlushProduct, Fail, End, IInv, Requests
  <1>4. items' = items \union plan[a].rows
    BY <1>2, <1>3 DEF CommitPlan, Fail, End, IInv, Requests
  <1>5. PlanCurrent(a)
    BY <1>1 DEF IInv, Undisturbed
  <1> QED
    BY <1>4, <1>5 DEF PlanCurrent

\* However the administrators' requests interleave with one another and with
\* what stores record: a ledger row, a request or a request line goes only with
\* the store or product it belongs to, in a deletion that was confirmed, or a
\* line when its draft is refreshed (stores_delete, products_delete).
THEOREM HistoryConfirmed == Spec => HistoryGoesConfirmed
  BY Invariance, NextGoesConfirmed, PTL DEF Spec, HistoryGoesConfirmed

\* A request that is not raced ends in an error in three cases only: a code in
\* use at the flush of products_save, a substitute's ledger row naming a line of
\* the deleted product, one tag for two rows of an import.  Apart from these
\* the order in which a deletion goes through the tables, and what an assignment
\* takes for missing, leave no foreign key or unique key to break.
THEOREM UndisturbedOk == Spec => UndisturbedSucceeds
  BY Invariance, NextExcusable, PTL DEF Spec, UndisturbedSucceeds

\* inventory_backfill, products_save and products_import: an assignment that is
\* not raced leaves no place without an item.
THEOREM AssignmentsComplete == Spec => AssignmentComplete
  BY Invariance, NextComplete, PTL DEF Spec, AssignmentComplete
=============================================================================
