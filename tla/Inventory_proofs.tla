--------------------------- MODULE Inventory_proofs ---------------------------
(***************************************************************************)
(* Theorems about Inventory, for any number of sessions, items, keys and   *)
(* requests.  The inductive invariant says what a session that is about to *)
(* commit has established: its request is well formed, an undo still names *)
(* the removal it was checked against, it holds its row lock, and a        *)
(* receipt that holds one has read the current count.                      *)
(***************************************************************************)
EXTENDS Inventory, TLAPS

\* What is known of the request of a session that is not idle.
WellFormed(s) ==
  /\ req[s] \in Request
  /\ reply[s] = "none"
  /\ req[s].kind \in {"STORE_REMOVAL", "COUNT_ADJUSTMENT"} =>
       req[s].key = NoKey /\ pc[s] # "loaded"
  /\ req[s].kind = "STORE_REMOVAL" => req[s].amount > 0
  /\ req[s].kind = "UNLEASHED_RECEIPT" =>
       /\ req[s].amount > 0
       /\ req[s].amount \in Quantity
       /\ \E k \in ReceiptKey : req[s].key = RecvKey(k)
       /\ pc[s] # "loaded"
       /\ pc[s] = "ready" => seen[s] = None
  /\ req[s].kind = "SCAN_UNDO" /\ pc[s] # "loaded" => req[s].amount > 0
  /\ pc[s] = "locked" => seen[s] \in Int

\* An undo names a removal; once checked it also carries its item and amount.
UndoNamesRemoval(s) ==
  req[s].kind = "SCAN_UNDO" =>
    \E r \in Removals :
      /\ req[s].key = UndoKey(r)
      /\ pc[s] # "loaded" => req[s].item = ledger[r].item /\ req[s].amount = - ledger[r].delta

RequestsFormed == \A s \in Session : pc[s] # "idle" => WellFormed(s) /\ UndoNamesRemoval(s)

\* A row lock is held by exactly the session that is between the locking
\* query and the end of its transaction.
LocksHeld ==
  \A s \in Session :
    /\ \A i \in Item : holder[i] = s => pc[s] = "locked" /\ req[s].item = i
    /\ RowLocks /\ pc[s] = "locked" => holder[req[s].item] = s /\ req[s].item \in rows

\* A receipt that holds the row lock works on the current count.
ReceiptsFresh ==
  RowLocks => \A s \in Session :
    pc[s] = "locked" /\ req[s].kind = "UNLEASHED_RECEIPT" => seen[s] = count[req[s].item]

\* A receipt row adds a quantity under a receipt key.
ReceiptRowsFormed ==
  \A n \in DOMAIN ledger : ledger[n].kind = "UNLEASHED_RECEIPT" =>
    ledger[n].delta \in Quantity /\ \E k \in ReceiptKey : ledger[n].key = RecvKey(k)

IInv ==
  /\ TypeOK
  /\ RequestsFormed
  /\ LocksHeld
  /\ ReceiptsFresh
  /\ ReceiptRowsFormed
  /\ KeysUnique
  /\ AcknowledgedIsCommitted

USE QuantityAssumption, TargetAssumption, RowLocksAssumption, NoneAssumption

-----------------------------------------------------------------------------
\* Appending a row keeps the rows there were and adds one at the end.
LEMMA AppendKeeps ==
  ASSUME NEW S, NEW q \in Seq(S), NEW x \in S
  PROVE  /\ Append(q, x) \in Seq(S)
         /\ DOMAIN q = 1 .. Len(q)
         /\ DOMAIN Append(q, x) = 1 .. (Len(q) + 1)
         /\ Len(q) \in Nat
         /\ \A n \in DOMAIN q : Append(q, x)[n] = q[n]
         /\ Append(q, x)[Len(q) + 1] = x
  OBVIOUS

\* The initial state satisfies the invariant.
LEMMA InitInvariant == Init => IInv
  <1> SUFFICES ASSUME Init PROVE IInv
    OBVIOUS
  <1>1. ledger \in Seq(Row) /\ DOMAIN ledger = {}
    BY DEF Init
  <1>2. TypeOK
    BY <1>1 DEF Init, TypeOK, Removals
  <1>3. RequestsFormed /\ LocksHeld /\ ReceiptsFresh
    BY DEF Init, RequestsFormed, LocksHeld, ReceiptsFresh
  <1>4. ReceiptRowsFormed /\ KeysUnique
    BY <1>1 DEF ReceiptRowsFormed, KeysUnique
  <1>5. AcknowledgedIsCommitted
    BY DEF Init, AcknowledgedIsCommitted
  <1> QED
    BY <1>2, <1>3, <1>4, <1>5 DEF IInv

\* Accepting a request whose record is well formed keeps the invariant.
LEMMA AcceptInvariant ==
  ASSUME IInv, NEW s \in Session, NEW phase \in {"loaded", "ready"}, NEW kind \in Kind,
         NEW i \in Item, NEW amount \in Int, NEW key \in Key, NEW cached \in Int \union {None},
         Accept(s, phase, kind, i, amount, key, cached),
         WellFormed(s)', UndoNamesRemoval(s)'
  PROVE  IInv'
  <1> USE DEF IInv
  <1>1. TypeOK'
    <2>1. [kind |-> kind, item |-> i, amount |-> amount, key |-> key] \in Request
      BY DEF Request
    <2> QED
      BY <2>1 DEF TypeOK, Accept, Removals
  <1>2. RequestsFormed'
    <2> SUFFICES ASSUME NEW t \in Session, pc'[t] # "idle"
                 PROVE  WellFormed(t)' /\ UndoNamesRemoval(t)'
      BY DEF RequestsFormed
    <2>1. CASE t = s
      BY <2>1
    <2>2. CASE t # s
      <3>1. /\ pc'[t] = pc[t] /\ req'[t] = req[t] /\ seen'[t] = seen[t] /\ reply'[t] = reply[t]
            /\ ledger' = ledger
        BY <2>2 DEF Accept, TypeOK
      <3>2. WellFormed(t) /\ UndoNamesRemoval(t)
        BY <3>1 DEF RequestsFormed
      <3> QED
        BY <3>1, <3>2 DEF WellFormed, UndoNamesRemoval, Removals
    <2> QED
      BY <2>1, <2>2
  <1>3. LocksHeld'
    BY DEF LocksHeld, Accept, TypeOK
  <1>4. ReceiptsFresh'
    BY DEF ReceiptsFresh, Accept, TypeOK
  <1>5. ReceiptRowsFormed' /\ KeysUnique'
    BY DEF ReceiptRowsFormed, KeysUnique, Accept
  <1>6. AcknowledgedIsCommitted'
    BY DEF AcknowledgedIsCommitted, Accept, TypeOK, KeyUsed
  <1> QED
    BY <1>1, <1>2, <1>3, <1>4, <1>5, <1>6

\* A request that ends without writing keeps the invariant, as long as it is
\* told "duplicate" only when its key is in the ledger or a reference is gone.
LEMMA FinishInvariant ==
  ASSUME IInv, NEW s \in Session, NEW answer \in {"duplicate", "error"},
         pc[s] # "idle", Finish(s, answer), UNCHANGED <<count, ledger>>,
         answer = "duplicate" => KeyUsed(req[s].key) \/ s \in dangling
  PROVE  IInv'
  <1> USE DEF IInv
  <1>1. TypeOK'
    BY DEF TypeOK, Finish, Removals
  <1>2. RequestsFormed'
    <2> SUFFICES ASSUME NEW t \in Session, pc'[t] # "idle"
                 PROVE  WellFormed(t)' /\ UndoNamesRemoval(t)'
      BY DEF RequestsFormed
    <2>1. t # s
      BY DEF Finish, TypeOK
    <2>2. /\ pc'[t] = pc[t] /\ req'[t] = req[t] /\ seen'[t] = seen[t] /\ reply'[t] = reply[t]
          /\ ledger' = ledger
      BY <2>1 DEF Finish, TypeOK
    <2>3. WellFormed(t) /\ UndoNamesRemoval(t)
      BY <2>2 DEF RequestsFormed
    <2> QED
      BY <2>2, <2>3 DEF WellFormed, UndoNamesRemoval, Removals
  <1>3. LocksHeld'
    BY DEF LocksHeld, Finish, TypeOK, RequestsFormed, WellFormed, Request
  <1>4. ReceiptsFresh'
    BY DEF ReceiptsFresh, Finish, TypeOK
  <1>5. ReceiptRowsFormed' /\ KeysUnique'
    BY DEF ReceiptRowsFormed, KeysUnique
  <1>6. AcknowledgedIsCommitted'
    BY DEF AcknowledgedIsCommitted, Finish, TypeOK, KeyUsed
  <1> QED
    BY <1>1, <1>2, <1>3, <1>4, <1>5, <1>6

\* Every way a request begins is well formed.
LEMMA BeginInvariant ==
  ASSUME IInv, NEW s \in Session, Begin(s)
  PROVE  IInv'
  <1> USE DEF IInv
  <1>1. ASSUME NEW i \in Item, NEW q \in Quantity, BeginRemoval(s, i, q)
        PROVE  IInv'
    <2>1. WellFormed(s)' /\ UndoNamesRemoval(s)'
      BY <1>1 DEF BeginRemoval, Accept, WellFormed, UndoNamesRemoval, Request, Kind, Key, NoKey, TypeOK
    <2> QED
      BY <1>1, <2>1, AcceptInvariant DEF BeginRemoval, Kind, Key, NoKey, TypeOK
  <1>2. ASSUME NEW i \in Item, NEW c \in Target, BeginAdjustment(s, i, c)
        PROVE  IInv'
    <2>1. WellFormed(s)' /\ UndoNamesRemoval(s)'
      BY <1>2 DEF BeginAdjustment, Accept, WellFormed, UndoNamesRemoval, Request, Kind, Key, NoKey, TypeOK
    <2> QED
      BY <1>2, <2>1, AcceptInvariant DEF BeginAdjustment, Kind, Key, NoKey, TypeOK
  <1>3. ASSUME NEW i \in Item, NEW r \in Removals, BeginUndo(s, i, r)
        PROVE  IInv'
    <2>1. r \in Nat
      BY DEF Removals, TypeOK
    <2>2. WellFormed(s)' /\ UndoNamesRemoval(s)'
      BY <1>3, <2>1
      DEF BeginUndo, Accept, WellFormed, UndoNamesRemoval, Request, Kind, Key, UndoKey, TypeOK, Removals
    <2>3. Accept(s, "loaded", "SCAN_UNDO", i, 0, UndoKey(r), count[i])
      BY <1>3 DEF BeginUndo
    <2>4. "SCAN_UNDO" \in Kind /\ UndoKey(r) \in Key /\ count[i] \in Int \union {None}
      BY <2>1 DEF Kind, Key, UndoKey, TypeOK
    <2>5. PICK nothing \in Int : nothing = 0
      OBVIOUS
    <2>6. Accept(s, "loaded", "SCAN_UNDO", i, nothing, UndoKey(r), count[i])
      BY <2>3, <2>5
    <2> QED
      BY <2>2, <2>4, <2>6, AcceptInvariant
  <1>4. ASSUME NEW i \in Item, NEW k \in ReceiptKey, NEW q \in Quantity, BeginReceipt(s, i, k, q)
        PROVE  IInv'
    <2>1. WellFormed(s)' /\ UndoNamesRemoval(s)'
      BY <1>4
      DEF BeginReceipt, Accept, WellFormed, UndoNamesRemoval, Request, Kind, Key, RecvKey, TypeOK
    <2> QED
      BY <1>4, <2>1, AcceptInvariant DEF BeginReceipt, Kind, Key, RecvKey, TypeOK
  <1> QED
    BY <1>1, <1>2, <1>3, <1>4 DEF Begin

\* Checking an undo either ends it or leaves it with the removal's item and
\* amount.
LEMMA CheckUndoInvariant ==
  ASSUME IInv, NEW s \in Session, CheckUndo(s)
  PROVE  IInv'
  <1> USE DEF IInv
  <1> DEFINE r == req[s].key.of
  <1>1. /\ pc[s] = "loaded" /\ WellFormed(s)
        /\ req[s].kind = "SCAN_UNDO" /\ r \in Removals /\ req[s].key = UndoKey(r)
    <2>1. pc[s] = "loaded" /\ WellFormed(s) /\ UndoNamesRemoval(s)
      BY DEF CheckUndo, RequestsFormed
    <2>2. req[s].kind = "SCAN_UNDO"
      BY <2>1 DEF WellFormed, Request, Kind
    <2>3. PICK n \in Removals : req[s].key = UndoKey(n)
      BY <2>1, <2>2 DEF UndoNamesRemoval
    <2>4. r = n
      BY <2>3 DEF UndoKey
    <2> QED
      BY <2>1, <2>2, <2>3, <2>4
  <1>2. CASE Finish(s, "error") /\ UNCHANGED <<count, ledger>>
    BY <1>1, <1>2, FinishInvariant
  <1>3. CASE KeyUsed(UndoKey(r)) /\ Finish(s, "duplicate") /\ UNCHANGED <<count, ledger>>
    BY <1>1, <1>3, FinishInvariant
  <1>4. CASE /\ pc' = [pc EXCEPT ![s] = "ready"]
             /\ req' = [req EXCEPT ![s] = [kind |-> "SCAN_UNDO", item |-> ledger[r].item,
                                           amount |-> - ledger[r].delta, key |-> UndoKey(r)]]
             /\ Undoable(req[s].item, r)
             /\ UNCHANGED <<rows, count, ledger, expired, holder, seen, reply, dangling>>
    <2>1. ledger[r] \in Row /\ ledger[r].delta < 0 /\ r \in Nat /\ Removals' = Removals
      BY <1>1, <1>4 DEF Removals, TypeOK, Undoable
    <2>2. req'[s] \in Request
      BY <1>4, <2>1 DEF TypeOK, Request, Row, Kind, Key, UndoKey
    <2>3. TypeOK'
      BY <1>4, <2>1, <2>2 DEF TypeOK
    <2>4. ASSUME NEW t \in Session, pc'[t] # "idle"
          PROVE  WellFormed(t)' /\ UndoNamesRemoval(t)'
      <3>1. CASE t = s
        <4>1. /\ pc'[s] = "ready" /\ reply'[s] = "none" /\ seen'[s] = seen[s]
              /\ req'[s] = [kind |-> "SCAN_UNDO", item |-> ledger[r].item,
                            amount |-> - ledger[r].delta, key |-> UndoKey(r)]
          BY <1>1, <1>4 DEF WellFormed, TypeOK
        <4>2. WellFormed(s)'
          BY <2>1, <2>2, <4>1 DEF WellFormed, Row
        <4>3. UndoNamesRemoval(s)'
          BY <1>1, <1>4, <2>1, <4>1 DEF UndoNamesRemoval
        <4> QED
          BY <3>1, <4>2, <4>3
      <3>2. CASE t # s
        <4>1. /\ pc'[t] = pc[t] /\ req'[t] = req[t] /\ seen'[t] = seen[t] /\ reply'[t] = reply[t]
              /\ ledger' = ledger
          BY <1>4, <3>2 DEF TypeOK
        <4>2. WellFormed(t) /\ UndoNamesRemoval(t)
          BY <2>4, <4>1 DEF RequestsFormed
        <4> QED
          BY <4>1, <4>2 DEF WellFormed, UndoNamesRemoval, Removals
      <3> QED
        BY <3>1, <3>2
    <2>5. LocksHeld'
      BY <1>1, <1>4 DEF LocksHeld, TypeOK
    <2>6. ReceiptsFresh'
      BY <1>1, <1>4 DEF ReceiptsFresh, TypeOK
    <2>7. ReceiptRowsFormed' /\ KeysUnique'
      BY <1>4 DEF ReceiptRowsFormed, KeysUnique
    <2>8. AcknowledgedIsCommitted'
      BY <1>1, <1>4 DEF AcknowledgedIsCommitted, WellFormed, TypeOK, KeyUsed
    <2> QED
      BY <2>3, <2>4, <2>5, <2>6, <2>7, <2>8 DEF RequestsFormed
  <1> QED
    BY <1>2, <1>3, <1>4 DEF CheckUndo

\* Taking the row lock: a receipt reads the count only now.
LEMMA LockInvariant ==
  ASSUME IInv, NEW s \in Session, Lock(s)
  PROVE  IInv'
  <1> USE DEF IInv
  <1> DEFINE i == req[s].item
  <1>1. pc[s] = "ready" /\ WellFormed(s) /\ UndoNamesRemoval(s) /\ i \in Item
    BY DEF Lock, RequestsFormed, WellFormed, Request
  <1>2. /\ pc' = [pc EXCEPT ![s] = "locked"]
        /\ seen' = [seen EXCEPT ![s] = IF seen[s] = None THEN count[i] ELSE seen[s]]
        /\ holder' = IF RowLocks THEN [holder EXCEPT ![i] = s] ELSE holder
        /\ RowLocks => holder[i] = None
        /\ UNCHANGED <<rows, count, ledger, expired, req, reply, dangling>>
        /\ i \in rows
    BY DEF Lock, TypeOK
  <1>3. seen'[s] \in Int
    BY <1>1, <1>2 DEF TypeOK
  <1>4. TypeOK'
    BY <1>1, <1>2, <1>3 DEF TypeOK, Removals
  <1>5. ASSUME NEW t \in Session, pc'[t] # "idle"
        PROVE  WellFormed(t)' /\ UndoNamesRemoval(t)'
    <2>1. CASE t = s
      BY <1>1, <1>2, <1>3, <2>1 DEF WellFormed, UndoNamesRemoval, Removals, TypeOK
    <2>2. CASE t # s
      <3>1. /\ pc'[t] = pc[t] /\ req'[t] = req[t] /\ seen'[t] = seen[t] /\ reply'[t] = reply[t]
            /\ ledger' = ledger
        BY <1>2, <2>2 DEF TypeOK
      <3>2. WellFormed(t) /\ UndoNamesRemoval(t)
        BY <1>5, <3>1 DEF RequestsFormed
      <3> QED
        BY <3>1, <3>2 DEF WellFormed, UndoNamesRemoval, Removals
    <2> QED
      BY <2>1, <2>2
  <1>6. LocksHeld'
    <2>1. CASE RowLocks
      BY <1>1, <1>2, <2>1 DEF LocksHeld, TypeOK
    <2>2. CASE ~ RowLocks
      BY <1>1, <1>2, <2>2 DEF LocksHeld, TypeOK
    <2> QED
      BY <2>1, <2>2
  <1>7. ReceiptsFresh'
    BY <1>1, <1>2 DEF ReceiptsFresh, WellFormed, TypeOK
  <1>8. ReceiptRowsFormed' /\ KeysUnique'
    BY <1>2 DEF ReceiptRowsFormed, KeysUnique
  <1>9. AcknowledgedIsCommitted'
    BY <1>2 DEF AcknowledgedIsCommitted, TypeOK, KeyUsed
  <1> QED
    BY <1>4, <1>5, <1>6, <1>7, <1>8, <1>9 DEF RequestsFormed

\* The row that a commit appends.
NewRow(s) ==
  [item |-> req[s].item, kind |-> req[s].kind,
   delta |-> Delta(req[s].kind, req[s].amount, seen[s]), before |-> seen[s], key |-> req[s].key]

\* What a commit does to the ledger, the counts and the committing session.
LEMMA CommitEffect ==
  ASSUME IInv, NEW s \in Session, Commit(s)
  PROVE  /\ pc[s] = "locked" /\ WellFormed(s) /\ UndoNamesRemoval(s)
         /\ NewRow(s) \in Row /\ MovesAsItsKind(NewRow(s))
         /\ ledger' = Append(ledger, NewRow(s))
         /\ ledger' \in Seq(Row)
         /\ DOMAIN ledger = 1 .. Len(ledger) /\ Len(ledger) \in Nat
         /\ DOMAIN ledger' = 1 .. (Len(ledger) + 1)
         /\ \A n \in DOMAIN ledger : ledger'[n] = ledger[n]
         /\ ledger'[Len(ledger) + 1] = NewRow(s)
         /\ Removals \subseteq Removals'
         /\ count' \in [Item -> Int]
         /\ \A i \in Item : i # req[s].item => count'[i] = count[i]
         /\ ~ KeyUsed(req[s].key)
         /\ Finish(s, "applied")
  <1> USE DEF IInv
  <1>1. pc[s] = "locked" /\ WellFormed(s) /\ UndoNamesRemoval(s)
    BY DEF Commit, RequestsFormed
  <1>2. req[s].item \in Item /\ req[s].kind \in Kind /\ req[s].amount \in Int
        /\ req[s].key \in Key /\ seen[s] \in Int
    BY <1>1 DEF WellFormed, Request
  <1>3. Delta(req[s].kind, req[s].amount, seen[s]) \in Int
    BY <1>2 DEF Delta, Kind
  <1>4. NewRow(s) \in Row /\ MovesAsItsKind(NewRow(s))
    BY <1>1, <1>2, <1>3 DEF NewRow, Row, MovesAsItsKind, Delta, WellFormed
  <1>5. ledger' = Append(ledger, NewRow(s))
    BY DEF Commit, Write, NewRow
  <1>6. /\ ledger' \in Seq(Row)
        /\ DOMAIN ledger = 1 .. Len(ledger) /\ Len(ledger) \in Nat
        /\ DOMAIN ledger' = 1 .. (Len(ledger) + 1)
        /\ \A n \in DOMAIN ledger : ledger'[n] = ledger[n]
        /\ ledger'[Len(ledger) + 1] = NewRow(s)
    BY <1>4, <1>5, AppendKeeps DEF TypeOK
  <1>7. Removals \subseteq Removals'
    BY <1>6 DEF Removals
  <1>8. count' \in [Item -> Int] /\ \A i \in Item : i # req[s].item => count'[i] = count[i]
    BY <1>2, <1>3 DEF Commit, Write, TypeOK
  <1> QED
    BY <1>1, <1>4, <1>5, <1>6, <1>7, <1>8 DEF Commit

\* Committing keeps the invariant.
LEMMA CommitInvariant ==
  ASSUME IInv, NEW s \in Session, Commit(s)
  PROVE  IInv'
  <1> USE DEF IInv
  <1> DEFINE row == NewRow(s)
             last == Len(ledger) + 1
  <1>1. /\ pc[s] = "locked" /\ WellFormed(s) /\ UndoNamesRemoval(s)
        /\ row \in Row /\ MovesAsItsKind(row) /\ ledger' \in Seq(Row)
        /\ DOMAIN ledger = 1 .. Len(ledger) /\ Len(ledger) \in Nat
        /\ DOMAIN ledger' = 1 .. last
        /\ \A n \in DOMAIN ledger : ledger'[n] = ledger[n]
        /\ ledger'[last] = row
        /\ Removals \subseteq Removals'
        /\ count' \in [Item -> Int]
        /\ \A i \in Item : i # req[s].item => count'[i] = count[i]
        /\ ~ KeyUsed(req[s].key)
        /\ Finish(s, "applied")
    BY CommitEffect
  <1>2. /\ row.item = req[s].item /\ row.kind = req[s].kind /\ row.key = req[s].key
        /\ row.delta = Delta(req[s].kind, req[s].amount, seen[s])
    BY DEF NewRow
  <1> HIDE DEF row, last
  <1>3. TypeOK'
    <2>1. \A n \in DOMAIN ledger' : MovesAsItsKind(ledger'[n])
      <3> SUFFICES ASSUME NEW n \in DOMAIN ledger' PROVE MovesAsItsKind(ledger'[n])
        OBVIOUS
      <3>1. CASE n \in DOMAIN ledger
        <4>1. ledger'[n] = ledger[n] /\ MovesAsItsKind(ledger[n])
          BY <1>1, <3>1 DEF TypeOK
        <4> QED
          BY <4>1 DEF MovesAsItsKind
      <3>2. CASE n = last
        BY <1>1, <3>2 DEF MovesAsItsKind
      <3> QED
        BY <1>1, <3>1, <3>2 DEF last
    <2> QED
      BY <1>1, <2>1 DEF TypeOK, Finish
  <1>4. RequestsFormed'
    <2> SUFFICES ASSUME NEW t \in Session, pc'[t] # "idle"
                 PROVE  WellFormed(t)' /\ UndoNamesRemoval(t)'
      BY DEF RequestsFormed
    <2>1. t # s
      BY <1>1 DEF Finish, TypeOK
    <2>2. pc'[t] = pc[t] /\ req'[t] = req[t] /\ seen'[t] = seen[t] /\ reply'[t] = reply[t]
      BY <1>1, <2>1 DEF Finish, TypeOK
    <2>3. WellFormed(t) /\ UndoNamesRemoval(t)
      BY <2>2 DEF RequestsFormed
    <2>4. WellFormed(t)'
      BY <2>2, <2>3 DEF WellFormed
    <2>5. \A r \in Removals : r \in Removals' /\ ledger'[r] = ledger[r]
      BY <1>1 DEF Removals
    <2> QED
      BY <2>2, <2>3, <2>4, <2>5 DEF UndoNamesRemoval
  <1>5. LocksHeld'
    BY <1>1 DEF LocksHeld, Finish, TypeOK, RequestsFormed, WellFormed, Request
  <1>6. ReceiptsFresh'
    <2> SUFFICES ASSUME RowLocks, NEW t \in Session, pc'[t] = "locked",
                        req'[t].kind = "UNLEASHED_RECEIPT"
                 PROVE  seen'[t] = count'[req'[t].item]
      BY DEF ReceiptsFresh
    <2>1. t # s
      BY <1>1 DEF Finish, TypeOK
    <2>2. pc'[t] = pc[t] /\ req'[t] = req[t] /\ seen'[t] = seen[t]
      BY <1>1, <2>1 DEF Finish, TypeOK
    <2>3. holder[req[t].item] = t /\ holder[req[s].item] = s
      BY <1>1, <2>2 DEF LocksHeld
    <2>4. req[t].item \in Item /\ req[t].item # req[s].item
      BY <2>1, <2>2, <2>3 DEF RequestsFormed, WellFormed, Request
    <2> QED
      BY <1>1, <2>2, <2>4 DEF ReceiptsFresh
  <1>7. ReceiptRowsFormed'
    <2> SUFFICES ASSUME NEW n \in DOMAIN ledger', ledger'[n].kind = "UNLEASHED_RECEIPT"
                 PROVE  ledger'[n].delta \in Quantity /\ \E k \in ReceiptKey : ledger'[n].key = RecvKey(k)
      BY DEF ReceiptRowsFormed
    <2>1. CASE n \in DOMAIN ledger
      BY <1>1, <2>1 DEF ReceiptRowsFormed
    <2>2. CASE n = last
      BY <1>1, <1>2, <2>2 DEF WellFormed, Delta
    <2> QED
      BY <1>1, <2>1, <2>2 DEF last
  <1>8. KeysUnique'
    <2>1. \A n \in DOMAIN ledger : row.key = NoKey \/ ledger[n].key # row.key
      BY <1>1, <1>2 DEF KeyUsed
    <2> QED
      BY <1>1, <2>1 DEF KeysUnique, last
  <1>9. AcknowledgedIsCommitted'
    <2> SUFFICES ASSUME NEW t \in Session, req'[t].key # NoKey,
                        reply'[t] = "applied" \/ (reply'[t] = "duplicate" /\ t \notin dangling')
                 PROVE  KeyUsed(req[t].key)'
      BY <1>1 DEF AcknowledgedIsCommitted, Finish
    <2>1. CASE t = s
      <3>1. last \in DOMAIN ledger' /\ ledger'[last].key = req'[s].key
        BY <1>1, <1>2 DEF Finish, last
      <3> QED
        BY <2>1, <3>1 DEF KeyUsed
    <2>2. CASE t # s
      <3>1. reply'[t] = reply[t] /\ req'[t] = req[t] /\ dangling' = dangling
        BY <1>1, <2>2 DEF Finish, TypeOK
      <3>2. KeyUsed(req[t].key)
        BY <3>1 DEF AcknowledgedIsCommitted
      <3> QED
        BY <1>1, <3>1, <3>2 DEF KeyUsed, last
    <2> QED
      BY <2>1, <2>2
  <1> QED
    BY <1>3, <1>4, <1>5, <1>6, <1>7, <1>8, <1>9

\* Time passes over a removal, a row is deleted or set up, a reference goes.
Environment ==
  \/ \E s \in Session : Dangle(s)
  \/ \E r \in Removals : Expire(r)
  \/ \E i \in Item : DeleteRow(i) \/ \E c \in Target : CreateRow(i, c)

\* None of this disturbs a session that is about to commit: with row locks its
\* row can be neither deleted nor set up anew.
LEMMA EnvironmentInvariant ==
  ASSUME IInv, Environment
  PROVE  IInv'
  <1> USE DEF IInv
  <1>1. UNCHANGED <<ledger, holder, pc, req, reply>> /\ dangling \subseteq dangling'
    BY DEF Environment, Expire, DeleteRow, CreateRow, Dangle
  <1>2. \A s \in Session : seen'[s] \in {None, seen[s]} /\ (pc[s] = "locked" => seen'[s] = seen[s])
    BY DEF Environment, Expire, DeleteRow, CreateRow, Dangle, TypeOK
  <1>3. TypeOK'
    <2>1. CASE \E r \in Removals : Expire(r)
      BY <2>1 DEF TypeOK, Expire, Removals
    <2>2. CASE \E i \in Item : DeleteRow(i)
      BY <2>2 DEF TypeOK, DeleteRow, Removals
    <2>3. CASE \E i \in Item, c \in Target : CreateRow(i, c)
      BY <2>3 DEF TypeOK, CreateRow, Removals
    <2>4. CASE \E s \in Session : Dangle(s)
      BY <2>4 DEF TypeOK, Dangle, Removals
    <2> QED
      BY <2>1, <2>2, <2>3, <2>4 DEF Environment
  <1>4. RequestsFormed'
    <2> SUFFICES ASSUME NEW s \in Session, pc'[s] # "idle"
                 PROVE  WellFormed(s)' /\ UndoNamesRemoval(s)'
      BY DEF RequestsFormed
    <2>1. WellFormed(s) /\ UndoNamesRemoval(s)
      BY <1>1 DEF RequestsFormed
    <2> QED
      BY <1>1, <1>2, <2>1 DEF WellFormed, UndoNamesRemoval, Removals
  <1>5. LocksHeld'
    <2>1. \A s \in Session : RowLocks /\ pc[s] = "locked" => req[s].item \in rows'
      <3> SUFFICES ASSUME NEW s \in Session, RowLocks, pc[s] = "locked"
                   PROVE  req[s].item \in rows'
        OBVIOUS
      <3>1. holder[req[s].item] = s /\ req[s].item \in rows
        BY DEF LocksHeld
      <3> QED
        BY <3>1 DEF Environment, Expire, DeleteRow, CreateRow, Dangle
    <2> QED
      BY <1>1, <2>1 DEF LocksHeld
  <1>6. ReceiptsFresh'
    <2> SUFFICES ASSUME RowLocks, NEW s \in Session, pc[s] = "locked",
                        req[s].kind = "UNLEASHED_RECEIPT"
                 PROVE  seen'[s] = count'[req[s].item]
      BY <1>1 DEF ReceiptsFresh
    <2>1. req[s].item \in rows /\ seen[s] = count[req[s].item]
      BY DEF LocksHeld, ReceiptsFresh
    <2>2. count'[req[s].item] = count[req[s].item]
      BY <2>1 DEF Environment, Expire, DeleteRow, CreateRow, Dangle, TypeOK
    <2> QED
      BY <1>2, <2>1, <2>2
  <1> QED
    BY <1>1, <1>3, <1>4, <1>5, <1>6
    DEF ReceiptRowsFormed, KeysUnique, AcknowledgedIsCommitted, KeyUsed

\* Every step keeps the invariant.
LEMMA NextInvariant == IInv /\ [Next]_vars => IInv'
  <1> SUFFICES ASSUME IInv, [Next]_vars PROVE IInv'
    OBVIOUS
  <1>1. ASSUME NEW s \in Session, Begin(s) PROVE IInv'
    BY <1>1, BeginInvariant
  <1>2. ASSUME NEW s \in Session, Proceed(s) PROVE IInv'
    <2>1. CASE CheckUndo(s)
      BY <2>1, CheckUndoInvariant
    <2>2. CASE Lock(s)
      BY <2>2, LockInvariant
    <2>3. CASE LockMissing(s)
      BY <2>3, FinishInvariant DEF LockMissing
    <2>4. CASE Commit(s)
      BY <2>4, CommitInvariant
    <2>5. CASE CommitRejected(s)
      BY <2>5, FinishInvariant DEF CommitRejected
    <2> QED
      BY <1>2, <2>1, <2>2, <2>3, <2>4, <2>5 DEF Proceed
  <1>3. ASSUME NEW s \in Session, Abort(s) PROVE IInv'
    BY <1>3, FinishInvariant DEF Abort
  <1>4. CASE Environment
    BY <1>4, EnvironmentInvariant
  <1>5. CASE UNCHANGED vars
    <2>1. UNCHANGED <<rows, count, ledger, expired, holder, pc, req, seen, reply, dangling>>
      BY <1>5 DEF vars
    <2>2. TypeOK' /\ RequestsFormed'
      BY <2>1 DEF IInv, TypeOK, RequestsFormed, WellFormed, UndoNamesRemoval, Removals
    <2> QED
      BY <2>1, <2>2
      DEF IInv, LocksHeld, ReceiptsFresh, ReceiptRowsFormed, KeysUnique,
          AcknowledgedIsCommitted, KeyUsed
  <1> QED
    BY <1>1, <1>2, <1>3, <1>4, <1>5 DEF Next, Environment

-----------------------------------------------------------------------------
\* The inductive invariant holds in every reachable state.
THEOREM Invariance == Spec => []IInv
  BY InitInvariant, NextInvariant, PTL DEF Spec

\* Type correctness.
THEOREM TypeCorrect == Spec => []TypeOK
  BY Invariance, PTL DEF IInv

\* On either database, however many sessions race, no idempotency key is
\* committed twice: receipts and undos are applied at most once.
THEOREM MovementsOnce == Spec => []KeysUnique
  BY Invariance, PTL DEF IInv

\* Only a commit adds to the ledger.
LEMMA OtherStepsKeepLedger ==
  ASSUME [Next]_vars, \A s \in Session : ~ Commit(s)
  PROVE  ledger' = ledger
  <1>1. ASSUME NEW s \in Session, Begin(s) PROVE ledger' = ledger
    BY <1>1 DEF Begin, BeginRemoval, BeginAdjustment, BeginUndo, BeginReceipt, Accept
  <1>2. ASSUME NEW s \in Session, Proceed(s) PROVE ledger' = ledger
    BY <1>2 DEF Proceed, CheckUndo, Lock, LockMissing, CommitRejected
  <1>3. ASSUME NEW s \in Session, Abort(s) \/ Dangle(s) PROVE ledger' = ledger
    BY <1>3 DEF Abort, Dangle
  <1>4. CASE (\E r \in Removals : Expire(r))
             \/ (\E i \in Item : DeleteRow(i) \/ \E c \in Target : CreateRow(i, c))
    BY <1>4 DEF Expire, DeleteRow, CreateRow
  <1> QED
    BY <1>1, <1>2, <1>3, <1>4 DEF Next, vars

\* The row a commit adds for an undo carries the key, the item and the quantity
\* of the removal the undo was checked against, and the count it writes is the
\* count it loaded and that quantity.
LEMMA NextGivesBack == IInv /\ [Next]_vars => GivesBack
  <1> SUFFICES ASSUME IInv, [Next]_vars PROVE GivesBack
    OBVIOUS
  <1>1. ASSUME NEW s \in Session, Commit(s) PROVE GivesBack
    <2> DEFINE last == Len(ledger) + 1
    <2>1. /\ pc[s] = "locked" /\ WellFormed(s) /\ UndoNamesRemoval(s)
          /\ DOMAIN ledger = 1 .. Len(ledger) /\ Len(ledger) \in Nat
          /\ DOMAIN ledger' = 1 .. last
          /\ ledger'[last] = NewRow(s)
      BY <1>1, CommitEffect
    <2>2. DOMAIN ledger' \ DOMAIN ledger = {last}
      BY <2>1
    <2> SUFFICES ASSUME req[s].kind = "SCAN_UNDO"
                 PROVE  \E r \in Removals :
                          /\ req[s].key = UndoKey(r)
                          /\ req[s].item = ledger[r].item
                          /\ ledger'[last].delta = - ledger[r].delta
                          /\ seen[s] = count[req[s].item] =>
                               count'[req[s].item] = count[req[s].item] - ledger[r].delta
      BY <2>1, <2>2 DEF GivesBack, NewRow
    <2>3. PICK r \in Removals :
            /\ req[s].key = UndoKey(r)
            /\ req[s].item = ledger[r].item
            /\ req[s].amount = - ledger[r].delta
      BY <2>1 DEF UndoNamesRemoval
    <2>4. /\ Delta(req[s].kind, req[s].amount, seen[s]) = req[s].amount
          /\ req[s].amount # 0 /\ req[s].item \in Item
      BY <2>1 DEF Delta, WellFormed, Request
    <2>5. count' = [count EXCEPT ![req[s].item] = seen[s] + req[s].amount]
      BY <1>1, <2>4 DEF Commit, Write
    <2>6. count[req[s].item] \in Int /\ count \in [Item -> Int] /\ ledger[r].delta \in Int
      <3>1. ledger \in Seq(Row) /\ r \in DOMAIN ledger
        BY DEF IInv, TypeOK, Removals
      <3>2. ledger[r] \in Row
        BY <3>1
      <3> QED
        BY <2>4, <3>2 DEF IInv, TypeOK, Row
    <2>7. ledger'[last].delta = - ledger[r].delta
      BY <2>1, <2>3, <2>4 DEF NewRow
    <2>8. seen[s] = count[req[s].item] =>
            count'[req[s].item] = count[req[s].item] - ledger[r].delta
      BY <2>3, <2>4, <2>5, <2>6
    <2> QED
      BY <2>3, <2>7, <2>8
  <1>2. CASE \A s \in Session : ~ Commit(s)
    BY <1>2, OtherStepsKeepLedger DEF GivesBack
  <1> QED
    BY <1>1, <1>2

\* On either database, and whichever tag it is posted to, the step that commits
\* an undo reverses one removal: same item, same quantity, and the count itself
\* goes up by that quantity unless it has moved since the undo loaded it.
THEOREM UndosExact == Spec => UndoGivesBack
  BY Invariance, NextGivesBack, PTL DEF Spec, UndoGivesBack

\* A keyed movement reported as applied is in the ledger, and one reported as a
\* duplicate is too unless what it refers to was deleted meanwhile.
THEOREM RepliesTrue == Spec => []AcknowledgedIsCommitted
  BY Invariance, PTL DEF IInv

-----------------------------------------------------------------------------
\* Rows that are not receipts leave the received lines as they are.
LEMMA UnwrittenLines == ledger' = ledger => ReceivedLines' = ReceivedLines
  BY DEF ReceivedLines

\* With row locks a commit is a step of the promise: a receipt is received
\* exactly, any other movement leaves the receipts and the other items alone.
LEMMA CommitKeepsPromise ==
  ASSUME RowLocks, IInv, NEW s \in Session, Commit(s)
  PROVE  Promise!Next
  <1> DEFINE row == NewRow(s)
             last == Len(ledger) + 1
             line == [key |-> row.key.of, item |-> row.item, quantity |-> row.delta]
  <1>1. /\ pc[s] = "locked" /\ WellFormed(s)
        /\ row \in Row
        /\ DOMAIN ledger = 1 .. Len(ledger) /\ Len(ledger) \in Nat
        /\ DOMAIN ledger' = 1 .. last
        /\ \A n \in DOMAIN ledger : ledger'[n] = ledger[n]
        /\ ledger'[last] = row
        /\ count' \in [Item -> Int]
        /\ \A i \in Item : i # req[s].item => count'[i] = count[i]
        /\ ~ KeyUsed(req[s].key)
    BY CommitEffect
  <1>2. /\ row.item = req[s].item /\ row.kind = req[s].kind /\ row.key = req[s].key
        /\ row.delta = Delta(req[s].kind, req[s].amount, seen[s])
        /\ req[s].item \in Item
    BY <1>1 DEF NewRow, WellFormed, Request
  <1>3. CASE req[s].kind = "UNLEASHED_RECEIPT"
    <2>1. row.delta = req[s].amount /\ row.delta \in Quantity /\ row.delta \in Int
      BY <1>1, <1>2, <1>3 DEF Delta, WellFormed
    <2>2. PICK k \in ReceiptKey : row.key = RecvKey(k)
      BY <1>1, <1>2, <1>3 DEF WellFormed
    <2>3. line \in Promise!ReceiptLine
      BY <1>2, <2>1, <2>2 DEF Promise!ReceiptLine, RecvKey
    <2>4. ReceivedLines' = ReceivedLines \union {line}
      BY <1>1, <1>2, <1>3 DEF ReceivedLines
    <2>5. \A old \in ReceivedLines : old.key # line.key
      <3> SUFFICES ASSUME NEW n \in DOMAIN ledger, ledger[n].kind = "UNLEASHED_RECEIPT"
                   PROVE  ledger[n].key.of # line.key
        BY DEF ReceivedLines
      <3>1. PICK j \in ReceiptKey : ledger[n].key = RecvKey(j)
        BY DEF IInv, ReceiptRowsFormed
      <3>2. RecvKey(j) # RecvKey(k)
        BY <1>1, <1>2, <2>2, <3>1 DEF KeyUsed, RecvKey, NoKey
      <3> QED
        BY <2>2, <3>1, <3>2 DEF RecvKey
    <2>6. seen[s] = count[req[s].item]
      BY <1>1, <1>3 DEF IInv, ReceiptsFresh
    <2>7. count' = [count EXCEPT ![line.item] = @ + line.quantity]
      <3>1. count \in [Item -> Int]
        BY DEF IInv, TypeOK
      <3>2. count' = IF row.delta # 0 THEN [count EXCEPT ![req[s].item] = seen[s] + row.delta]
                     ELSE count
        BY <1>2 DEF Commit, Write
      <3>3. line.item = req[s].item /\ line.quantity = row.delta
        BY <1>2
      <3> HIDE DEF row, line
      <3>4. CASE row.delta # 0
        BY <2>6, <3>2, <3>3, <3>4
      <3>5. CASE row.delta = 0
        BY <1>2, <3>1, <3>2, <3>3, <3>5
      <3> QED
        BY <3>4, <3>5
    <2> QED
      BY <2>3, <2>4, <2>5, <2>7 DEF Promise!Next, Promise!Receive
  <1>4. CASE req[s].kind # "UNLEASHED_RECEIPT"
    <2>1. ReceivedLines' = ReceivedLines
      BY <1>1, <1>2, <1>4 DEF ReceivedLines
    <2> QED
      BY <1>1, <1>2, <2>1 DEF Promise!Next, Promise!OtherMovement
  <1> QED
    BY <1>3, <1>4

\* Setting up a row is another movement of its item.
LEMMA CreateKeepsPromise ==
  ASSUME IInv, NEW i \in Item, NEW c \in Target, CreateRow(i, c)
  PROVE  Promise!Next
  <1>1. count \in [Item -> Int] /\ count' = [count EXCEPT ![i] = c] /\ ledger' = ledger
    BY DEF IInv, TypeOK, CreateRow
  <1>2. ReceivedLines' = ReceivedLines
    BY <1>1, UnwrittenLines
  <1> QED
    BY <1>1, <1>2 DEF Promise!Next, Promise!OtherMovement

\* Every other step leaves the counts and the ledger alone.
LEMMA OtherStepsKeepPromise ==
  ASSUME [Next]_vars, \A s \in Session : ~ Commit(s),
         \A i \in Item, c \in Target : ~ CreateRow(i, c)
  PROVE  UNCHANGED <<count, ReceivedLines>>
  <1>1. ledger' = ledger
    BY OtherStepsKeepLedger
  <1>2. count' = count
    <2>1. ASSUME NEW s \in Session, Begin(s) PROVE count' = count
      BY <2>1 DEF Begin, BeginRemoval, BeginAdjustment, BeginUndo, BeginReceipt, Accept
    <2>2. ASSUME NEW s \in Session, Proceed(s) PROVE count' = count
      BY <2>2 DEF Proceed, CheckUndo, Lock, LockMissing, CommitRejected
    <2>3. ASSUME NEW s \in Session, Abort(s) \/ Dangle(s) PROVE count' = count
      BY <2>3 DEF Abort, Dangle
    <2>4. CASE (\E r \in Removals : Expire(r)) \/ (\E i \in Item : DeleteRow(i))
      BY <2>4 DEF Expire, DeleteRow
    <2> QED
      BY <2>1, <2>2, <2>3, <2>4 DEF Next, vars
  <1> QED
    BY <1>1, <1>2, UnwrittenLines

\* On Postgres the ledger implements the promise made to the receipt service:
\* under any interleaving with scans, undos, corrections and other receipts,
\* each line is added at most once and raises the count by its quantity.
THEOREM ReceiptPromiseKept ==
  ASSUME RowLocks
  PROVE  Spec => KeepsReceiptPromise
  <1>1. Init => Promise!Init
    BY DEF Init, Promise!Init, ReceivedLines
  <1>2. IInv /\ [Next]_vars => [Promise!Next]_<<count, ReceivedLines>>
    BY CommitKeepsPromise, CreateKeepsPromise, OtherStepsKeepPromise
  <1> QED
    BY <1>1, <1>2, Invariance, PTL DEF Spec, KeepsReceiptPromise, Promise!Spec
=============================================================================
