---------------------------- MODULE Receipt_proofs ----------------------------
(***************************************************************************)
(* That a request is called RECEIVED only when its ledger covers what was  *)
(* asked for, and that no line receives more than was shipped on it: for   *)
(* any lines, quantities, shipments, workers, settings and number of       *)
(* faults.                                                                 *)
(***************************************************************************)
EXTENDS Receipt, FiniteSetTheorems, TLAPS

-----------------------------------------------------------------------------
\* A total of finitely many natural numbers is one.
LEMMA UnitsFinite ==
  ASSUME NEW S, IsFiniteSet(S), NEW q, \A x \in S : q[x] \in Nat
  PROVE  IsFiniteSet(Units(S, q)) /\ Total(S, q) \in Nat
  <1> DEFINE Of == [x \in S |-> {x} \X (1 .. q[x])]
             all == {{x} \X (1 .. q[x]) : x \in S}
  <1>1. Of \in Surjection(S, all)
    BY DEF Surjection
  <1>2. IsFiniteSet(all)
    BY <1>1, FS_Surjection
  <1>3. ASSUME NEW x \in S PROVE IsFiniteSet({x} \X (1 .. q[x]))
    <2>1. IsFiniteSet({x})
      BY FS_Singleton
    <2>2. IsFiniteSet(1 .. q[x])
      BY FS_Interval
    <2> QED
      BY <2>1, <2>2, FS_Product
  <1>4. \A T \in all : IsFiniteSet(T)
    BY <1>3
  <1>5. IsFiniteSet(UNION all)
    BY <1>2, <1>4, FS_UNION
  <1> QED
    BY <1>5, FS_CardinalityType DEF Units, Total

\* A total grows when each of its terms is found, no smaller, among the terms
\* of the other.
LEMMA TotalGrows ==
  ASSUME NEW S, NEW T, IsFiniteSet(T), NEW q, NEW r, NEW f \in [S -> T],
         \A x, y \in S : f[x] = f[y] => x = y,
         \A x \in S : q[x] \in Nat /\ q[x] <= r[f[x]],
         \A y \in T : r[y] \in Nat
  PROVE  Total(S, q) <= Total(T, r)
  <1> DEFINE g == [u \in Units(S, q) |-> <<f[u[1]], u[2]>>]
  <1>1. ASSUME NEW u \in Units(S, q)
        PROVE  u[1] \in S /\ u[2] \in 1 .. q[u[1]] /\ u = <<u[1], u[2]>>
    BY DEF Units
  <1>2. ASSUME NEW u \in Units(S, q) PROVE <<f[u[1]], u[2]>> \in Units(T, r)
    <2>1. f[u[1]] \in T /\ u[2] \in 1 .. r[f[u[1]]]
      BY <1>1
    <2> QED
      BY <2>1 DEF Units
  <1>3. ASSUME NEW u \in Units(S, q), NEW v \in Units(S, q), g[u] = g[v] PROVE u = v
    BY <1>1, <1>3
  <1>4. g \in Injection(Units(S, q), Units(T, r))
    BY <1>2, <1>3 DEF Injection, IsInjective
  <1>5. IsFiniteSet(Units(T, r))
    BY UnitsFinite
  <1> QED
    BY <1>4, <1>5, FS_Injection DEF Total
-----------------------------------------------------------------------------
\* What a receipt line is.
ReceiptLine == [key: ReceiptKey, item: Line, quantity: Nat]

\* The types, which a total read from the ledger has once it is read.
WellFormed == TypeOK /\ \A w \in Worker : pc[w] = "rolling" => sums[w] \in [Line -> Nat]

\* The totals a worker has read are not above the ledger's.
SumsCurrent ==
  /\ IsFiniteSet(received)
  /\ \A w \in Worker : pc[w] = "rolling" => \A l \in Line : sums[w][l] <= ReceivedOf(l)

\* What is received, or found to be received, by shipments only has been shipped;
\* without shipments it is what was ordered.
FromOneSource ==
  /\ IsFiniteSet(shipped)
  /\ setting.useShipments /\ ~ setting.fallbackToOrder =>
       /\ received \subseteq ShipmentLines
       /\ \A w \in Worker : todo[w] \subseteq ShipmentLines
  /\ ~ setting.useShipments =>
       /\ received \subseteq OrderLines
       /\ \A w \in Worker : todo[w] \subseteq OrderLines

IInv == WellFormed /\ SumsCurrent /\ ReceivedIsCovered /\ FromOneSource

LEMMA InitIInv == Init => IInv
  <1> SUFFICES ASSUME Init PROVE IInv
    OBVIOUS
  <1>1. WellFormed
    BY LinesAssumption DEF Init, WellFormed, TypeOK, Status
  <1>2. SumsCurrent /\ FromOneSource
    BY FS_EmptySet DEF Init, SumsCurrent, FromOneSource
  <1> QED
    BY <1>1, <1>2 DEF Init, IInv, ReceivedIsCovered

\* The ledger's totals are natural numbers ...
LEMMA ReceivedOfNat ==
  ASSUME IInv, NEW l \in Line
  PROVE  ReceivedOf(l) \in Nat
  <1> DEFINE S == {x \in received : x.item = l}
             q == [x \in received |-> x.quantity]
  <1>1. IsFiniteSet(S)
    BY FS_Subset DEF IInv, SumsCurrent
  <1>2. \A x \in S : q[x] \in Nat
    BY DEF IInv, WellFormed, TypeOK
  <1> QED
    BY <1>1, <1>2, UnitsFinite DEF ReceivedOf

\* ... that never fall: nothing is taken from the ledger.
LEMMA ReceivedOfGrows ==
  ASSUME IInv, WellFormed', IsFiniteSet(received'), received \subseteq received', NEW l \in Line
  PROVE  ReceivedOf(l) <= ReceivedOf(l)'
  <1> DEFINE S == {x \in received : x.item = l}
             T == {x \in received' : x.item = l}
             q == [x \in received |-> x.quantity]
             r == [x \in received' |-> x.quantity]
             f == [x \in S |-> x]
  <1>1. IsFiniteSet(T)
    BY FS_Subset
  <1>2. f \in [S -> T] /\ \A x, y \in S : f[x] = f[y] => x = y
    OBVIOUS
  <1>3. \A x \in S : q[x] \in Nat /\ q[x] <= r[f[x]]
    BY DEF IInv, WellFormed, TypeOK
  <1>4. \A y \in T : r[y] \in Nat
    BY DEF WellFormed, TypeOK
  <1> HIDE DEF S, T, q, r, f
  <1>5. Total(S, q) <= Total(T, r)
    BY <1>1, <1>2, <1>3, <1>4, TotalGrows
  <1> QED
    BY <1>5 DEF ReceivedOf, S, T, q, r

\* Every step keeps the types.
LEMMA LeaveKeepsTypes ==
  ASSUME WellFormed, NEW w \in Worker, NEW to \in {"idle", "closing"}, Leave(w, to)
  PROVE  /\ pc' \in [Worker -> {"idle", "recorded", "fetching", "detected", "resolving",
                                "applying", "rolling", "closing"}]
         /\ cache' \in [Worker -> Status \union {None}]
         /\ lineCache' \in [Worker -> [Line -> Nat] \union {None}]
         /\ todo' \in [Worker -> SUBSET [key: ReceiptKey, item: Line, quantity: Nat]]
         /\ \A v \in Worker : todo'[v] \subseteq todo[v]
         /\ sums' \in [Worker -> [Line -> Nat] \union {None}]
         /\ \A v \in Worker : pc'[v] = "rolling" =>
              pc[v] = "rolling" /\ sums'[v] = sums[v] /\ v # w
  BY DEF WellFormed, TypeOK, Leave

LEMMA ReturnKeepsTypes ==
  ASSUME WellFormed, NEW w \in Worker, Return(w)
  PROVE  /\ pc' \in [Worker -> {"idle", "recorded", "fetching", "detected", "resolving",
                                "applying", "rolling", "closing"}]
         /\ cache' \in [Worker -> Status \union {None}]
         /\ lineCache' \in [Worker -> [Line -> Nat] \union {None}]
         /\ todo' \in [Worker -> SUBSET [key: ReceiptKey, item: Line, quantity: Nat]]
         /\ \A v \in Worker : todo'[v] \subseteq todo[v]
         /\ sums' \in [Worker -> [Line -> Nat] \union {None}]
         /\ \A v \in Worker : pc'[v] = "rolling" =>
              pc[v] = "rolling" /\ sums'[v] = sums[v] /\ v # w
  BY LeaveKeepsTypes DEF Return

\* A step that adds nothing to the ledger and leaves the totals that were read
\* alone.
LEMMA QuietKeeps ==
  ASSUME IInv, WellFormed', received' = received, status' \in {status, "COMPLETED", "RECEIPT_ERROR", "CANCELLED"},
         \A w \in Worker : pc'[w] = "rolling" => pc[w] = "rolling" /\ sums'[w] = sums[w],
         setting' = setting, shipped' = shipped,
         \A w \in Worker : todo'[w] \subseteq todo[w]
  PROVE  IInv'
  <1>1. \A l \in Line : ReceivedOf(l)' = ReceivedOf(l)
    BY DEF ReceivedOf
  <1>2. SumsCurrent'
    BY <1>1 DEF IInv, SumsCurrent
  <1>3. ReceivedIsCovered'
    BY <1>1 DEF IInv, ReceivedIsCovered
  <1>4. FromOneSource'
    BY DEF IInv, FromOneSource, ShipmentLines
  <1> QED
    BY <1>2, <1>3, <1>4 DEF IInv

LEMMA CompleteOrderKeeps ==
  ASSUME IInv, CompleteOrder
  PROVE  IInv'
  <1>1. WellFormed'
    BY DEF CompleteOrder, session, IInv, WellFormed, TypeOK
  <1> QED
    BY <1>1, QuietKeeps DEF CompleteOrder, session

LEMMA DeliverKeeps ==
  ASSUME IInv, NEW e \in Event, Deliver(e)
  PROVE  IInv'
  <1>1. WellFormed' /\ \A w \in Worker : pc'[w] = "rolling" => pc[w] = "rolling"
    BY DEF Deliver, session, outside, IInv, WellFormed, TypeOK, Worker
  <1> QED
    BY <1>1, QuietKeeps DEF Deliver, session, outside

LEMMA CloseEventKeeps ==
  ASSUME IInv, NEW e \in Event, CloseEvent(e)
  PROVE  IInv'
  <1>1. WellFormed' /\ \A w \in Worker : pc'[w] = "rolling" => pc[w] = "rolling"
    BY DEF CloseEvent, session, outside, IInv, WellFormed, TypeOK, Worker
  <1> QED
    BY <1>1, QuietKeeps DEF CloseEvent, session, outside

LEMMA FailEventKeeps ==
  ASSUME IInv, NEW e \in Event, FailEvent(e)
  PROVE  IInv'
  <1>1. /\ Leave(e, "idle") /\ faults < MaxFaults /\ faults' = faults + 1
        /\ event' = [event EXCEPT ![e] = "ERROR"]
        /\ UNCHANGED <<outside, status, received, count, rolled, cancelSeen>>
    BY DEF FailEvent
  <1>2. e \in Worker /\ faults' \in 0 .. MaxFaults
    BY <1>1, LinesAssumption DEF Worker, IInv, WellFormed, TypeOK
  <1>3. WellFormed'
    BY <1>1, <1>2, LeaveKeepsTypes DEF outside, IInv, WellFormed, TypeOK
  <1> QED
    BY <1>1, <1>2, <1>3, LeaveKeepsTypes, QuietKeeps DEF outside, IInv

LEMMA BeginKeeps ==
  ASSUME IInv, NEW w \in Worker, Begin(w)
  PROVE  IInv'
  <1>1. UNCHANGED <<outside, status, received, count, rolled, event, cancelSeen, faults>>
    BY DEF Begin
  <1>2. CASE Return(w)
    <2>1. WellFormed'
      BY <1>1, <1>2, ReturnKeepsTypes DEF outside, IInv, WellFormed, TypeOK
    <2> QED
      BY <1>1, <1>2, <2>1, ReturnKeepsTypes, QuietKeeps DEF outside, IInv
  <1>3. CASE /\ pc' = [pc EXCEPT ![w] = "fetching"] /\ cache' = [cache EXCEPT ![w] = status]
             /\ UNCHANGED <<lineCache, todo, sums>>
    <2>1. WellFormed' /\ \A v \in Worker : pc'[v] = "rolling" => pc[v] = "rolling"
      BY <1>1, <1>3 DEF outside, IInv, WellFormed, TypeOK
    <2> QED
      BY <1>1, <1>3, <2>1, QuietKeeps DEF outside
  <1> QED
    BY <1>2, <1>3 DEF Begin

LEMMA GiveUpKeeps ==
  ASSUME IInv, NEW w \in Worker, GiveUp(w)
  PROVE  IInv'
  <1>1. Return(w) /\ UNCHANGED <<outside, status, received, count, rolled, event, cancelSeen, faults>>
    BY DEF GiveUp
  <1>2. WellFormed'
    BY <1>1, ReturnKeepsTypes DEF outside, IInv, WellFormed, TypeOK
  <1> QED
    BY <1>1, <1>2, ReturnKeepsTypes, QuietKeeps DEF outside, IInv

LEMMA DetectKeeps ==
  ASSUME IInv, NEW w \in Worker, Detect(w)
  PROVE  IInv'
  <1>1. status' \in {status, "COMPLETED"}
    BY DEF Detect
  <1>2. WellFormed' /\ \A v \in Worker : pc'[v] = "rolling" => pc[v] = "rolling"
    BY <1>1 DEF Detect, outside, IInv, WellFormed, TypeOK, Status
  <1> QED
    BY <1>1, <1>2, QuietKeeps DEF Detect, outside

LEMMA ReloadKeeps ==
  ASSUME IInv, NEW w \in Worker, Reload(w)
  PROVE  IInv'
  <1>1. WellFormed' /\ \A v \in Worker : pc'[v] = "rolling" => pc[v] = "rolling"
    BY DEF Reload, outside, IInv, WellFormed, TypeOK
  <1> QED
    BY <1>1, QuietKeeps DEF Reload, outside

\* A failure, of the shipments or of the database.
LEMMA RecordFailureKeeps ==
  ASSUME IInv, NEW w \in Worker, RecordFailure(w), faults' \in 0 .. MaxFaults
  PROVE  IInv'
  <1>1. /\ Return(w) /\ status' = "RECEIPT_ERROR"
        /\ UNCHANGED <<outside, received, count, rolled, event, cancelSeen>>
    BY DEF RecordFailure
  <1>2. WellFormed'
    BY <1>1, ReturnKeepsTypes DEF outside, IInv, WellFormed, TypeOK, Status
  <1> QED
    BY <1>1, <1>2, ReturnKeepsTypes, QuietKeeps DEF outside, IInv

LEMMA FailKeeps ==
  ASSUME IInv, NEW w \in Worker, ShipmentsFail(w) \/ ApplyFail(w)
  PROVE  IInv'
  <1>1. faults' \in 0 .. MaxFaults
    BY LinesAssumption DEF ShipmentsFail, ApplyFail, IInv, WellFormed, TypeOK
  <1> QED
    BY <1>1, RecordFailureKeeps DEF ShipmentsFail, ApplyFail

LEMMA CancelKeeps ==
  ASSUME IInv, BeginCancel \/ CommitCancel
  PROVE  IInv'
  <1>1. WellFormed' /\ status' \in {status, "CANCELLED"}
    BY DEF BeginCancel, CommitCancel, Cancellable, Status, session, outside, IInv, WellFormed, TypeOK
  <1> QED
    BY <1>1, QuietKeeps DEF BeginCancel, CommitCancel, session, outside

LEMMA CrashKeeps ==
  ASSUME IInv, Crash
  PROVE  IInv'
  <1>1. WellFormed'
    BY LinesAssumption DEF Crash, outside, IInv, WellFormed, TypeOK
  <1> QED
    BY <1>1, QuietKeeps DEF Crash, outside

\* Shipment lines and order lines are receipt lines.
LEMMA LinesAreReceiptLines ==
  ASSUME IInv
  PROVE  ShipmentLines \subseteq ReceiptLine /\ OrderLines \subseteq ReceiptLine
  <1>1. \A s \in shipped : s \in ShipLine /\ ShipmentOf[s].line \in Line /\ ShipmentOf[s].quantity \in Nat
    BY LinesAssumption DEF IInv, WellFormed, TypeOK
  <1>2. \A l \in Line : Ordered[l] \in Nat
    BY LinesAssumption
  <1> QED
    BY <1>1, <1>2 DEF ShipmentLines, OrderLines, ReceiptLine, ReceiptKey

\* One more shipment: what was shipped before is shipped still.
LEMMA RecordShipmentKeeps ==
  ASSUME IInv, NEW s \in ShipLine, RecordShipment(s)
  PROVE  IInv'
  <1>1. /\ shipped' = shipped \union {s}
        /\ UNCHANGED <<setting, order, status, received, count, rolled, event, pc, session, cancelSeen, faults>>
    BY DEF RecordShipment
  <1>2. WellFormed'
    BY <1>1 DEF session, IInv, WellFormed, TypeOK
  <1>3. \A l \in Line : ReceivedOf(l)' = ReceivedOf(l)
    BY <1>1 DEF ReceivedOf
  <1>4. SumsCurrent' /\ ReceivedIsCovered'
    BY <1>1, <1>3 DEF session, IInv, SumsCurrent, ReceivedIsCovered
  <1>5. IsFiniteSet(shipped')
    BY <1>1, FS_AddElement DEF IInv, FromOneSource
  <1>6. ShipmentLines \subseteq ShipmentLines'
    BY <1>1 DEF ShipmentLines
  <1>7. FromOneSource'
    BY <1>1, <1>5, <1>6 DEF session, IInv, FromOneSource
  <1> QED
    BY <1>2, <1>4, <1>7 DEF IInv

\* The lines to apply are chosen.
LEMMA ResolveKeeps ==
  ASSUME IInv, NEW w \in Worker, Resolve(w)
  PROVE  IInv'
  <1> DEFINE chosen == CASE setting.useShipments /\ shipped # {} -> ShipmentLines
                         [] setting.useShipments /\ shipped = {} /\ ~ setting.fallbackToOrder -> {}
                         [] OTHER -> OrderLines
  <1>1. /\ todo' = [todo EXCEPT ![w] = chosen]
        /\ lineCache' = [lineCache EXCEPT ![w] = rolled] /\ pc' = [pc EXCEPT ![w] = "applying"]
        /\ UNCHANGED <<outside, status, received, count, rolled, event, cache, sums, cancelSeen, faults>>
    BY DEF Resolve
  <1>2. chosen \subseteq ReceiptLine
    BY LinesAreReceiptLines
  <1>3. /\ setting.useShipments /\ ~ setting.fallbackToOrder => chosen \subseteq ShipmentLines
        /\ ~ setting.useShipments => chosen \subseteq OrderLines
    OBVIOUS
  <1> HIDE DEF chosen
  <1>4. WellFormed' /\ \A v \in Worker : pc'[v] = "rolling" => pc[v] = "rolling"
    BY <1>1, <1>2 DEF outside, IInv, WellFormed, TypeOK, ReceiptLine
  <1>5. \A l \in Line : ReceivedOf(l)' = ReceivedOf(l)
    BY <1>1 DEF ReceivedOf
  <1>6. SumsCurrent' /\ ReceivedIsCovered'
    BY <1>1, <1>4, <1>5 DEF IInv, SumsCurrent, ReceivedIsCovered
  <1>7. ShipmentLines' = ShipmentLines
    BY <1>1 DEF outside, ShipmentLines
  <1>8. FromOneSource'
    BY <1>1, <1>3, <1>7 DEF outside, IInv, FromOneSource, WellFormed, TypeOK
  <1> QED
    BY <1>4, <1>6, <1>8 DEF IInv

\* Totals that cover what was asked for still do when they have grown.
LEMMA CoversGrows ==
  ASSUME NEW p \in [Line -> Nat], NEW q \in [Line -> Nat], \A l \in Line : p[l] <= q[l], Covers(p)
  PROVE  Covers(q)
  <1>1. \A l \in Line : Final[l] \in Nat /\ p[l] \in Nat /\ q[l] \in Nat
    BY LinesAssumption
  <1> QED
    BY <1>1 DEF Covers

LEMMA LedgerTotals == IInv => [l \in Line |-> ReceivedOf(l)] \in [Line -> Nat]
  BY ReceivedOfNat

\* A line is applied: the ledger's totals only rise.
LEMMA ApplyKeeps ==
  ASSUME IInv, NEW w \in Worker, Apply(w)
  PROVE  IInv'
  <1>1. PICK x \in todo[w] :
          /\ todo' = [todo EXCEPT ![w] = @ \ {x}]
          /\ \/ /\ received' = received \union {x}
                /\ count' = [count EXCEPT ![x.item] = @ + x.quantity]
             \/ UNCHANGED <<received, count>>
          /\ cache' \in {[cache EXCEPT ![w] = None], [cache EXCEPT ![w] = Loaded(@, status)]}
          /\ lineCache' \in {lineCache, [lineCache EXCEPT ![w] = None]}
    BY DEF Apply, Store!Receive
  <1>2. UNCHANGED <<outside, status, rolled, event, pc, sums, cancelSeen, faults>>
    BY DEF Apply
  <1>3. x \in ReceiptLine /\ x.item \in Line /\ x.quantity \in Nat
    BY DEF IInv, WellFormed, TypeOK, ReceiptLine
  <1>4. Loaded(cache[w], status) \in Status \union {None}
    BY DEF Loaded, IInv, WellFormed, TypeOK
  <1>5. cache' \in [Worker -> Status \union {None}]
    BY <1>1, <1>4 DEF IInv, WellFormed, TypeOK
  <1>6. count' \in [Line -> Nat]
    BY <1>1, <1>3 DEF IInv, WellFormed, TypeOK
  <1>7. received' \subseteq ReceiptLine /\ received \subseteq received'
    BY <1>1, <1>3 DEF IInv, WellFormed, TypeOK, ReceiptLine
  <1>8. lineCache' \in [Worker -> [Line -> Nat] \union {None}]
    BY <1>1 DEF IInv, WellFormed, TypeOK
  <1>9. \A v \in Worker : todo'[v] \subseteq todo[v]
    BY <1>1
  <1>10. todo' \in [Worker -> SUBSET [key: ReceiptKey, item: Line, quantity: Nat]]
    BY <1>1 DEF IInv, WellFormed, TypeOK
  <1>11. WellFormed'
    BY <1>2, <1>5, <1>6, <1>7, <1>8, <1>10 DEF outside, IInv, WellFormed, TypeOK, ReceiptLine
  <1>12. IsFiniteSet(received')
    BY <1>1, FS_AddElement DEF IInv, SumsCurrent
  <1>13. \A l \in Line : ReceivedOf(l) <= ReceivedOf(l)'
    BY <1>7, <1>11, <1>12, ReceivedOfGrows
  <1>14. \A l \in Line : ReceivedOf(l) \in Nat
    BY ReceivedOfNat
  <1>15. \A l \in Line : ReceivedOf(l)' \in Nat
    <2> SUFFICES ASSUME NEW l \in Line PROVE ReceivedOf(l)' \in Nat
      OBVIOUS
    <2> DEFINE S == {y \in received' : y.item = l}
               q == [y \in received' |-> y.quantity]
    <2>1. IsFiniteSet(S) /\ \A y \in S : q[y] \in Nat
      BY <1>7, <1>12, FS_Subset DEF ReceiptLine
    <2> QED
      BY <2>1, UnitsFinite DEF ReceivedOf
  <1>16. SumsCurrent'
    <2> SUFFICES ASSUME NEW v \in Worker, pc'[v] = "rolling", NEW l \in Line
                 PROVE  sums'[v][l] <= ReceivedOf(l)'
      BY <1>12 DEF SumsCurrent
    <2>1. sums'[v] = sums[v] /\ sums[v] \in [Line -> Nat] /\ sums[v][l] <= ReceivedOf(l)
      BY <1>2 DEF IInv, WellFormed, SumsCurrent
    <2> QED
      BY <1>13, <1>14, <1>15, <2>1
  <1>17. ReceivedIsCovered'
    <2> SUFFICES ASSUME status = "RECEIVED" PROVE Covers([l \in Line |-> ReceivedOf(l)])'
      BY <1>2 DEF ReceivedIsCovered
    <2> DEFINE p == [l \in Line |-> ReceivedOf(l)]
               q == [l \in Line |-> ReceivedOf(l)']
    <2>1. p \in [Line -> Nat] /\ q \in [Line -> Nat] /\ \A l \in Line : p[l] <= q[l]
      BY <1>13, <1>14, <1>15
    <2>2. Covers(p)
      BY DEF IInv, ReceivedIsCovered
    <2> HIDE DEF p, q
    <2>3. Covers(q)
      BY <2>1, <2>2, CoversGrows
    <2> QED
      BY <2>3 DEF Covers, q
  <1>18. ShipmentLines' = ShipmentLines
    BY <1>2 DEF outside, ShipmentLines
  <1>19. FromOneSource'
    BY <1>1, <1>2, <1>9, <1>18 DEF outside, IInv, FromOneSource
  <1> QED
    BY <1>11, <1>16, <1>17, <1>19 DEF IInv

\* The ledger's totals are read.
LEMMA ReadTotalsKeeps ==
  ASSUME IInv, NEW w \in Worker, ReadTotals(w)
  PROVE  IInv'
  <1> DEFINE totals == [l \in Line |-> ReceivedOf(l)]
  <1>1. /\ cache' = [cache EXCEPT ![w] = Loaded(@, status)]
        /\ lineCache' = [lineCache EXCEPT ![w] = Loaded(@, rolled)]
        /\ sums' = [sums EXCEPT ![w] = totals]
        /\ pc' = [pc EXCEPT ![w] = "rolling"]
        /\ UNCHANGED <<outside, status, received, count, rolled, event, todo, cancelSeen, faults>>
    BY DEF ReadTotals
  <1>2. totals \in [Line -> Nat]
    BY LedgerTotals
  <1>3. \A l \in Line : totals[l] = ReceivedOf(l) /\ totals[l] <= ReceivedOf(l)
    BY <1>2
  <1> HIDE DEF totals
  <1>4. /\ Loaded(cache[w], status) \in Status \union {None}
        /\ Loaded(lineCache[w], rolled) \in [Line -> Nat]
    BY DEF Loaded, IInv, WellFormed, TypeOK
  <1>5. /\ cache' \in [Worker -> Status \union {None}]
        /\ lineCache' \in [Worker -> [Line -> Nat] \union {None}]
    BY <1>1, <1>4 DEF IInv, WellFormed, TypeOK
  <1>6. \A v \in Worker : IF v = w THEN sums'[v] = totals
                                   ELSE sums'[v] = sums[v] /\ pc'[v] = pc[v]
    BY <1>1 DEF IInv, WellFormed, TypeOK
  <1>7. WellFormed'
    BY <1>1, <1>2, <1>5, <1>6 DEF outside, IInv, WellFormed, TypeOK
  <1>8. \A l \in Line : ReceivedOf(l)' = ReceivedOf(l)
    BY <1>1 DEF ReceivedOf
  <1>9. SumsCurrent'
    BY <1>1, <1>3, <1>6, <1>8 DEF IInv, SumsCurrent
  <1>10. ReceivedIsCovered'
    BY <1>1, <1>8 DEF IInv, ReceivedIsCovered
  <1>11. FromOneSource'
    BY <1>1 DEF outside, IInv, FromOneSource, ShipmentLines
  <1> QED
    BY <1>7, <1>9, <1>10, <1>11 DEF IInv

\* The totals that were read are written back: a request is called RECEIVED if
\* they cover it, and then the ledger, which is not below them, covers it too.
LEMMA WriteRollupsKeeps ==
  ASSUME IInv, NEW w \in Worker, WriteRollups(w)
  PROVE  IInv'
  <1>1. /\ pc[w] = "rolling" /\ Return(w)
        /\ status' = IF Outcome(sums[w]) # cache[w] THEN Outcome(sums[w]) ELSE status
        /\ rolled' = [l \in Line |-> IF sums[w][l] # lineCache[w][l] THEN sums[w][l] ELSE rolled[l]]
        /\ UNCHANGED <<outside, received, count, event, cancelSeen, faults>>
    BY DEF WriteRollups
  <1>2. sums[w] \in [Line -> Nat]
    BY <1>1 DEF IInv, WellFormed
  <1>3. rolled' \in [Line -> Nat]
    BY <1>1, <1>2 DEF IInv, WellFormed, TypeOK
  <1>4. status' \in Status
    BY <1>1 DEF Outcome, Status, IInv, WellFormed, TypeOK
  <1>5. WellFormed'
    BY <1>1, <1>3, <1>4, ReturnKeepsTypes DEF outside, IInv, WellFormed, TypeOK
  <1>6. \A l \in Line : ReceivedOf(l)' = ReceivedOf(l)
    BY <1>1 DEF ReceivedOf
  <1>7. SumsCurrent'
    BY <1>1, <1>6, ReturnKeepsTypes DEF IInv, SumsCurrent
  <1>8. ReceivedIsCovered'
    <2> SUFFICES ASSUME status' = "RECEIVED" PROVE Covers([l \in Line |-> ReceivedOf(l)])
      BY <1>6 DEF ReceivedIsCovered
    <2>1. CASE status = "RECEIVED"
      BY <2>1 DEF IInv, ReceivedIsCovered
    <2>2. CASE status # "RECEIVED"
      <3> DEFINE ledger == [l \in Line |-> ReceivedOf(l)]
      <3>1. Covers(sums[w])
        BY <1>1, <2>2 DEF Outcome
      <3>2. ledger \in [Line -> Nat] /\ \A l \in Line : sums[w][l] <= ledger[l]
        BY <1>1, LedgerTotals DEF IInv, SumsCurrent
      <3> HIDE DEF ledger
      <3>3. Covers(ledger)
        BY <1>2, <3>1, <3>2, CoversGrows
      <3> QED
        BY <3>3 DEF ledger
    <2> QED
      BY <2>1, <2>2
  <1>9. ShipmentLines' = ShipmentLines
    BY <1>1 DEF outside, ShipmentLines
  <1>10. FromOneSource'
    BY <1>1, <1>9, ReturnKeepsTypes DEF outside, IInv, FromOneSource
  <1> QED
    BY <1>5, <1>7, <1>8, <1>10 DEF IInv

LEMMA UnchangedKeeps ==
  ASSUME IInv, UNCHANGED vars
  PROVE  IInv'
  <1>1. WellFormed'
    BY DEF vars, session, outside, IInv, WellFormed, TypeOK
  <1> QED
    BY <1>1, QuietKeeps DEF vars, session, outside

LEMMA NextIInv == IInv /\ [Next]_vars => IInv'
  <1> SUFFICES ASSUME IInv, [Next]_vars PROVE IInv'
    OBVIOUS
  <1>1. CASE CompleteOrder \/ \E s \in ShipLine : RecordShipment(s)
    BY <1>1, CompleteOrderKeeps, RecordShipmentKeeps
  <1>2. CASE \E e \in Event : Deliver(e) \/ CloseEvent(e) \/ FailEvent(e)
    BY <1>2, DeliverKeeps, CloseEventKeeps, FailEventKeeps
  <1>3. ASSUME NEW w \in Worker, Progress(w) PROVE IInv'
    BY <1>3, BeginKeeps, DetectKeeps, ReloadKeeps, ResolveKeeps, ApplyKeeps, ReadTotalsKeeps,
       WriteRollupsKeeps DEF Progress
  <1>4. CASE \E w \in Worker : GiveUp(w) \/ ShipmentsFail(w) \/ ApplyFail(w)
    BY <1>4, GiveUpKeeps, FailKeeps
  <1>5. CASE BeginCancel \/ CommitCancel \/ Crash
    BY <1>5, CancelKeeps, CrashKeeps
  <1> QED
    BY <1>1, <1>2, <1>3, <1>4, <1>5, UnchangedKeeps DEF Next

\* What was received on a line by shipments only is, receipt by receipt, what
\* was shipped on it: the shipment line is the receipt's key.
LEMMA ReceivedWasShipped == IInv => NeverMoreThanShipped
  <1> SUFFICES ASSUME IInv, setting.useShipments, ~ setting.fallbackToOrder, NEW l \in Line
               PROVE  ReceivedOf(l) <= ShippedOn(l)
    BY DEF NeverMoreThanShipped
  <1> DEFINE S == {x \in received : x.item = l}
             T == {s \in shipped : ShipmentOf[s].line = l}
             q == [x \in received |-> x.quantity]
             r == [s \in shipped |-> ShipmentOf[s].quantity]
             f == [x \in S |-> x.key]
  <1>1. ASSUME NEW x \in S
        PROVE  /\ x.key \in T /\ x.quantity = ShipmentOf[x.key].quantity
               /\ x = [key |-> x.key, item |-> ShipmentOf[x.key].line, quantity |-> ShipmentOf[x.key].quantity]
    <2>1. x \in ShipmentLines
      BY DEF IInv, FromOneSource
    <2>2. PICK s \in shipped :
            x = [key |-> s, item |-> ShipmentOf[s].line, quantity |-> ShipmentOf[s].quantity]
      BY <2>1 DEF ShipmentLines
    <2> QED
      BY <2>2
  <1>2. f \in [S -> T] /\ \A x, y \in S : f[x] = f[y] => x = y
    BY <1>1
  <1>3. \A s \in T : r[s] \in Nat
    BY LinesAssumption DEF IInv, WellFormed, TypeOK
  <1>4. \A x \in S : q[x] = r[f[x]] /\ f[x] \in T
    BY <1>1
  <1>5. IsFiniteSet(T)
    BY FS_Subset DEF IInv, FromOneSource
  <1> HIDE DEF S, T, q, r, f
  <1>6. \A x \in S : q[x] \in Nat /\ q[x] <= r[f[x]]
    BY <1>3, <1>4
  <1>7. Total(S, q) <= Total(T, r)
    BY <1>2, <1>3, <1>5, <1>6, TotalGrows
  <1> QED
    BY <1>7 DEF ReceivedOf, ShippedOn, S, T, q, r

-----------------------------------------------------------------------------
\* The inductive invariant holds in every behaviour.
THEOREM Invariance == Spec => []IInv
  BY InitIInv, NextIInv, PTL DEF Spec

\* The request, its ledger, the workers' sessions and the events stay
\* well-formed (models.py:126-212) through failures, crashes and cancellations.
THEOREM TypeCorrect == Spec => []TypeOK
  <1>1. IInv => TypeOK
    BY DEF IInv, WellFormed
  <1> QED
    BY <1>1, Invariance, PTL

\* However many workers receive the request at once, with whatever they have
\* still in their sessions: it is called RECEIVED only when the ledger covers
\* every quantity asked for (_recompute_rollups).
THEOREM ReceivedCovered == Spec => []ReceivedIsCovered
  <1>1. IInv => ReceivedIsCovered
    BY DEF IInv
  <1> QED
    BY <1>1, Invariance, PTL

\* With shipments only, no line ever receives more than Unleashed has shipped on
\* it (_collect_shipment_lines, apply_receipt_line).
THEOREM NotMoreThanShipped == Spec => []NeverMoreThanShipped
  BY Invariance, ReceivedWasShipped, PTL

\* Receiving a request touches the stock and the ledger only as
\* apply_receipt_line promises: a shipped line is added once at most, and the
\* count rises by exactly its quantity.
LEMMA NextKeepsPromise == IInv /\ [Next]_vars => [Store!Next]_<<count, received>>
  <1> SUFFICES ASSUME IInv, [Next]_vars PROVE [Store!Next]_<<count, received>>
    OBVIOUS
  <1>1. ASSUME NEW w \in Worker, Apply(w) PROVE [Store!Next]_<<count, received>>
    <2>1. PICK x \in todo[w] : Store!Receive(x) \/ UNCHANGED <<received, count>>
      BY <1>1 DEF Apply
    <2>2. x \in Store!ReceiptLine
      BY DEF IInv, WellFormed, TypeOK, Store!ReceiptLine
    <2> QED
      BY <2>1, <2>2 DEF Store!Next
  <1>2. CASE UNCHANGED <<count, received>>
    BY <1>2
  <1>3. (\E w \in Worker : Apply(w)) \/ UNCHANGED <<count, received>>
    BY DEF Next, CompleteOrder, RecordShipment, Deliver, CloseEvent, FailEvent, Progress, Begin, Detect, Reload,
           Resolve, ReadTotals, WriteRollups, GiveUp, ShipmentsFail, ApplyFail, RecordFailure,
           BeginCancel, CommitCancel, Crash, vars
  <1> QED
    BY <1>1, <1>2, <1>3

\* So what Inventory is proved to implement is all that receiving a request does
\* to the stock (_apply_receipt_lines), whatever else happens to the request.
THEOREM ReceivesAsPromised == Spec => Store!Spec
  <1>1. Init => Store!Init
    BY DEF Init, Store!Init
  <1> QED
    BY <1>1, Invariance, NextKeepsPromise, PTL DEF Spec, Store!Spec

\* A shipment on top of the order's line (run ReceiptDoubleAdd) takes the
\* setting that falls back from shipments to the order: with any other setting
\* nothing is ever added twice (_resolve_receipt_lines).
THEOREM DoubleAddedByFallbackOnly ==
  Spec => [](~ (setting.useShipments /\ setting.fallbackToOrder) => NeverDoubleAdded)
  <1>1. ASSUME IInv, ~ (setting.useShipments /\ setting.fallbackToOrder) PROVE NeverDoubleAdded
    <2>1. \A x \in ShipmentLines : x.key \in shipped
      BY DEF ShipmentLines
    <2>2. \A x \in OrderLines : x.key \in Line
      BY DEF OrderLines
    <2>3. \A k \in shipped : k \notin Line
      BY <1>1, LinesAssumption DEF IInv, WellFormed, TypeOK
    <2>4. CASE setting.useShipments
      BY <1>1, <2>1, <2>3, <2>4 DEF IInv, FromOneSource, NeverDoubleAdded
    <2>5. CASE ~ setting.useShipments
      BY <1>1, <2>2, <2>5 DEF IInv, FromOneSource, NeverDoubleAdded
    <2> QED
      BY <2>4, <2>5
  <1> QED
    BY <1>1, Invariance, PTL
=============================================================================
