------------------------------- MODULE Receipt -------------------------------
(***************************************************************************)
(* Receiving one submitted daily request: receipt_service.process_         *)
(* completion, run by the polling job (sync_service), the webhook handler  *)
(* (webhook_service) and the warehouse's "process receipt" button, against *)
(* the Sales Order and Sales Shipments that Unleashed holds, while a       *)
(* manager may cancel the request.                                         *)
(*                                                                         *)
(* Adding a shipped line to the stock is the step KeyedReceipts promises   *)
(* and Inventory implements.  Everything else a worker reads from its      *)
(* database session stays in the session until a commit expires it, and a  *)
(* commit writes only the columns whose value differs from the one loaded: *)
(* cache[w] and lineCache[w] are what w has loaded.                        *)
(***************************************************************************)
EXTENDS Integers, FiniteSets

CONSTANTS
  Line,          \* the lines of the request; each is one product of the store
  ShipLine,      \* the shipment lines Unleashed may record for the order
  Final,         \* final_requested_quantity of each line
  Ordered,       \* OrderQuantity of each line of the Sales Order
  ShipmentOf,    \* line and quantity of each shipment line
  Poller,        \* the polling job
  Manual,        \* warehouse requests: poll now, process receipt
  Event,         \* webhook notifications, each with its handler
  Setting,       \* the settings a deployment may have
  MaxFaults,     \* process crashes and database errors in a behaviour
  None

Worker == Poller \union Manual \union Event
ReceiptKey == Line \union ShipLine

ASSUME LinesAssumption ==
  /\ Final \in [Line -> Nat]
  /\ Ordered \in [Line -> Nat]
  /\ ShipmentOf \in [ShipLine -> [line: Line, quantity: Nat \ {0}]]
  /\ Line \intersect ShipLine = {}
  /\ Setting \subseteq [useShipments: BOOLEAN, fallbackToOrder: BOOLEAN]
  /\ MaxFaults \in Nat

VARIABLES
  setting,     \* what Settings says of receipts; useShipments also stands for
               \* a known order number
  order,       \* OrderStatus in Unleashed
  shipped,     \* the shipment lines Unleashed has recorded
  status,      \* DailyRequest.status
  received,    \* the UNLEASHED_RECEIPT ledger rows of the request
  count,       \* current_count of the store's items
  rolled,      \* received_into_store_count of each line
  event,       \* WebhookEvent.status, "none" before the delivery
  pc,          \* how far a worker has come
  cache,       \* the status in a worker's session, None once expired
  lineCache,   \* the line totals in a worker's session, None once expired
  todo,        \* the receipt lines a worker has yet to apply
  sums,        \* the line totals a worker has read from the ledger
  cancelSeen,  \* the status the manager's cancellation has loaded
  faults       \* crashes and database errors so far

outside == <<setting, order, shipped>>
session == <<cache, lineCache, todo, sums>>
vars == <<outside, status, received, count, rolled, event, pc, session, cancelSeen, faults>>

Store == INSTANCE KeyedReceipts
           WITH Item <- Line, Quantity <- Nat, Target <- Int

\* Variant: a failed receipt is not looked at again.
OpenForReceiptOnce == {"SUBMITTED", "COMPLETED"}

OpenForReceipt == {"SUBMITTED", "COMPLETED", "RECEIPT_ERROR"}
Cancellable == {"SUBMITTED", "COMPLETED", "RECEIPT_ERROR"}
Status == {"SUBMITTED", "COMPLETED", "RECEIPT_ERROR", "RECEIVED", "CANCELLED"}

\* The sum of q[x] over the members of S: its units, numbered x by x, are counted.
Units(S, q) == UNION {{x} \X (1 .. q[x]) : x \in S}
Total(S, q) == Cardinality(Units(S, q))

\* The ledger's total for a line.
ReceivedOf(l) == Total({x \in received : x.item = l}, [x \in received |-> x.quantity])

\* Variant: the ordered quantity is taken for the shipped one.
ShipmentLinesAsOrdered ==
  {[key |-> s, item |-> ShipmentOf[s].line, quantity |-> Ordered[ShipmentOf[s].line]] : s \in shipped}

ShipmentLines ==
  {[key |-> s, item |-> ShipmentOf[s].line, quantity |-> ShipmentOf[s].quantity] : s \in shipped}

OrderLines ==
  {[key |-> l, item |-> l, quantity |-> Ordered[l]] : l \in {m \in Line : Ordered[m] > 0}}

-----------------------------------------------------------------------------
\* Unleashed, as its operators work: the order is completed once, shipment
\* lines appear before or after.
CompleteOrder ==
  /\ order = "Parked"
  /\ order' = "Completed"
  /\ UNCHANGED <<setting, shipped, status, received, count, rolled, event, pc, session, cancelSeen, faults>>

RecordShipment(s) ==
  /\ s \in ShipLine \ shipped
  /\ shipped' = shipped \union {s}
  /\ UNCHANGED <<setting, order, status, received, count, rolled, event, pc, session, cancelSeen, faults>>

-----------------------------------------------------------------------------
\* What a worker's session holds is gone.
Leave(w, to) ==
  /\ pc' = [pc EXCEPT ![w] = to]
  /\ cache' = [cache EXCEPT ![w] = None]
  /\ lineCache' = [lineCache EXCEPT ![w] = None]
  /\ todo' = [todo EXCEPT ![w] = {}]
  /\ sums' = [sums EXCEPT ![w] = None]

\* process_completion returns: the session is closed, and a webhook handler
\* goes on to mark its event.
Return(w) == Leave(w, IF w \in Event THEN "closing" ELSE "idle")

\* handle_webhook inserts and commits the event; a second delivery violates
\* uq_webhook_event and changes nothing.  The handler blocks the event loop,
\* so no other webhook is handled meanwhile.
Deliver(e) ==
  /\ event[e] = "none"
  /\ \A f \in Event : pc[f] = "idle"
  /\ event' = [event EXCEPT ![e] = "RECEIVED"]
  /\ pc' = [pc EXCEPT ![e] = "recorded"]
  /\ UNCHANGED <<outside, status, received, count, rolled, session, cancelSeen, faults>>

\* The request is loaded, by the sweep's query, the event's Guid or its id;
\* one that is RECEIVED is left alone.
Begin(w) ==
  /\ \/ w \in Poller /\ pc[w] = "idle" /\ status \in OpenForReceipt
     \/ w \in Manual /\ pc[w] = "idle"
     \/ w \in Event /\ pc[w] = "recorded"
  /\ \/ /\ status = "RECEIVED"
        /\ Return(w)
     \/ /\ status # "RECEIVED"
        /\ pc' = [pc EXCEPT ![w] = "fetching"]
        /\ cache' = [cache EXCEPT ![w] = status]
        /\ UNCHANGED <<lineCache, todo, sums>>
  /\ UNCHANGED <<outside, status, received, count, rolled, event, cancelSeen, faults>>

\* The order could not be fetched, or is not Completed: nothing is recorded.
GiveUp(w) ==
  /\ pc[w] = "fetching"
  /\ Return(w)
  /\ UNCHANGED <<outside, status, received, count, rolled, event, cancelSeen, faults>>

\* The order is Completed: SUBMITTED, as loaded before the fetch, becomes
\* COMPLETED, and the commit expires the session.
Detect(w) ==
  /\ pc[w] = "fetching"
  /\ order = "Completed"
  /\ status' = IF cache[w] = "SUBMITTED" THEN "COMPLETED" ELSE status
  /\ pc' = [pc EXCEPT ![w] = "detected"]
  /\ cache' = [cache EXCEPT ![w] = None]
  /\ UNCHANGED <<outside, received, count, rolled, event, lineCache, todo, sums, cancelSeen, faults>>

\* _resolve_receipt_lines reloads the request for its order number.
Reload(w) ==
  /\ pc[w] = "detected"
  /\ pc' = [pc EXCEPT ![w] = "resolving"]
  /\ cache' = [cache EXCEPT ![w] = status]
  /\ UNCHANGED <<outside, status, received, count, rolled, event, lineCache, todo, sums, cancelSeen, faults>>

\* _resolve_receipt_lines: shipments if there are any, else the order's lines
\* or nothing.  _apply_receipt_lines then loads the request's lines.
Resolve(w) ==
  /\ pc[w] = "resolving"
  /\ todo' = [todo EXCEPT ![w] =
       CASE setting.useShipments /\ shipped # {} -> ShipmentLines
         [] setting.useShipments /\ shipped = {} /\ ~ setting.fallbackToOrder -> {}
         [] OTHER -> OrderLines]
  /\ lineCache' = [lineCache EXCEPT ![w] = rolled]
  /\ pc' = [pc EXCEPT ![w] = "applying"]
  /\ UNCHANGED <<outside, status, received, count, rolled, event, cache, sums, cancelSeen, faults>>

Loaded(cached, current) == IF cached = None THEN current ELSE cached

\* One turn of _apply_receipt_lines' loop.  A new key is added and committed;
\* a key already there is skipped, by the fast path or, when the insert lost a
\* race, by a rollback, which expires the session like a commit.
Apply(w) ==
  /\ pc[w] = "applying"
  /\ \E x \in todo[w] :
       /\ todo' = [todo EXCEPT ![w] = @ \ {x}]
       /\ \/ /\ Store!Receive(x)
             /\ cache' = [cache EXCEPT ![w] = None]
             /\ lineCache' = [lineCache EXCEPT ![w] = None]
          \/ /\ \E old \in received : old.key = x.key
             /\ \/ /\ cache' = [cache EXCEPT ![w] = Loaded(@, status)]
                   /\ UNCHANGED lineCache
                \/ /\ cache' = [cache EXCEPT ![w] = None]
                   /\ lineCache' = [lineCache EXCEPT ![w] = None]
             /\ UNCHANGED <<received, count>>
  /\ UNCHANGED <<outside, status, rolled, event, pc, sums, cancelSeen, faults>>

\* _recompute_rollups reads the ledger's totals ...
ReadTotals(w) ==
  /\ pc[w] = "applying"
  /\ todo[w] = {}
  /\ cache' = [cache EXCEPT ![w] = Loaded(@, status)]
  /\ lineCache' = [lineCache EXCEPT ![w] = Loaded(@, rolled)]
  /\ sums' = [sums EXCEPT ![w] = [l \in Line |-> ReceivedOf(l)]]
  /\ pc' = [pc EXCEPT ![w] = "rolling"]
  /\ UNCHANGED <<outside, status, received, count, rolled, event, todo, cancelSeen, faults>>

\* ... every line that was asked for is covered, and something came ...
Covers(totals) ==
  /\ \A l \in Line : Final[l] > 0 => totals[l] >= Final[l]
  /\ \E l \in Line : totals[l] > 0

\* Variant: one covered line is enough.
OutcomeOfAnyLine(totals) ==
  IF \E l \in Line : totals[l] > 0 /\ totals[l] >= Final[l] THEN "RECEIVED" ELSE "COMPLETED"

Outcome(totals) == IF Covers(totals) THEN "RECEIVED" ELSE "COMPLETED"

\* ... and the status and the line totals that differ from what was loaded are
\* written back.
WriteRollups(w) ==
  LET outcome == Outcome(sums[w])
  IN /\ pc[w] = "rolling"
     /\ status' = IF outcome # cache[w] THEN outcome ELSE status
     /\ rolled' = [l \in Line |-> IF sums[w][l] # lineCache[w][l] THEN sums[w][l] ELSE rolled[l]]
     /\ Return(w)
     /\ UNCHANGED <<outside, received, count, event, cancelSeen, faults>>

\* Variant: the failure is recorded as one of the submission.
RecordFailureOfSubmission(w) ==
  /\ status' = "SYNC_ERROR"
  /\ Return(w)
  /\ UNCHANGED <<outside, received, count, rolled, event, cancelSeen>>

\* The handler of process_completion: rolled back and marked for a retry.
RecordFailure(w) ==
  /\ status' = "RECEIPT_ERROR"
  /\ Return(w)
  /\ UNCHANGED <<outside, received, count, rolled, event, cancelSeen>>

\* Unleashed does not answer the request for the shipments.
ShipmentsFail(w) ==
  /\ pc[w] = "resolving"
  /\ setting.useShipments
  /\ RecordFailure(w)
  /\ UNCHANGED faults

\* The database fails a later step (the product's row is gone, say).
ApplyFail(w) ==
  /\ pc[w] \in {"applying", "rolling"}
  /\ faults < MaxFaults
  /\ faults' = faults + 1
  /\ RecordFailure(w)

\* handle_webhook marks its event, whatever the outcome was ...
CloseEvent(e) ==
  /\ pc[e] = "closing"
  /\ event' = [event EXCEPT ![e] = "PROCESSED"]
  /\ pc' = [pc EXCEPT ![e] = "idle"]
  /\ UNCHANGED <<outside, status, received, count, rolled, session, cancelSeen, faults>>

\* ... or catches what process_completion or that commit raised: a database
\* error outside process_completion's own handler, or in it.
FailEvent(e) ==
  /\ pc[e] # "idle"
  /\ faults < MaxFaults
  /\ faults' = faults + 1
  /\ event' = [event EXCEPT ![e] = "ERROR"]
  /\ Leave(e, "idle")
  /\ UNCHANGED <<outside, status, received, count, rolled, cancelSeen>>

-----------------------------------------------------------------------------
\* cancel_request: load and check, then commit.
BeginCancel ==
  /\ cancelSeen = None
  /\ status \in Cancellable
  /\ cancelSeen' = status
  /\ UNCHANGED <<outside, status, received, count, rolled, event, pc, session, faults>>

CommitCancel ==
  /\ cancelSeen # None
  /\ status' = "CANCELLED"
  /\ cancelSeen' = None
  /\ UNCHANGED <<outside, received, count, rolled, event, pc, session, faults>>

\* The server process dies and is started again: every worker is gone.
Crash ==
  /\ faults < MaxFaults
  /\ faults' = faults + 1
  /\ pc' = [w \in Worker |-> "idle"]
  /\ cache' = [w \in Worker |-> None]
  /\ lineCache' = [w \in Worker |-> None]
  /\ todo' = [w \in Worker |-> {}]
  /\ sums' = [w \in Worker |-> None]
  /\ cancelSeen' = None
  /\ UNCHANGED <<outside, status, received, count, rolled, event>>

-----------------------------------------------------------------------------
Init ==
  /\ setting \in Setting
  /\ order = "Parked"
  /\ shipped = {}
  /\ status = "SUBMITTED"
  /\ received = {}
  /\ count = [l \in Line |-> 0]
  /\ rolled = [l \in Line |-> 0]
  /\ event = [e \in Event |-> "none"]
  /\ pc = [w \in Worker |-> "idle"]
  /\ cache = [w \in Worker |-> None]
  /\ lineCache = [w \in Worker |-> None]
  /\ todo = [w \in Worker |-> {}]
  /\ sums = [w \in Worker |-> None]
  /\ cancelSeen = None
  /\ faults = 0

Progress(w) ==
  Begin(w) \/ Detect(w) \/ Reload(w) \/ Resolve(w) \/ Apply(w) \/ ReadTotals(w) \/ WriteRollups(w)

Next ==
  \/ CompleteOrder
  \/ \E s \in ShipLine : RecordShipment(s)
  \/ \E e \in Event : Deliver(e) \/ CloseEvent(e) \/ FailEvent(e)
  \/ \E w \in Worker : Progress(w) \/ GiveUp(w) \/ ShipmentsFail(w) \/ ApplyFail(w)
  \/ BeginCancel
  \/ CommitCancel
  \/ Crash

\* The polling job runs again and again, and Unleashed answers it again and
\* again: a step that is enabled infinitely often is taken.  Nothing is
\* assumed of webhooks, of the warehouse or of the manager.
Fairness ==
  \A w \in Poller :
    /\ WF_vars(Begin(w))
    /\ SF_vars(Detect(w))
    /\ WF_vars(Reload(w))
    /\ SF_vars(Resolve(w))
    /\ WF_vars(Apply(w) \/ ReadTotals(w) \/ WriteRollups(w))

Spec == Init /\ [][Next]_vars
FairSpec == Spec /\ Fairness
-----------------------------------------------------------------------------
TypeOK ==
  /\ setting \in Setting
  /\ order \in {"Parked", "Completed"}
  /\ shipped \subseteq ShipLine
  /\ status \in Status
  /\ received \subseteq [key: ReceiptKey, item: Line, quantity: Nat]
  /\ count \in [Line -> Nat]
  /\ rolled \in [Line -> Nat]
  /\ event \in [Event -> {"none", "RECEIVED", "PROCESSED", "ERROR"}]
  /\ pc \in [Worker -> {"idle", "recorded", "fetching", "detected", "resolving",
                        "applying", "rolling", "closing"}]
  /\ cache \in [Worker -> Status \union {None}]
  /\ lineCache \in [Worker -> [Line -> Nat] \union {None}]
  /\ todo \in [Worker -> SUBSET [key: ReceiptKey, item: Line, quantity: Nat]]
  /\ sums \in [Worker -> [Line -> Nat] \union {None}]
  /\ cancelSeen \in Status \union {None}
  /\ faults \in 0 .. MaxFaults

\* A request is called RECEIVED only when the ledger, not some worker's view of
\* it, covers every quantity asked for.
ReceivedIsCovered == status = "RECEIVED" => Covers([l \in Line |-> ReceivedOf(l)])

\* What Unleashed has shipped on a line.
ShippedOn(l) ==
  Total({s \in shipped : ShipmentOf[s].line = l}, [s \in shipped |-> ShipmentOf[s].quantity])

\* DESIGN.md:125, "If only 7 were shipped, the count rises by 7, never 8":
\* with shipments only, no line ever receives more than was shipped on it.
NeverMoreThanShipped ==
  setting.useShipments /\ ~ setting.fallbackToOrder =>
    \A l \in Line : ReceivedOf(l) <= ShippedOn(l)

\* receipt_service.py:10-14, "never double-added": a line's stock is not added
\* once for the order line and once more for its shipment.
NeverDoubleAdded ==
  \A x, y \in received : x.item = y.item /\ x.key \in Line => y.key \in Line

\* enums.py:35, "retired locally", and request_service.py:152, "poller stops
\* watching it": a cancelled request stays cancelled.
CancelledIsFinal == [][status = "CANCELLED" => status' = "CANCELLED"]_vars

FullyShipped == \A l \in Line : Final[l] <= ShippedOn(l)

\* Crashes, lost answers, failed shipment queries and racing workers
\* notwithstanding, a completed and fully shipped order is received at last,
\* unless a manager cancels the request.
EventuallyReceived ==
  order = "Completed" /\ FullyShipped ~> status \in {"RECEIVED", "CANCELLED"}
=============================================================================
