------------------------------ MODULE Submission ------------------------------
(***************************************************************************)
(* Daily requests of one store, up to their submission to Unleashed:       *)
(* request_service (generate, override, cancel, submit), entered by        *)
(* managers and the warehouse, and the end-of-day job auto_submit_service. *)
(*                                                                         *)
(* Each operation loads what it checks and commits later; what a session   *)
(* has loaded is view[s], and a commit writes only what differs from it.   *)
(* Stock is abstracted to what generation suggests: any of Suggestion.     *)
(* Unleashed is taken to answer a POST with the Guid posted: the Guid of   *)
(* the answer, which submit_to_unleashed stores (request_service.py:278),  *)
(* is then the one stored already.                                         *)
(***************************************************************************)
EXTENDS Integers, Sequences

CONSTANTS
  Manager,     \* sessions of managers and of the warehouse
  Job,         \* the session of the auto-submit job
  Suggestion,  \* what par level minus count may come to for the product
  Override,    \* quantities a manager may enter
  Overlap,     \* may two first submissions of a request overlap?
  MaxDay, MaxRequest, MaxLine,   \* bounds
  None

Session == Manager \union {Job}

ASSUME QuantityAssumption == Suggestion \subseteq Nat /\ Override \subseteq Int
ASSUME BoundsAssumption == MaxDay \in Nat \ {0} /\ MaxRequest \in Nat /\ MaxLine \in Nat
ASSUME OverlapAssumption == Overlap \in BOOLEAN
ASSUME NoneAssumption == None \notin Int

VARIABLES
  today,     \* the business day
  request,   \* the DailyRequest rows, by id
  line,      \* the DailyRequestLine rows, by id; deleted ones are not live
  guids,     \* how many order Guids have been generated
  orders,    \* the Sales Orders in Unleashed
  pc,        \* how far the operation of a session has come
  view       \* what the session has loaded

vars == <<today, request, line, guids, orders, pc, view>>
database == <<request, line>>

Editable == {"DRAFT", "SYNC_ERROR"}
Cancellable == {"DRAFT", "SUBMITTED", "SYNC_ERROR"}
Status == {"DRAFT", "SUBMITTED", "SYNC_ERROR", "CANCELLED"}

LinesOf(r) == {l \in DOMAIN line : line[l].live /\ line[l].request = r}
Live(lines) == \A l \in lines : line[l].live
NoView ==
  [request |-> None, status |-> None, guid |-> None, lines |-> {}, content |-> <<>>, day |-> None]
ViewOf(r, lines) ==
  [NoView EXCEPT !.request = r, !.status = request[r].status, !.guid = request[r].guid, !.lines = lines]

Step(s, from, to) == pc[s] = from /\ pc' = [pc EXCEPT ![s] = to]
Look(s, v) == view' = [view EXCEPT ![s] = v]

\* The row's status becomes new, if it differs from the status s has loaded.
WithStatus(s, r, new) ==
  [request EXCEPT ![r].status = IF view[s].status # new THEN new ELSE @]

-----------------------------------------------------------------------------
\* generate_daily_request: an open request of the day, any of them if there
\* are several, is loaded with its lines, or none is found.  The day is the one
\* on which the session looked, whatever day the commit comes on.
Drafts == {r \in DOMAIN request : request[r].day = today /\ request[r].status \in Editable}

LookForDraft(s) ==
  \/ /\ Drafts = {}
     /\ Look(s, [NoView EXCEPT !.day = today])
  \/ \E r \in Drafts : Look(s, ViewOf(r, LinesOf(r)))

BeginGenerate(s) ==
  /\ s \in Manager
  /\ Step(s, "idle", "generating")
  /\ LookForDraft(s)
  /\ UNCHANGED <<today, database, guids, orders>>

\* The old lines go, the request becomes a DRAFT or a new one is inserted, and
\* a product below par gets a line, all in one commit.
CommitGenerate(s) ==
  LET old == view[s].request
      r == IF old = None THEN Len(request) + 1 ELSE old
      kept == [l \in DOMAIN line |-> [line[l] EXCEPT !.live = @ /\ l \notin view[s].lines]]
  IN /\ Step(s, "generating", IF s = Job THEN "generated" ELSE "idle")
     /\ Len(line) < MaxLine
     /\ IF old = None
        THEN /\ Len(request) < MaxRequest
             /\ request' = Append(request, [day |-> view[s].day, status |-> "DRAFT", guid |-> None])
        ELSE request' = WithStatus(s, r, "DRAFT")
     /\ \E q \in Suggestion :
          line' = IF q > 0
                  THEN Append(kept, [request |-> r, suggested |-> q, final |-> q, live |-> TRUE])
                  ELSE kept
     /\ Look(s, IF s = Job THEN [NoView EXCEPT !.request = r] ELSE NoView)
     /\ UNCHANGED <<today, guids, orders>>

-----------------------------------------------------------------------------
\* override_line: only while the request is loaded as editable.
BeginOverride(s) ==
  /\ s \in Manager
  /\ Step(s, "idle", "overriding")
  /\ \E l \in DOMAIN line :
       /\ line[l].live
       /\ request[line[l].request].status \in Editable
       /\ Look(s, [ViewOf(line[l].request, {l}) EXCEPT !.content = [m \in {l} |-> line[l].final]])
  /\ UNCHANGED <<today, database, guids, orders>>

\* A quantity other than the one loaded is written; the UPDATE of a line
\* deleted meanwhile fails and writes nothing.
CommitOverride(s) ==
  /\ Step(s, "overriding", "idle")
  /\ \E q \in Override, l \in view[s].lines :
       line' = IF line[l].live /\ q # view[s].content[l] THEN [line EXCEPT ![l].final = q] ELSE line
  /\ Look(s, NoView)
  /\ UNCHANGED <<today, request, guids, orders>>

-----------------------------------------------------------------------------
\* cancel_request.
BeginCancel(s) ==
  /\ s \in Manager
  /\ Step(s, "idle", "cancelling")
  /\ \E r \in DOMAIN request :
       /\ request[r].status \in Cancellable
       /\ Look(s, ViewOf(r, LinesOf(r)))
  /\ UNCHANGED <<today, database, guids, orders>>

\* The audit rows refer to the lines: one deleted meanwhile fails the commit.
CommitCancel(s) ==
  /\ Step(s, "cancelling", "idle")
  /\ request' = IF Live(view[s].lines)
                THEN [request EXCEPT ![view[s].request].status = "CANCELLED"]
                ELSE request
  /\ Look(s, NoView)
  /\ UNCHANGED <<today, line, guids, orders>>

-----------------------------------------------------------------------------
Submitting(s) == pc[s] \in {"claiming", "building", "posting", "answered", "refused"}

\* Does another session submit a request whose Guid is still to be generated?
Exposed(r) ==
  request[r].guid = None /\ \E t \in Session : Submitting(t) /\ view[t].request = r

\* submit_to_unleashed loads the request and its lines with a quantity.
LoadForSubmit(s, r) ==
  LET lines == {l \in LinesOf(r) : line[l].final > 0}
  IN /\ Overlap \/ ~ Exposed(r)
     /\ request[r].status \in Editable
     /\ lines # {}
     /\ Look(s, ViewOf(r, lines))

\* POST /manager/requests/{id}/submit, /warehouse/requests/{id}/retry-submit.
BeginSubmit(s) ==
  /\ s \in Manager
  /\ Step(s, "idle", "claiming")
  /\ \E r \in DOMAIN request : LoadForSubmit(s, r)
  /\ UNCHANGED <<today, database, guids, orders>>

\* Variant: every attempt generates a Guid of its own.
CommitGuidAfresh(s) ==
  /\ Step(s, "claiming", "building")
  /\ guids' = guids + 1
  /\ request' = [request EXCEPT ![view[s].request].guid = guids']
  /\ UNCHANGED <<today, line, orders, view>>

\* Variant: the Guid is generated and not committed, so the reload finds none.
CommitGuidUnsaved(s) ==
  /\ Step(s, "claiming", "building")
  /\ guids' = guids + 1
  /\ UNCHANGED <<today, request, line, orders, view>>

\* The Guid is generated unless one was loaded, and committed before the call.
CommitGuid(s) ==
  /\ Step(s, "claiming", "building")
  /\ IF view[s].guid = None
     THEN /\ guids' = guids + 1
          /\ request' = [request EXCEPT ![view[s].request].guid = guids']
     ELSE UNCHANGED <<guids, request>>
  /\ UNCHANGED <<today, line, orders, view>>

\* _build_payload reloads what the commit expired: the Guid, the status and the
\* quantities as they are now.
BuildPayload(s) ==
  LET r == view[s].request
      lines == view[s].lines
  IN /\ Live(lines)
     /\ Step(s, "building", "posting")
     /\ Look(s, [ViewOf(r, lines) EXCEPT !.content = [l \in lines |-> line[l].final]])
     /\ UNCHANGED <<today, database, guids, orders>>

\* A line is gone: the reload raises, before anything is posted.
BuildFails(s) ==
  /\ ~ Live(view[s].lines)
  /\ Step(s, "building", "idle")
  /\ Look(s, NoView)
  /\ UNCHANGED <<today, database, guids, orders>>

\* Unleashed creates the order, or replaces the order with the same Guid.
Upsert(s) ==
  orders' = {o \in orders : o.guid # view[s].guid} \union
              {[guid |-> view[s].guid, request |-> view[s].request, content |-> view[s].content]}

PostAnswered(s) ==
  /\ Step(s, "posting", "answered")
  /\ Upsert(s)
  /\ UNCHANGED <<today, database, guids, view>>

\* UnleashedError: refused, unreachable, or the answer to a POST that created
\* the order was lost.
PostFails(s) ==
  /\ Step(s, "posting", "refused")
  /\ Upsert(s) \/ UNCHANGED orders
  /\ UNCHANGED <<today, database, guids, view>>

\* The outcome is committed with an audit row per line; a line deleted
\* meanwhile fails the commit and leaves the request as it was.
RecordOutcome(s, from, status) ==
  /\ Step(s, from, "idle")
  /\ request' = IF Live(view[s].lines) THEN WithStatus(s, view[s].request, status) ELSE request
  /\ Look(s, NoView)
  /\ UNCHANGED <<today, line, guids, orders>>

\* Variant: an attempt that failed is taken for one that was answered.
RecordSyncErrorSwallowed(s) == RecordOutcome(s, "refused", "SUBMITTED")

RecordSubmitted(s) == RecordOutcome(s, "answered", "SUBMITTED")
RecordSyncError(s) == RecordOutcome(s, "refused", "SYNC_ERROR")

-----------------------------------------------------------------------------
\* run_auto_submit looks at the latest request of the day: one in a skip status
\* is left, a curated one is submitted as it is, any other is regenerated.
Latest(r) ==
  /\ request[r].day = today
  /\ \A q \in DOMAIN request : request[q].day = today => q <= r

Curated(r) == \E l \in LinesOf(r) : line[l].final # line[l].suggested

Sweep ==
  /\ \/ /\ \E r \in DOMAIN request : Latest(r) /\ Curated(r) /\ LoadForSubmit(Job, r)
        /\ Step(Job, "idle", "claiming")
     \/ /\ \A r \in DOMAIN request :
             Latest(r) => request[r].status \in Editable /\ ~ Curated(r)
        /\ LookForDraft(Job)
        /\ Step(Job, "idle", "generating")
  /\ UNCHANGED <<today, database, guids, orders>>

\* The regenerated request is submitted, unless it is empty or no longer open.
SweepSubmit ==
  LET r == view[Job].request
  IN /\ \/ /\ Step(Job, "generated", "claiming")
           /\ LoadForSubmit(Job, r)
        \/ /\ Step(Job, "generated", "idle")
           /\ request[r].status \notin Editable \/ \A l \in LinesOf(r) : line[l].final <= 0
           /\ Look(Job, NoView)
     /\ UNCHANGED <<today, database, guids, orders>>

-----------------------------------------------------------------------------
\* The process dies with everything that has not been committed.
Crash ==
  /\ \E s \in Session : pc[s] # "idle"
  /\ pc' = [s \in Session |-> "idle"]
  /\ view' = [s \in Session |-> NoView]
  /\ UNCHANGED <<today, database, guids, orders>>

NextDay ==
  /\ today < MaxDay
  /\ today' = today + 1
  /\ UNCHANGED <<database, guids, orders, pc, view>>

Init ==
  /\ today = 1
  /\ request = <<>>
  /\ line = <<>>
  /\ guids = 0
  /\ orders = {}
  /\ pc = [s \in Session |-> "idle"]
  /\ view = [s \in Session |-> NoView]

Submit(s) ==
  \/ BeginSubmit(s) \/ CommitGuid(s) \/ BuildPayload(s) \/ BuildFails(s)
  \/ PostAnswered(s) \/ PostFails(s) \/ RecordSubmitted(s) \/ RecordSyncError(s)

Next ==
  \/ \E s \in Session :
       \/ BeginGenerate(s) \/ CommitGenerate(s)
       \/ BeginOverride(s) \/ CommitOverride(s)
       \/ BeginCancel(s) \/ CommitCancel(s)
       \/ Submit(s)
  \/ Sweep \/ SweepSubmit
  \/ Crash
  \/ NextDay

Spec == Init /\ [][Next]_vars
-----------------------------------------------------------------------------
RequestType == [day: 1 .. MaxDay, status: Status, guid: Nat \union {None}]
LineType == [request: 1 .. MaxRequest, suggested: Nat, final: Int, live: BOOLEAN]

\* Rows, orders and the sessions' views are well-formed (models.py:126-174).
TypeOK ==
  /\ today \in 1 .. MaxDay
  /\ request \in Seq(RequestType) /\ Len(request) <= MaxRequest
  /\ line \in Seq(LineType) /\ Len(line) <= MaxLine
  /\ guids \in Nat
  /\ \A o \in orders : o.guid \in 1 .. guids /\ o.request \in DOMAIN request
  /\ pc \in [Session -> {"idle", "generating", "generated", "overriding", "cancelling",
                         "claiming", "building", "posting", "answered", "refused"}]
  /\ \A s \in Session :
       /\ view[s].request \in DOMAIN request \union {None}
       /\ view[s].status \in Status \union {None}
       /\ view[s].guid \in 1 .. guids \union {None}
       /\ view[s].lines \subseteq DOMAIN line
       /\ view[s].day \in 1 .. MaxDay \union {None}

\* The Guid stored with a request leads the poller and the webhooks to its
\* order: whatever is posted, retried, lost or interrupted (submit_to_unleashed
\* commits the Guid before the call), no order exists under another Guid.
OrdersAreKnown == \A o \in orders : request[o.request].guid = o.guid

\* A request called SUBMITTED has an order in Unleashed under its Guid, though
\* submissions, cancellations, regenerations and crashes cross (the outcome is
\* recorded from what a session saw before and after the call).
SubmittedIsOrdered ==
  \A r \in DOMAIN request :
    request[r].status = "SUBMITTED" => \E o \in orders : o.guid = request[r].guid

\* request_service.py:239, "a retry reuses the same Guid (Unleashed upserts on
\* Guid -> no duplicate order)": a request never has two orders.
OneOrderPerRequest == \A o, p \in orders : o.request = p.request => o.guid = p.guid

\* auto_submit_service.py:13, "the next day's run (or a manual retry) reuses
\* the same order Guid, so no duplicates": while a request waits for its retry
\* no other request of the store gets an order.
RetriedUnderOneGuid ==
  \A q, r \in DOMAIN request :
    q < r /\ request[q].status = "SYNC_ERROR" => \A o \in orders : o.request # r
=============================================================================
