-------------------------- MODULE Submission_proofs --------------------------
(***************************************************************************)
(* That every order is found under its request's Guid, for any managers,   *)
(* quantities and bounds, as long as two first submissions of one request  *)
(* do not overlap.                                                         *)
(***************************************************************************)
EXTENDS Submission, TLAPS

Phase == {"idle", "generating", "generated", "overriding", "cancelling",
          "claiming", "building", "posting", "answered", "refused"}

\* A session that has posted, or is about to, knows the Guid it posts under.
Posts(s) == pc[s] \in {"posting", "answered", "refused"}

\* The rows and orders are well-formed, Guids are those generated so far.
Tables ==
  /\ today \in 1 .. MaxDay
  /\ request \in Seq(RequestType) /\ Len(request) <= MaxRequest
  /\ line \in Seq(LineType) /\ Len(line) <= MaxLine
  /\ guids \in Nat
  /\ \A o \in orders : o.guid \in 1 .. guids /\ o.request \in DOMAIN request
  /\ \A r \in DOMAIN request : request[r].guid \in 1 .. guids \union {None}
  /\ \A l \in DOMAIN line : line[l].request \in DOMAIN request

Shape == pc \in [Session -> Phase] /\ view = [s \in Session |-> view[s]]

\* What a session has loaded, and that past its first commit a submission
\* finds a Guid in the row.
SessionOK(s) ==
  /\ view[s].request \in DOMAIN request \union {None}
  /\ view[s].status \in Status \union {None}
  /\ view[s].guid \in 1 .. guids \union {None}
  /\ view[s].lines \subseteq DOMAIN line
  /\ view[s].day \in 1 .. MaxDay \union {None}
  /\ pc[s] = "generating" /\ view[s].request = None => view[s].day # None
  /\ pc[s] \notin {"idle", "generating"} => view[s].request \in DOMAIN request
  /\ pc[s] = "building" \/ Posts(s) \/ (pc[s] = "claiming" /\ view[s].guid # None) =>
       request[view[s].request].guid # None
  /\ Posts(s) => view[s].guid # None

Formed == Tables /\ Shape /\ \A s \in Session : SessionOK(s)

\* The Guid a submission has loaded is the one stored; two submissions of a
\* request find it stored; an answered one has its order.
Current(s) == pc[s] = "claiming" \/ Posts(s) => view[s].guid = request[view[s].request].guid

Alone(s, t) ==
  s # t /\ Submitting(s) /\ Submitting(t) /\ view[s].request = view[t].request =>
    request[view[s].request].guid # None

Ordered(s) == pc[s] = "answered" => \E o \in orders : o.guid = view[s].guid

Safe ==
  /\ \A s \in Session : Current(s) /\ Ordered(s)
  /\ \A s, t \in Session : Alone(s, t)
  /\ OrdersAreKnown
  /\ SubmittedIsOrdered

IInv == Formed /\ (~ Overlap => Safe)

Steady(s) == pc'[s] = pc[s] /\ view'[s] = view[s]

-----------------------------------------------------------------------------
\* Changing one field of a row keeps a table a table.
LEMMA Replaced ==
  ASSUME NEW S, NEW q \in Seq(S), NEW r \in DOMAIN q, NEW x \in S, NEW p, p = [q EXCEPT ![r] = x]
  PROVE  p \in Seq(S) /\ Len(p) = Len(q) /\ DOMAIN p = DOMAIN q
  OBVIOUS

LEMMA Restatus ==
  ASSUME NEW q \in Seq(RequestType), NEW r \in DOMAIN q, NEW x \in Status,
         NEW p, p = [q EXCEPT ![r].status = x]
  PROVE  /\ p \in Seq(RequestType) /\ Len(p) = Len(q) /\ DOMAIN p = DOMAIN q
         /\ \A i \in DOMAIN q : p[i].guid = q[i].guid /\ p[i].status = IF i = r THEN x ELSE q[i].status
  <1>1. q[r] \in RequestType
    OBVIOUS
  <1>2. [q[r] EXCEPT !.status = x] \in RequestType
    BY <1>1 DEF RequestType
  <1>3. p = [q EXCEPT ![r] = [q[r] EXCEPT !.status = x]]
    OBVIOUS
  <1>4. p \in Seq(RequestType) /\ Len(p) = Len(q) /\ DOMAIN p = DOMAIN q
    BY <1>2, <1>3, Replaced
  <1>5. \A i \in DOMAIN q : p[i] = IF i = r THEN [q[r] EXCEPT !.status = x] ELSE q[i]
    BY <1>3
  <1> QED
    BY <1>1, <1>4, <1>5 DEF RequestType

LEMMA Unchanged ==
  ASSUME NEW q \in Seq(RequestType), NEW r \in DOMAIN q
  PROVE  q = [q EXCEPT ![r].status = q[r].status] /\ q[r].status \in Status
  <1>1. q[r] \in RequestType
    OBVIOUS
  <1>2. [q[r] EXCEPT !.status = q[r].status] = q[r] /\ q[r].status \in Status
    BY <1>1 DEF RequestType
  <1> QED
    BY <1>2

LEMMA Claim ==
  ASSUME NEW q \in Seq(RequestType), NEW r \in DOMAIN q, NEW g \in Nat,
         NEW p, p = [q EXCEPT ![r].guid = g]
  PROVE  /\ p \in Seq(RequestType) /\ Len(p) = Len(q) /\ DOMAIN p = DOMAIN q
         /\ \A i \in DOMAIN q : p[i].status = q[i].status /\ p[i].guid = IF i = r THEN g ELSE q[i].guid
  <1>1. q[r] \in RequestType
    OBVIOUS
  <1>2. [q[r] EXCEPT !.guid = g] \in RequestType
    BY <1>1 DEF RequestType
  <1>3. p = [q EXCEPT ![r] = [q[r] EXCEPT !.guid = g]]
    OBVIOUS
  <1>4. p \in Seq(RequestType) /\ Len(p) = Len(q) /\ DOMAIN p = DOMAIN q
    BY <1>2, <1>3, Replaced
  <1>5. \A i \in DOMAIN q : p[i] = IF i = r THEN [q[r] EXCEPT !.guid = g] ELSE q[i]
    BY <1>3
  <1> QED
    BY <1>1, <1>4, <1>5 DEF RequestType

LEMMA Appended ==
  ASSUME NEW S, NEW q \in Seq(S), NEW x \in S, NEW p, p = Append(q, x)
  PROVE  /\ p \in Seq(S) /\ Len(p) = Len(q) + 1 /\ DOMAIN p = 1 .. Len(q) + 1
         /\ DOMAIN q = 1 .. Len(q) /\ Len(q) \in Nat
         /\ \A i \in DOMAIN q : p[i] = q[i]
         /\ p[Len(q) + 1] = x
  OBVIOUS

\* Entering a quantity keeps the table of lines.
LEMMA Entered ==
  ASSUME NEW q \in Seq(LineType), NEW l \in DOMAIN q, NEW x \in Int,
         NEW p, p = [q EXCEPT ![l].final = x]
  PROVE  /\ p \in Seq(LineType) /\ Len(p) = Len(q) /\ DOMAIN p = DOMAIN q
         /\ \A m \in DOMAIN q : p[m].request = q[m].request
  <1>1. q[l] \in LineType
    OBVIOUS
  <1>2. [q[l] EXCEPT !.final = x] \in LineType /\ [q[l] EXCEPT !.final = x].request = q[l].request
    BY <1>1 DEF LineType
  <1>3. p = [q EXCEPT ![l] = [q[l] EXCEPT !.final = x]]
    OBVIOUS
  <1>4. p \in Seq(LineType) /\ Len(p) = Len(q) /\ DOMAIN p = DOMAIN q
    BY <1>2, <1>3, Replaced
  <1> QED
    BY <1>2, <1>3, <1>4

-----------------------------------------------------------------------------
\* What a step of one session does to pc and view.
LEMMA Looked ==
  ASSUME Shape, NEW s \in Session, NEW from, NEW to \in Phase, Step(s, from, to),
         NEW v, Look(s, v)
  PROVE  /\ Shape' /\ pc[s] = from /\ pc'[s] = to /\ view'[s] = v
         /\ \A t \in Session \ {s} : Steady(t)
  BY DEF Shape, Step, Look, Steady

LEMMA Stepped ==
  ASSUME Shape, NEW s \in Session, NEW from, NEW to \in Phase, Step(s, from, to),
         UNCHANGED view
  PROVE  /\ Shape' /\ pc[s] = from /\ pc'[s] = to /\ view'[s] = view[s]
         /\ \A t \in Session \ {s} : Steady(t)
  BY DEF Shape, Step, Steady

\* What a session loads is typed.
LEMMA ViewTyped ==
  ASSUME Tables, NEW r \in DOMAIN request, NEW L \in SUBSET DOMAIN line, NEW c,
         NEW v, v = ViewOf(r, L) \/ v = [ViewOf(r, L) EXCEPT !.content = c]
  PROVE  /\ v.request = r /\ v.lines = L /\ v.day = None
         /\ v.status = request[r].status /\ v.status \in Status
         /\ v.guid = request[r].guid /\ v.guid \in 1 .. guids \union {None}
  <1>1. request[r] \in RequestType
    BY DEF Tables
  <1> QED
    BY <1>1 DEF Tables, ViewOf, NoView, RequestType

\* A session that a step leaves alone stays as well-formed as it was ...
LEMMA SessionStays ==
  ASSUME Formed, Tables', NEW t \in Session, Steady(t),
         DOMAIN request \subseteq DOMAIN request', DOMAIN line \subseteq DOMAIN line',
         guids <= guids',
         \A r \in DOMAIN request : request[r].guid # None => request'[r].guid # None
  PROVE  SessionOK(t)'
  <1>1. SessionOK(t)
    BY DEF Formed
  <1>2. 1 .. guids \subseteq 1 .. guids'
    BY DEF Formed, Tables
  <1>3. pc[t] = "building" \/ Posts(t) \/ (pc[t] = "claiming" /\ view[t].guid # None) =>
          view[t].request \in DOMAIN request
    BY <1>1 DEF SessionOK, Posts
  <1> QED
    BY <1>1, <1>2, <1>3 DEF SessionOK, Posts, Steady

\* ... and one that is done is.
LEMMA SessionDone ==
  ASSUME NEW s \in Session, pc'[s] = "idle", view'[s] = NoView
  PROVE  SessionOK(s)'
  BY DEF SessionOK, Posts, NoView

\* A step of s alone: the tables grow and s itself is well-formed afterwards.
LEMMA FormedAfter ==
  ASSUME Formed, Tables', Shape', NEW s \in Session, SessionOK(s)',
         \A t \in Session \ {s} : Steady(t),
         DOMAIN request \subseteq DOMAIN request', DOMAIN line \subseteq DOMAIN line',
         guids <= guids',
         \A r \in DOMAIN request : request[r].guid # None => request'[r].guid # None
  PROVE  Formed'
  <1>1. \A t \in Session \ {s} : SessionOK(t)'
    BY SessionStays
  <1> QED
    BY <1>1 DEF Formed

\* Safety survives a step that leaves Guids and orders alone, calls
\* only what has an order SUBMITTED, and ends submissions or leaves them where
\* they are.
LEMMA SafeAside ==
  ASSUME Formed, Safe, Tables', UNCHANGED orders,
         DOMAIN request \subseteq DOMAIN request',
         \A r \in DOMAIN request : request'[r].guid = request[r].guid,
         \A r \in DOMAIN request' : request'[r].status = "SUBMITTED" =>
           /\ r \in DOMAIN request
           /\ request[r].status = "SUBMITTED" \/ \E o \in orders : o.guid = request[r].guid,
         \A t \in Session : Steady(t) \/ ~ Submitting(t)'
  PROVE  Safe'
  <1>1. \A t \in Session : Submitting(t)' => Steady(t) /\ Submitting(t) /\ view[t].request \in DOMAIN request
    BY DEF Formed, SessionOK, Steady, Submitting
  <1>2. \A t \in Session : Current(t)'
    BY <1>1 DEF Safe, Current, Posts, Submitting, Steady
  <1>3. \A t \in Session : Ordered(t)'
    BY <1>1 DEF Safe, Ordered, Submitting, Steady
  <1>4. \A t, u \in Session : Alone(t, u)'
    BY <1>1 DEF Safe, Alone, Steady
  <1>5. OrdersAreKnown'
    BY DEF Safe, OrdersAreKnown, Formed, Tables
  <1>6. SubmittedIsOrdered'
    BY DEF Safe, SubmittedIsOrdered
  <1> QED
    BY <1>2, <1>3, <1>4, <1>5, <1>6 DEF Safe

-----------------------------------------------------------------------------
LEMMA InitIInv == Init => IInv
  <1> SUFFICES ASSUME Init PROVE IInv
    OBVIOUS
  <1>1. Tables
    BY BoundsAssumption DEF Init, Tables
  <1>2. Shape
    BY DEF Init, Shape, Phase
  <1>3. \A s \in Session : SessionOK(s)
    BY DEF Init, SessionOK, Posts, NoView
  <1>4. Safe
    BY DEF Init, Safe, Current, Ordered, Alone, Posts, Submitting, OrdersAreKnown, SubmittedIsOrdered
  <1> QED
    BY <1>1, <1>2, <1>3, <1>4 DEF IInv, Formed

\* The tables stay as they are when only pc, view and the day change.
LEMMA TablesStay ==
  ASSUME Formed, UNCHANGED <<database, guids, orders>>, today' \in 1 .. MaxDay
  PROVE  /\ Tables'
         /\ DOMAIN request = DOMAIN request' /\ DOMAIN line = DOMAIN line'
         /\ guids <= guids'
         /\ \A r \in DOMAIN request : request'[r] = request[r]
  BY DEF Formed, Tables, database

\* A session loads rows to generate, override or cancel, or gives up.
LEMMA LookAside ==
  ASSUME IInv, UNCHANGED <<today, database, guids, orders>>, NEW s \in Session,
         NEW from, NEW to \in {"idle", "generating", "overriding", "cancelling"},
         Step(s, from, to), NEW v, Look(s, v),
         v.request \in DOMAIN request \union {None},
         to \in {"overriding", "cancelling"} => v.request \in DOMAIN request,
         v.status \in Status \union {None},
         v.guid \in 1 .. guids \union {None},
         v.lines \subseteq DOMAIN line,
         v.day \in 1 .. MaxDay \union {None},
         to = "generating" /\ v.request = None => v.day # None
  PROVE  IInv'
  <1>1. Formed /\ Shape
    BY DEF IInv, Formed
  <1>2. /\ Shape' /\ pc'[s] = to /\ view'[s] = v
        /\ \A t \in Session \ {s} : Steady(t)
    BY <1>1, Looked DEF Phase
  <1>3. /\ Tables' /\ DOMAIN request = DOMAIN request' /\ DOMAIN line = DOMAIN line'
        /\ guids <= guids' /\ \A r \in DOMAIN request : request'[r] = request[r]
    BY <1>1, TablesStay DEF Formed, Tables
  <1>4. SessionOK(s)'
    BY <1>2 DEF SessionOK, Posts, database
  <1>5. Formed'
    BY <1>1, <1>2, <1>3, <1>4, FormedAfter
  <1>6. \A t \in Session : Steady(t) \/ ~ Submitting(t)'
    BY <1>2 DEF Submitting
  <1>7. Safe => Safe'
    BY <1>1, <1>3, <1>6, SafeAside
  <1> QED
    BY <1>5, <1>7 DEF IInv

\* Looking for a draft finds nothing or a row of the table.
LEMMA Found ==
  ASSUME IInv, NEW s \in Session, LookForDraft(s)
  PROVE  \E v : /\ Look(s, v)
                /\ v.request \in DOMAIN request \union {None} /\ v.status \in Status \union {None}
                /\ v.guid \in 1 .. guids \union {None} /\ v.lines \subseteq DOMAIN line
                /\ v.day \in 1 .. MaxDay \union {None} /\ (v.request = None => v.day # None)
  <1>1. ASSUME Drafts = {}, Look(s, [NoView EXCEPT !.day = today])
        PROVE  \E v : /\ Look(s, v)
                      /\ v.request = None /\ v.status = None /\ v.guid = None /\ v.lines = {}
                      /\ v.day \in 1 .. MaxDay
    <2>1. today \in 1 .. MaxDay
      BY DEF IInv, Formed, Tables
    <2> QED
      BY <1>1, <2>1 DEF NoView
  <1>2. ASSUME NEW r \in Drafts, Look(s, ViewOf(r, LinesOf(r)))
        PROVE  \E v : /\ Look(s, v)
                      /\ v.request \in DOMAIN request \union {None} /\ v.status \in Status \union {None}
                      /\ v.guid \in 1 .. guids \union {None} /\ v.lines \subseteq DOMAIN line
                      /\ v.day = None /\ v.request # None
    <2>1. r \in DOMAIN request /\ LinesOf(r) \in SUBSET DOMAIN line /\ Tables /\ r # None
      BY NoneAssumption DEF IInv, Formed, Tables, Drafts, LinesOf
    <2> DEFINE v == ViewOf(r, LinesOf(r))
    <2>2. /\ v.request \in DOMAIN request /\ v.lines \subseteq DOMAIN line
          /\ v.status \in Status /\ v.guid \in 1 .. guids \union {None}
          /\ v.day = None /\ v.request # None
      <3> HIDE DEF v
      <3>1. v = ViewOf(r, LinesOf(r)) \/ v = [ViewOf(r, LinesOf(r)) EXCEPT !.content = {}]
        BY DEF v
      <3>2. /\ v.request = r /\ v.lines = LinesOf(r) /\ v.day = None
            /\ v.status \in Status /\ v.guid \in 1 .. guids \union {None}
        BY <2>1, <3>1, ViewTyped
      <3> QED
        BY <2>1, <3>2
    <2> QED
      BY <1>2, <2>2
  <1> QED
    BY <1>1, <1>2, NoneAssumption DEF LookForDraft

LEMMA BeginGenerateKeeps ==
  ASSUME IInv, NEW s \in Session, BeginGenerate(s)
  PROVE  IInv'
  BY Found, LookAside DEF BeginGenerate

LEMMA BeginOverrideKeeps ==
  ASSUME IInv, NEW s \in Session, BeginOverride(s)
  PROVE  IInv'
  <1>1. PICK l \in DOMAIN line :
          Look(s, [ViewOf(line[l].request, {l}) EXCEPT !.content = [m \in {l} |-> line[l].final]])
    BY DEF BeginOverride
  <1>2. Tables /\ line[l].request \in DOMAIN request /\ {l} \in SUBSET DOMAIN line
    BY DEF IInv, Formed, Tables
  <1> DEFINE r == line[l].request
             c == [m \in {l} |-> line[l].final]
             v == [ViewOf(r, {l}) EXCEPT !.content = c]
  <1>3. /\ v.request = r /\ v.lines = {l} /\ v.status \in Status /\ v.guid \in 1 .. guids \union {None}
        /\ v.day = None
    <2> HIDE DEF r, c
    <2> SUFFICES ASSUME NEW w, w = v
                 PROVE  /\ w.request = r /\ w.lines = {l} /\ w.status \in Status
                        /\ w.guid \in 1 .. guids \union {None} /\ w.day = None
      OBVIOUS
    <2>1. r \in DOMAIN request
      BY <1>2 DEF r
    <2> QED
      BY <1>2, <2>1, ViewTyped
  <1>4. Look(s, v)
    BY <1>1
  <1> HIDE DEF v
  <1> QED
    BY <1>2, <1>3, <1>4, LookAside DEF BeginOverride

LEMMA BeginCancelKeeps ==
  ASSUME IInv, NEW s \in Session, BeginCancel(s)
  PROVE  IInv'
  <1>1. PICK r \in DOMAIN request : Look(s, ViewOf(r, LinesOf(r)))
    BY DEF BeginCancel
  <1>2. PICK v : v = ViewOf(r, LinesOf(r))
    OBVIOUS
  <1>3. /\ v.request = r /\ v.lines \subseteq DOMAIN line /\ v.day = None
        /\ v.status \in Status /\ v.guid \in 1 .. guids \union {None}
    <2>1. Tables /\ LinesOf(r) \in SUBSET DOMAIN line
      BY DEF IInv, Formed, LinesOf
    <2> QED
      BY <1>2, <2>1, ViewTyped
  <1> QED
    BY <1>1, <1>2, <1>3, LookAside DEF BeginCancel

\* Nothing is looked at: the session's view is empty.
LEMMA GiveUpKeeps ==
  ASSUME IInv, NEW s \in Session, NEW from, Step(s, from, "idle"), Look(s, NoView),
         UNCHANGED <<today, database, guids, orders>>
  PROVE  IInv'
  <1>1. /\ NoView.request \in DOMAIN request \union {None} /\ NoView.status \in Status \union {None}
        /\ NoView.guid \in 1 .. guids \union {None} /\ NoView.lines \subseteq DOMAIN line
        /\ NoView.day \in 1 .. MaxDay \union {None}
    BY DEF NoView
  <1> QED
    BY <1>1, LookAside

-----------------------------------------------------------------------------
\* A submission begins: no other one is about to generate the request's Guid.
LEMMA LoadKeeps ==
  ASSUME IInv, NEW s \in Session, NEW from \in {"idle", "generated"}, Step(s, from, "claiming"),
         NEW r \in DOMAIN request, LoadForSubmit(s, r),
         UNCHANGED <<today, database, guids, orders>>
  PROVE  IInv'
  <1>1. Formed /\ Shape /\ Tables
    BY DEF IInv, Formed
  <1>2. PICK v, L : L \in SUBSET DOMAIN line /\ v = ViewOf(r, L) /\ Look(s, v)
    BY DEF LoadForSubmit, LinesOf
  <1>3. /\ v.request = r /\ v.lines \subseteq DOMAIN line /\ v.status \in Status /\ v.day = None
        /\ v.guid = request[r].guid /\ v.guid \in 1 .. guids \union {None}
    BY <1>1, <1>2, ViewTyped
  <1>4. /\ Shape' /\ pc[s] = from /\ pc'[s] = "claiming" /\ view'[s] = v
        /\ \A t \in Session \ {s} : Steady(t)
    BY <1>1, <1>2, Looked DEF Phase
  <1>5. /\ Tables' /\ DOMAIN request = DOMAIN request' /\ DOMAIN line = DOMAIN line'
        /\ guids <= guids' /\ \A q \in DOMAIN request : request'[q] = request[q]
    BY <1>1, TablesStay DEF Tables
  <1>6. SessionOK(s)'
    BY <1>3, <1>4 DEF SessionOK, Posts, database
  <1>7. Formed'
    BY <1>1, <1>4, <1>5, <1>6, FormedAfter
  <1>8. ASSUME ~ Overlap, Safe
        PROVE  Safe'
    <2>1. \A t \in Session : Current(t)'
      BY <1>3, <1>4, <1>8 DEF Safe, Current, Posts, Steady, database
    <2>2. \A t \in Session : Ordered(t)'
      BY <1>4, <1>8 DEF Safe, Ordered, Steady
    <2>3. \A t \in Session \ {s} : Alone(s, t)' /\ Alone(t, s)'
      <3> SUFFICES ASSUME NEW t \in Session \ {s}, Submitting(t)', view'[t].request = r
                   PROVE  request[r].guid # None
        BY <1>3, <1>4 DEF Alone, database
      <3>1. Submitting(t) /\ view[t].request = r
        BY <1>4 DEF Submitting, Steady
      <3> QED
        BY <3>1, <1>8 DEF LoadForSubmit, Exposed
    <2>4. \A t, u \in Session \ {s} : Alone(t, u)'
      BY <1>4, <1>8 DEF Safe, Alone, Submitting, Steady, database
    <2>5. \A t, u \in Session : Alone(t, u)'
      BY <2>3, <2>4 DEF Alone
    <2>6. OrdersAreKnown' /\ SubmittedIsOrdered'
      BY <1>8 DEF Safe, OrdersAreKnown, SubmittedIsOrdered, database
    <2> QED
      BY <2>1, <2>2, <2>5, <2>6 DEF Safe
  <1> QED
    BY <1>7, <1>8 DEF IInv

\* The Guid is committed: nobody else submits a request that has none yet.
LEMMA CommitGuidKeeps ==
  ASSUME IInv, NEW s \in Session, CommitGuid(s)
  PROVE  IInv'
  <1> DEFINE r == view[s].request
  <1>1. Formed /\ Shape /\ Tables /\ SessionOK(s)
    BY DEF IInv, Formed
  <1>2. /\ Shape' /\ pc[s] = "claiming" /\ pc'[s] = "building" /\ view'[s] = view[s]
        /\ \A t \in Session \ {s} : Steady(t)
    BY <1>1, Stepped DEF CommitGuid, Phase
  <1>3. r \in DOMAIN request
    BY <1>1, <1>2 DEF SessionOK
  <1>4. CASE view[s].guid # None
    <2>1. UNCHANGED <<today, database, guids, orders, view>>
      BY <1>4 DEF CommitGuid, database
    <2>2. /\ Tables' /\ DOMAIN request = DOMAIN request' /\ DOMAIN line = DOMAIN line'
          /\ guids <= guids' /\ \A q \in DOMAIN request : request'[q] = request[q]
      BY <1>1, <2>1, TablesStay DEF Tables
    <2>3. SessionOK(s)'
      BY <1>1, <1>2, <1>3, <1>4, <2>1 DEF SessionOK, Posts, database
    <2>4. Formed'
      BY <1>1, <1>2, <2>2, <2>3, FormedAfter
    <2>5. ASSUME Safe PROVE Safe'
      BY <1>2, <2>1, <2>5 DEF Safe, Current, Ordered, Alone, Posts, Submitting, Steady,
         OrdersAreKnown, SubmittedIsOrdered, database
    <2> QED
      BY <2>4, <2>5 DEF IInv
  <1>5. CASE view[s].guid = None
    <2>1. /\ guids' = guids + 1 /\ request' = [request EXCEPT ![r].guid = guids']
          /\ UNCHANGED <<today, line, orders, view>>
      BY <1>5 DEF CommitGuid
    <2>2. guids' \in Nat /\ guids' # None /\ guids' \in 1 .. guids' /\ 1 .. guids \subseteq 1 .. guids'
      BY <1>1, <2>1, NoneAssumption DEF Tables
    <2>3. /\ request' \in Seq(RequestType) /\ Len(request') = Len(request) /\ DOMAIN request' = DOMAIN request
          /\ \A q \in DOMAIN request : /\ request'[q].status = request[q].status
                                       /\ request'[q].guid = IF q = r THEN guids' ELSE request[q].guid
      BY <1>1, <1>3, <2>1, <2>2, Claim DEF Tables
    <2>4. Tables'
      BY <1>1, <2>1, <2>2, <2>3 DEF Tables
    <2>5. SessionOK(s)'
      <3>1. /\ view'[s].request \in DOMAIN request' /\ view'[s].guid \in 1 .. guids' \union {None}
            /\ request'[view'[s].request].guid # None
        BY <1>1, <1>2, <1>3, <2>2, <2>3 DEF SessionOK
      <3> QED
        BY <1>1, <1>2, <2>1, <3>1 DEF SessionOK, Posts
    <2>6. Formed'
      <3>1. \A q \in DOMAIN request : request[q].guid # None => request'[q].guid # None
        BY <2>2, <2>3
      <3>2. guids <= guids' /\ DOMAIN line = DOMAIN line'
        BY <1>1, <2>1 DEF Tables
      <3> QED
        BY <1>1, <1>2, <2>3, <2>4, <2>5, <3>1, <3>2, FormedAfter
    <2>7. ASSUME Safe PROVE Safe'
      <3>1. request[r].guid = None
        BY <1>2, <1>5, <2>7 DEF Safe, Current
      <3>2. \A t \in Session \ {s} : Submitting(t) => view[t].request # r
        BY <1>2, <3>1, <2>7 DEF Safe, Alone, Submitting
      <3>3. \A t \in Session : Current(t)'
        <4> SUFFICES ASSUME NEW t \in Session \ {s}, pc[t] = "claiming" \/ Posts(t)
                     PROVE  view[t].guid = request'[view[t].request].guid
          BY <1>2, <2>1 DEF Current, Posts, Steady
        <4>1. view[t].request \in DOMAIN request /\ view[t].request # r
          BY <1>1, <3>2 DEF Formed, SessionOK, Submitting, Posts
        <4> QED
          BY <2>3, <2>7, <4>1 DEF Safe, Current
      <3>4. \A t \in Session : Ordered(t)'
        BY <1>2, <2>1, <2>7 DEF Safe, Ordered, Steady
      <3>5. \A t, u \in Session : Alone(t, u)'
        <4> SUFFICES ASSUME NEW t \in Session, NEW u \in Session, t # u, Submitting(t)', Submitting(u)',
                            view[t].request = view[u].request
                     PROVE  request'[view[t].request].guid # None
          BY <2>1 DEF Alone
        <4>1. Submitting(t) /\ Submitting(u) /\ view[t].request \in DOMAIN request
          BY <1>1, <1>2 DEF Submitting, Steady, Formed, SessionOK
        <4>2. request[view[t].request].guid # None
          BY <2>7, <4>1 DEF Safe, Alone
        <4> QED
          BY <2>2, <2>3, <4>1, <4>2
      <3>6. \A o \in orders : o.request # r
        BY <1>1, <2>7, <3>1, NoneAssumption DEF Safe, OrdersAreKnown, Tables
      <3>7. OrdersAreKnown'
        BY <1>1, <2>1, <2>3, <2>7, <3>6 DEF Safe, OrdersAreKnown, Tables
      <3>8. request[r].status # "SUBMITTED"
        BY <1>1, <1>3, <2>7, <3>1, NoneAssumption DEF Safe, SubmittedIsOrdered, Tables
      <3>9. SubmittedIsOrdered'
        BY <2>1, <2>3, <2>7, <3>8 DEF Safe, SubmittedIsOrdered
      <3> QED
        BY <3>3, <3>4, <3>5, <3>7, <3>9 DEF Safe
    <2> QED
      BY <2>6, <2>7 DEF IInv
  <1> QED
    BY <1>4, <1>5

\* The payload is built from what is stored: the view is that of the row.
LEMMA BuildPayloadKeeps ==
  ASSUME IInv, NEW s \in Session, BuildPayload(s)
  PROVE  IInv'
  <1>1. Formed /\ Shape /\ Tables /\ SessionOK(s)
    BY DEF IInv, Formed
  <1>2. PICK r, L, c, v : /\ r = view[s].request /\ L = view[s].lines
                          /\ v = [ViewOf(r, L) EXCEPT !.content = c] /\ Look(s, v)
    BY DEF BuildPayload
  <1>3. /\ Shape' /\ pc[s] = "building" /\ pc'[s] = "posting" /\ view'[s] = v
        /\ \A t \in Session \ {s} : Steady(t)
    BY <1>1, <1>2, Looked DEF BuildPayload, Phase
  <1>4. r \in DOMAIN request /\ L \in SUBSET DOMAIN line /\ request[r].guid # None
    BY <1>1, <1>2, <1>3 DEF SessionOK
  <1>5. /\ v.request = r /\ v.lines = L /\ v.status \in Status /\ v.day = None
        /\ v.guid = request[r].guid /\ v.guid \in 1 .. guids \union {None}
    BY <1>1, <1>2, <1>4, ViewTyped
  <1>6. /\ Tables' /\ DOMAIN request = DOMAIN request' /\ DOMAIN line = DOMAIN line'
        /\ guids <= guids' /\ \A q \in DOMAIN request : request'[q] = request[q]
    BY <1>1, TablesStay DEF BuildPayload, Tables
  <1>7. SessionOK(s)'
    BY <1>3, <1>4, <1>5, <1>6 DEF SessionOK, Posts, BuildPayload
  <1>8. Formed'
    BY <1>1, <1>3, <1>6, <1>7, FormedAfter
  <1>9. ASSUME Safe PROVE Safe'
    <2>1. UNCHANGED <<request, orders>>
      BY DEF BuildPayload, database
    <2>2. \A t \in Session : Current(t)' /\ Ordered(t)'
      BY <1>3, <1>5, <1>9, <2>1 DEF Safe, Current, Ordered, Posts, Steady
    <2>3. \A t, u \in Session : Alone(t, u)'
      <3>1. \A t \in Session : view'[t].request = view[t].request /\ (Submitting(t)' => Submitting(t))
        BY <1>2, <1>3, <1>5 DEF Submitting, Steady
      <3> SUFFICES ASSUME NEW t \in Session, NEW u \in Session, t # u, Submitting(t)', Submitting(u)',
                          view[t].request = view[u].request
                   PROVE  request[view[t].request].guid # None
        BY <2>1, <3>1 DEF Alone
      <3> QED
        BY <1>9, <3>1 DEF Safe, Alone
    <2>4. OrdersAreKnown' /\ SubmittedIsOrdered'
      BY <1>9, <2>1 DEF Safe, OrdersAreKnown, SubmittedIsOrdered
    <2> QED
      BY <2>2, <2>3, <2>4 DEF Safe
  <1> QED
    BY <1>8, <1>9 DEF IInv

\* Whatever becomes of the call, an order it leaves behind has the stored Guid.
LEMMA PostKeeps ==
  ASSUME IInv, NEW s \in Session, PostAnswered(s) \/ PostFails(s)
  PROVE  IInv'
  <1> DEFINE new == [guid |-> view[s].guid, request |-> view[s].request, content |-> view[s].content]
  <1>1. Formed /\ Shape /\ Tables /\ SessionOK(s)
    BY DEF IInv, Formed
  <1>2. PICK to \in {"answered", "refused"} :
          Step(s, "posting", to) /\ (to = "answered" => Upsert(s)) /\ (Upsert(s) \/ UNCHANGED orders)
    BY DEF PostAnswered, PostFails
  <1>3. UNCHANGED <<today, request, line, guids, view>>
    BY DEF PostAnswered, PostFails, database
  <1>4. /\ Shape' /\ pc[s] = "posting" /\ pc'[s] = to /\ view'[s] = view[s]
        /\ \A t \in Session \ {s} : Steady(t)
    BY <1>1, <1>2, <1>3, Stepped DEF Phase
  <1>5. /\ view[s].request \in DOMAIN request /\ view[s].guid \in 1 .. guids
        /\ request[view[s].request].guid # None
    BY <1>1, <1>4 DEF SessionOK, Posts
  <1>6. new.guid = view[s].guid /\ new.request = view[s].request
    OBVIOUS
  <1>7. /\ \A o \in orders' : o \in orders \/ (o.guid = view[s].guid /\ o.request = view[s].request)
        /\ \A o \in orders : \E p \in orders' : p.guid = o.guid
        /\ to = "answered" => \E p \in orders' : p.guid = view[s].guid
    <2>1. CASE UNCHANGED orders /\ to # "answered"
      BY <2>1
    <2>2. CASE Upsert(s)
      <3>1. orders' = {o \in orders : o.guid # view[s].guid} \union {new}
        BY <2>2 DEF Upsert
      <3> QED
        BY <3>1, <1>6
    <2> QED
      BY <1>2, <2>1, <2>2
  <1>8. Tables'
    BY <1>1, <1>3, <1>5, <1>7 DEF Tables
  <1>9. SessionOK(s)'
    BY <1>1, <1>2, <1>3, <1>4, <1>5 DEF SessionOK, Posts
  <1>10. Formed'
    BY <1>1, <1>3, <1>4, <1>8, <1>9, FormedAfter DEF Tables
  <1>11. ASSUME Safe PROVE Safe'
    <2>1. \A t \in Session : Current(t)'
      BY <1>2, <1>3, <1>4, <1>11 DEF Safe, Current, Posts, Steady
    <2>2. \A t \in Session : Ordered(t)'
      BY <1>3, <1>4, <1>7, <1>11 DEF Safe, Ordered, Steady
    <2>3. \A t, u \in Session : Alone(t, u)'
      <3> SUFFICES ASSUME NEW t \in Session, NEW u \in Session, t # u, Submitting(t)', Submitting(u)',
                          view[t].request = view[u].request
                   PROVE  request[view[t].request].guid # None
        BY <1>3 DEF Alone
      <3>1. Submitting(t) /\ Submitting(u)
        BY <1>2, <1>4 DEF Submitting, Steady
      <3> QED
        BY <1>11, <3>1 DEF Safe, Alone
    <2>4. view[s].guid = request[view[s].request].guid
      BY <1>4, <1>11 DEF Safe, Current, Posts
    <2>5. OrdersAreKnown'
      BY <1>3, <1>7, <1>11, <2>4 DEF Safe, OrdersAreKnown
    <2>6. SubmittedIsOrdered'
      BY <1>3, <1>7, <1>11 DEF Safe, SubmittedIsOrdered
    <2> QED
      BY <2>1, <2>2, <2>3, <2>5, <2>6 DEF Safe
  <1> QED
    BY <1>10, <1>11 DEF IInv

\* A session that is done leaves the statuses it may have changed, and lines
\* that others may have loaded.
LEMMA DoneKeeps ==
  ASSUME IInv, NEW s \in Session, NEW from, Step(s, from, "idle"), Look(s, NoView), Tables',
         UNCHANGED <<guids, orders>>,
         DOMAIN request' = DOMAIN request, DOMAIN line' = DOMAIN line,
         \A q \in DOMAIN request : request'[q].guid = request[q].guid,
         ~ Overlap /\ Safe =>
           \A q \in DOMAIN request : request'[q].status = "SUBMITTED" =>
             request[q].status = "SUBMITTED" \/ \E o \in orders : o.guid = request[q].guid
  PROVE  IInv'
  <1>1. Formed /\ Shape
    BY DEF IInv, Formed
  <1>2. /\ Shape' /\ pc'[s] = "idle" /\ view'[s] = NoView /\ \A t \in Session \ {s} : Steady(t)
    BY <1>1, Looked DEF Phase
  <1>3. Formed'
    <2>1. SessionOK(s)'
      BY <1>2, SessionDone
    <2>2. guids <= guids'
      BY <1>1 DEF Formed, Tables
    <2> QED
      BY <1>1, <1>2, <2>1, <2>2, FormedAfter
  <1>4. ASSUME ~ Overlap, Safe PROVE Safe'
    <2>1. \A t \in Session : Steady(t) \/ ~ Submitting(t)'
      BY <1>2 DEF Submitting
    <2> QED
      BY <1>1, <1>4, <2>1, SafeAside
  <1> QED
    BY <1>3, <1>4 DEF IInv

LEMMA RecordKeeps ==
  ASSUME IInv, NEW s \in Session, RecordSubmitted(s) \/ RecordSyncError(s)
  PROVE  IInv'
  <1>0. PICK r : r = view[s].request
    OBVIOUS
  <1>1. Formed /\ Tables /\ SessionOK(s)
    BY DEF IInv, Formed
  <1>2. PICK from, status :
          /\ status \in Status /\ Step(s, from, "idle") /\ Look(s, NoView)
          /\ request' = IF Live(view[s].lines) THEN WithStatus(s, r, status) ELSE request
          /\ from = "answered" \/ (from = "refused" /\ status = "SYNC_ERROR")
          /\ UNCHANGED <<today, line, guids, orders>>
    BY <1>0 DEF RecordSubmitted, RecordSyncError, RecordOutcome, Status
  <1>3. pc[s] = from
    BY <1>2 DEF Step
  <1>4. r \in DOMAIN request
    BY <1>0, <1>1, <1>2, <1>3 DEF SessionOK
  <1>5. PICK x \in Status : /\ request' = [request EXCEPT ![r].status = x]
                            /\ x \in {status, request[r].status}
    <2>1. request = [request EXCEPT ![r].status = request[r].status] /\ request[r].status \in Status
      BY <1>1, <1>4, Unchanged DEF Tables
    <2> QED
      BY <1>2, <2>1 DEF WithStatus
  <1>7. /\ request' \in Seq(RequestType) /\ Len(request') = Len(request) /\ DOMAIN request' = DOMAIN request
        /\ \A q \in DOMAIN request : /\ request'[q].guid = request[q].guid
                                     /\ request'[q].status = IF q = r THEN x ELSE request[q].status
    <2>1. request \in Seq(RequestType)
      BY <1>1 DEF Tables
    <2>2. PICK p : p = [request EXCEPT ![r].status = x]
      OBVIOUS
    <2>3. /\ p \in Seq(RequestType) /\ Len(p) = Len(request) /\ DOMAIN p = DOMAIN request
          /\ \A q \in DOMAIN request :
               p[q].guid = request[q].guid /\ p[q].status = IF q = r THEN x ELSE request[q].status
      BY <1>4, <2>1, <2>2, Restatus
    <2> QED
      BY <1>5, <2>2, <2>3
  <1>8. Tables'
    BY <1>1, <1>2, <1>7 DEF Tables
  <1>9. ASSUME Safe, NEW q \in DOMAIN request, request'[q].status = "SUBMITTED"
        PROVE  request[q].status = "SUBMITTED" \/ \E o \in orders : o.guid = request[q].guid
    <2>1. CASE q = r /\ from = "answered"
      BY <1>0, <1>3, <1>9, <2>1 DEF Safe, Current, Ordered, Posts
    <2>2. CASE q # r \/ from # "answered"
      BY <1>2, <1>5, <1>7, <1>9, <2>2
    <2> QED
      BY <2>1, <2>2
  <1> QED
    BY <1>2, <1>7, <1>8, <1>9, DoneKeeps

LEMMA CommitCancelKeeps ==
  ASSUME IInv, NEW s \in Session, CommitCancel(s)
  PROVE  IInv'
  <1>0. PICK r : r = view[s].request
    OBVIOUS
  <1>1. Formed /\ Tables /\ SessionOK(s)
    BY DEF IInv, Formed
  <1>2. r \in DOMAIN request
    BY <1>0, <1>1 DEF SessionOK, CommitCancel, Step
  <1>3. PICK x \in Status : /\ request' = [request EXCEPT ![r].status = x]
                            /\ x = "CANCELLED" \/ x = request[r].status
    <2>1. /\ request = [request EXCEPT ![r].status = request[r].status]
          /\ request[r].status \in Status
      BY <1>1, <1>2, Unchanged DEF Tables
    <2> QED
      BY <1>0, <2>1 DEF CommitCancel, Status
  <1>4. /\ request' \in Seq(RequestType) /\ Len(request') = Len(request) /\ DOMAIN request' = DOMAIN request
        /\ \A q \in DOMAIN request : /\ request'[q].guid = request[q].guid
                                     /\ request'[q].status = IF q = r THEN x ELSE request[q].status
    <2>1. request \in Seq(RequestType)
      BY <1>1 DEF Tables
    <2>2. PICK p : p = [request EXCEPT ![r].status = x]
      OBVIOUS
    <2>3. /\ p \in Seq(RequestType) /\ Len(p) = Len(request) /\ DOMAIN p = DOMAIN request
          /\ \A q \in DOMAIN request :
               p[q].guid = request[q].guid /\ p[q].status = IF q = r THEN x ELSE request[q].status
      BY <1>2, <2>1, <2>2, Restatus
    <2> QED
      BY <1>3, <2>2, <2>3
  <1>5. Tables'
    BY <1>1, <1>4 DEF CommitCancel, Tables
  <1>6. \A q \in DOMAIN request : request'[q].status = "SUBMITTED" => request[q].status = "SUBMITTED"
    BY <1>3, <1>4
  <1> QED
    BY <1>4, <1>5, <1>6, DoneKeeps DEF CommitCancel

LEMMA CommitOverrideKeeps ==
  ASSUME IInv, NEW s \in Session, CommitOverride(s)
  PROVE  IInv'
  <1>1. Tables /\ SessionOK(s)
    BY DEF IInv, Formed
  <1>2. PICK q \in Override, l \in view[s].lines :
          line' = line \/ line' = [line EXCEPT ![l].final = q]
    BY DEF CommitOverride
  <1>3. l \in DOMAIN line /\ q \in Int
    BY <1>1, QuantityAssumption DEF SessionOK
  <1>4. /\ line' \in Seq(LineType) /\ Len(line') = Len(line) /\ DOMAIN line' = DOMAIN line
        /\ \A m \in DOMAIN line : line'[m].request = line[m].request
    <2>1. CASE line' = line
      BY <1>1, <2>1 DEF Tables
    <2>2. CASE line' = [line EXCEPT ![l].final = q]
      <3>1. line \in Seq(LineType)
        BY <1>1 DEF Tables
      <3>2. PICK p : p = [line EXCEPT ![l].final = q]
        OBVIOUS
      <3>3. /\ p \in Seq(LineType) /\ Len(p) = Len(line) /\ DOMAIN p = DOMAIN line
            /\ \A m \in DOMAIN line : p[m].request = line[m].request
        BY <1>3, <3>1, <3>2, Entered
      <3> QED
        BY <2>2, <3>2, <3>3
    <2> QED
      BY <1>2, <2>1, <2>2
  <1>5. Tables'
    BY <1>1, <1>4 DEF CommitOverride, Tables
  <1> QED
    BY <1>4, <1>5, DoneKeeps DEF CommitOverride

-----------------------------------------------------------------------------
\* Generation: the rows loaded are still in the table, and what is inserted
\* comes behind them.
LEMMA NewRequest ==
  ASSUME IInv, NEW s \in Session, CommitGenerate(s), view[s].request = None,
         NEW r, r = Len(request) + 1
  PROVE  /\ request' \in Seq(RequestType) /\ Len(request') <= MaxRequest
         /\ r \in DOMAIN request' /\ r <= MaxRequest
         /\ DOMAIN request \subseteq DOMAIN request'
         /\ \A q \in DOMAIN request : request'[q] = request[q]
         /\ \A q \in DOMAIN request' : q \in DOMAIN request \/ request'[q].status = "DRAFT"
         /\ \A q \in DOMAIN request' : request'[q].guid \in 1 .. guids \union {None}
  <1>1. Tables
    BY DEF IInv, Formed
  <1>2. PICK row : row = [day |-> view[s].day, status |-> "DRAFT", guid |-> None]
    OBVIOUS
  <1>3. row \in RequestType /\ row.status = "DRAFT" /\ row.guid = None
    <2>1. view[s].day \in 1 .. MaxDay
      BY DEF IInv, Formed, SessionOK, CommitGenerate, Step
    <2> QED
      BY <1>2, <2>1 DEF RequestType, Status
  <1>4. request' = Append(request, row) /\ Len(request) < MaxRequest
    BY <1>2 DEF CommitGenerate
  <1>5. PICK p : p = Append(request, row)
    OBVIOUS
  <1>6. request \in Seq(RequestType) /\ \A q \in DOMAIN request : request[q].guid \in 1 .. guids \union {None}
    BY <1>1 DEF Tables
  <1>7. /\ p \in Seq(RequestType) /\ Len(p) = Len(request) + 1 /\ DOMAIN p = 1 .. Len(request) + 1
        /\ DOMAIN request = 1 .. Len(request) /\ Len(request) \in Nat
        /\ \A q \in DOMAIN request : p[q] = request[q]
        /\ p[Len(request) + 1] = row
    BY <1>3, <1>5, <1>6, Appended
  <1>8. request' = p /\ MaxRequest \in Nat
    BY <1>4, <1>5, BoundsAssumption
  <1>9. \A q \in DOMAIN p : q \in DOMAIN request \/ (q = Len(request) + 1 /\ p[q] = row)
    BY <1>7
  <1> QED
    BY <1>3, <1>4, <1>6, <1>7, <1>8, <1>9

LEMMA OldRequest ==
  ASSUME IInv, NEW s \in Session, CommitGenerate(s), NEW r, r = view[s].request, r # None
  PROVE  /\ request' \in Seq(RequestType) /\ Len(request') <= MaxRequest
         /\ r \in DOMAIN request /\ r <= MaxRequest
         /\ DOMAIN request = DOMAIN request'
         /\ \A q \in DOMAIN request : request'[q].guid = request[q].guid
         /\ \A q \in DOMAIN request :
              request'[q].status = "SUBMITTED" => request[q].status = "SUBMITTED"
         /\ \A q \in DOMAIN request' : request'[q].guid \in 1 .. guids \union {None}
  <1>1. Tables /\ SessionOK(s)
    BY DEF IInv, Formed
  <1>2. r \in DOMAIN request
    BY <1>1 DEF SessionOK
  <1>3. /\ request \in Seq(RequestType) /\ Len(request) <= MaxRequest
        /\ \A q \in DOMAIN request : request[q].guid \in 1 .. guids \union {None}
    BY <1>1 DEF Tables
  <1>4. PICK x \in Status : /\ request' = [request EXCEPT ![r].status = x]
                            /\ x = "DRAFT" \/ x = request[r].status
    <2>1. /\ request = [request EXCEPT ![r].status = request[r].status]
          /\ request[r].status \in Status
      BY <1>2, <1>3, Unchanged
    <2>2. request' = WithStatus(s, r, "DRAFT")
      BY DEF CommitGenerate
    <2> QED
      BY <2>1, <2>2 DEF WithStatus, Status
  <1>5. PICK p : p = [request EXCEPT ![r].status = x]
    OBVIOUS
  <1>6. /\ p \in Seq(RequestType) /\ Len(p) = Len(request) /\ DOMAIN p = DOMAIN request
        /\ \A q \in DOMAIN request :
             p[q].guid = request[q].guid /\ p[q].status = IF q = r THEN x ELSE request[q].status
    BY <1>2, <1>3, <1>5, Restatus
  <1>7. request' = p
    BY <1>4, <1>5
  <1>8. r <= MaxRequest
    <2>1. DOMAIN request = 1 .. Len(request) /\ Len(request) \in Nat
      BY <1>3
    <2> QED
      BY <1>2, <1>3, <2>1, BoundsAssumption
  <1> QED
    BY <1>2, <1>3, <1>4, <1>6, <1>7, <1>8

LEMMA NewLines ==
  ASSUME IInv, NEW s \in Session, CommitGenerate(s),
         NEW r, r = IF view[s].request = None THEN Len(request) + 1 ELSE view[s].request,
         r \in 1 .. MaxRequest
  PROVE  /\ line' \in Seq(LineType) /\ Len(line') <= MaxLine
         /\ DOMAIN line \subseteq DOMAIN line'
         /\ \A l \in DOMAIN line' :
              line'[l].request = r \/ (l \in DOMAIN line /\ line'[l].request = line[l].request)
  <1>1. line \in Seq(LineType) /\ Len(line) <= MaxLine /\ Len(line) < MaxLine
    BY DEF IInv, Formed, Tables, CommitGenerate
  <1>2. PICK gone : gone = view[s].lines
    OBVIOUS
  <1>3. PICK kept : kept = [l \in DOMAIN line |-> [line[l] EXCEPT !.live = @ /\ l \notin gone]]
    OBVIOUS
  <1>4. /\ kept \in Seq(LineType) /\ Len(kept) = Len(line) /\ DOMAIN kept = DOMAIN line
        /\ \A l \in DOMAIN line : kept[l].request = line[l].request
    <2>1. \A l \in DOMAIN line : line[l] \in LineType
      BY <1>1
    <2>2. \A l \in DOMAIN line :
            /\ [line[l] EXCEPT !.live = @ /\ l \notin gone] \in LineType
            /\ [line[l] EXCEPT !.live = @ /\ l \notin gone].request = line[l].request
      <3> TAKE l \in DOMAIN line
      <3>1. (line[l].live /\ l \notin gone) \in BOOLEAN
        OBVIOUS
      <3> QED
        BY <2>1, <3>1 DEF LineType
    <2>3. DOMAIN line = 1 .. Len(line) /\ Len(line) \in Nat
      BY <1>1
    <2>4. kept \in [1 .. Len(line) -> LineType]
      BY <1>3, <2>2, <2>3
    <2>5. kept \in Seq(LineType) /\ Len(kept) = Len(line)
      BY <2>3, <2>4
    <2> QED
      BY <1>3, <2>2, <2>5
  <1>5. PICK q \in Suggestion :
          line' = IF q > 0
                  THEN Append(kept, [request |-> r, suggested |-> q, final |-> q, live |-> TRUE])
                  ELSE kept
    BY <1>2, <1>3 DEF CommitGenerate
  <1>6. CASE q > 0
    <2>1. PICK row : row = [request |-> r, suggested |-> q, final |-> q, live |-> TRUE]
      OBVIOUS
    <2>2. row \in LineType /\ row.request = r
      <3>1. q \in Nat /\ q \in Int
        BY <1>5, QuantityAssumption
      <3> QED
        BY <2>1, <3>1 DEF LineType
    <2>3. PICK p : p = Append(kept, row)
      OBVIOUS
    <2>4. /\ p \in Seq(LineType) /\ Len(p) = Len(kept) + 1 /\ DOMAIN p = 1 .. Len(kept) + 1
          /\ DOMAIN kept = 1 .. Len(kept) /\ Len(kept) \in Nat
          /\ \A l \in DOMAIN kept : p[l] = kept[l]
          /\ p[Len(kept) + 1] = row
      BY <1>4, <2>2, <2>3, Appended
    <2>5. line' = p /\ MaxLine \in Nat
      BY <1>5, <1>6, <2>1, <2>3, BoundsAssumption
    <2>6. \A l \in DOMAIN p : p[l] = row \/ (l \in DOMAIN line /\ p[l] = kept[l])
      BY <1>4, <2>4
    <2> QED
      BY <1>1, <1>4, <2>2, <2>4, <2>5, <2>6
  <1>7. CASE ~ (q > 0)
    BY <1>1, <1>4, <1>5, <1>7
  <1> QED
    BY <1>6, <1>7

LEMMA CommitGenerateKeeps ==
  ASSUME IInv, NEW s \in Session, CommitGenerate(s)
  PROVE  IInv'
  <1> PICK r : r = IF view[s].request = None THEN Len(request) + 1 ELSE view[s].request
    OBVIOUS
  <1>1. Formed /\ Shape /\ Tables
    BY DEF IInv, Formed
  <1>2. UNCHANGED <<today, guids, orders>>
    BY DEF CommitGenerate
  <1>3. /\ request' \in Seq(RequestType) /\ Len(request') <= MaxRequest
        /\ r \in DOMAIN request' /\ r <= MaxRequest /\ r \in 1 .. MaxRequest
        /\ DOMAIN request \subseteq DOMAIN request'
        /\ \A q \in DOMAIN request : request'[q].guid = request[q].guid
        /\ \A q \in DOMAIN request' : request'[q].status = "SUBMITTED" =>
             q \in DOMAIN request /\ request[q].status = "SUBMITTED"
        /\ \A q \in DOMAIN request' : request'[q].guid \in 1 .. guids \union {None}
    <2>1. CASE view[s].request = None
      <3>1. r = Len(request) + 1
        BY <2>1
      <3>2. r \in Nat \ {0}
        BY <1>1, <3>1 DEF Tables
      <3> QED
        BY <2>1, <3>1, <3>2, NewRequest, BoundsAssumption
    <2>2. CASE view[s].request # None
      <3>1. r = view[s].request /\ r # None
        BY <2>2
      <3>2. r \in DOMAIN request /\ r <= MaxRequest
        BY <3>1, OldRequest
      <3>3. r \in Nat \ {0}
        BY <1>1, <3>2 DEF Tables
      <3> QED
        BY <3>1, <3>2, <3>3, OldRequest, BoundsAssumption
    <2> QED
      BY <2>1, <2>2
  <1>4. /\ line' \in Seq(LineType) /\ Len(line') <= MaxLine
        /\ DOMAIN line \subseteq DOMAIN line'
        /\ \A l \in DOMAIN line' :
             line'[l].request = r \/ (l \in DOMAIN line /\ line'[l].request = line[l].request)
    BY <1>3, NewLines
  <1>5. Tables'
    BY <1>1, <1>2, <1>3, <1>4 DEF Tables
  <1>6. PICK to, v : /\ to \in {"idle", "generated"} /\ Step(s, "generating", to) /\ Look(s, v)
                     /\ (v = NoView /\ to = "idle") \/ v = [NoView EXCEPT !.request = r]
    BY DEF CommitGenerate
  <1>7. /\ Shape' /\ pc'[s] = to /\ view'[s] = v /\ \A t \in Session \ {s} : Steady(t)
    BY <1>1, <1>6, Looked DEF Phase
  <1>8. SessionOK(s)'
    BY <1>3, <1>6, <1>7 DEF SessionOK, Posts, NoView
  <1>9. Formed'
    <2>1. guids <= guids'
      BY <1>1, <1>2 DEF Tables
    <2>2. \A q \in DOMAIN request : request[q].guid # None => request'[q].guid # None
      BY <1>3
    <2> QED
      BY <1>1, <1>3, <1>4, <1>5, <1>7, <1>8, <2>1, <2>2, FormedAfter
  <1>10. ASSUME Safe PROVE Safe'
    <2>1. \A t \in Session : Steady(t) \/ ~ Submitting(t)'
      BY <1>6, <1>7 DEF Submitting
    <2>2. \A q \in DOMAIN request' : request'[q].status = "SUBMITTED" =>
            /\ q \in DOMAIN request
            /\ request[q].status = "SUBMITTED" \/ \E o \in orders : o.guid = request[q].guid
      BY <1>3
    <2> QED
      BY <1>1, <1>2, <1>3, <1>5, <1>10, <2>1, <2>2, SafeAside
  <1> QED
    BY <1>9, <1>10 DEF IInv

-----------------------------------------------------------------------------
LEMMA BuildFailsKeeps ==
  ASSUME IInv, NEW s \in Session, BuildFails(s)
  PROVE  IInv'
  BY GiveUpKeeps DEF BuildFails

LEMMA BeginSubmitKeeps ==
  ASSUME IInv, NEW s \in Session, BeginSubmit(s)
  PROVE  IInv'
  BY LoadKeeps DEF BeginSubmit

LEMMA SweepKeeps ==
  ASSUME IInv, Sweep \/ SweepSubmit
  PROVE  IInv'
  <1>1. Job \in Session /\ UNCHANGED <<today, database, guids, orders>>
    BY DEF Session, Sweep, SweepSubmit
  <1>2. CASE \E r \in DOMAIN request : LoadForSubmit(Job, r) /\ Step(Job, "idle", "claiming")
    BY <1>1, <1>2, LoadKeeps
  <1>3. CASE LookForDraft(Job) /\ Step(Job, "idle", "generating")
    BY <1>1, <1>3, Found, LookAside
  <1>4. CASE Step(Job, "generated", "claiming") /\ LoadForSubmit(Job, view[Job].request)
    <2>1. view[Job].request \in DOMAIN request
      BY <1>1, <1>4 DEF IInv, Formed, SessionOK, Step
    <2> QED
      BY <1>1, <1>4, <2>1, LoadKeeps
  <1>5. CASE Step(Job, "generated", "idle") /\ Look(Job, NoView)
    BY <1>1, <1>5, GiveUpKeeps
  <1> QED
    BY <1>2, <1>3, <1>4, <1>5 DEF Sweep, SweepSubmit

\* A crash ends every operation; what is committed stays as it is.
LEMMA CrashKeeps ==
  ASSUME IInv, Crash
  PROVE  IInv'
  <1>1. Formed /\ today \in 1 .. MaxDay
    BY DEF IInv, Formed, Tables
  <1>2. /\ Tables' /\ DOMAIN request = DOMAIN request'
        /\ \A r \in DOMAIN request : request'[r] = request[r]
    BY <1>1, TablesStay DEF Crash
  <1>3. \A s \in Session : pc'[s] = "idle" /\ view'[s] = NoView
    BY DEF Crash
  <1>4. Shape'
    BY DEF Shape, Crash, Phase
  <1>5. \A s \in Session : SessionOK(s)'
    BY <1>3, SessionDone
  <1>6. \A s \in Session : ~ Submitting(s)'
    BY <1>3 DEF Submitting
  <1>7. Safe => Safe'
    BY <1>1, <1>2, <1>6, SafeAside DEF Crash
  <1> QED
    BY <1>2, <1>4, <1>5, <1>7 DEF IInv, Formed

\* Time passes, or nothing happens.
LEMMA NextDayKeeps ==
  ASSUME IInv, NextDay \/ UNCHANGED vars
  PROVE  IInv'
  <1>1. UNCHANGED <<database, guids, orders, pc, view>> /\ today' \in 1 .. MaxDay
    BY BoundsAssumption DEF NextDay, vars, database, IInv, Formed, Tables
  <1>2. Tables'
    BY <1>1, TablesStay DEF IInv, Formed
  <1>3. Shape' /\ \A s \in Session : SessionOK(s)'
    BY <1>1 DEF IInv, Formed, Shape, SessionOK, Posts, database
  <1>4. Safe => Safe'
    BY <1>1 DEF Safe, Current, Ordered, Alone, Posts, Submitting, OrdersAreKnown, SubmittedIsOrdered, database
  <1> QED
    BY <1>2, <1>3, <1>4 DEF IInv, Formed

LEMMA NextIInv == IInv /\ [Next]_vars => IInv'
  <1> SUFFICES ASSUME IInv, [Next]_vars PROVE IInv'
    OBVIOUS
  <1>1. ASSUME NEW s \in Session, BeginGenerate(s) PROVE IInv'
    BY <1>1, BeginGenerateKeeps
  <1>2. ASSUME NEW s \in Session, CommitGenerate(s) PROVE IInv'
    BY <1>2, CommitGenerateKeeps
  <1>3. ASSUME NEW s \in Session, BeginOverride(s) PROVE IInv'
    BY <1>3, BeginOverrideKeeps
  <1>4. ASSUME NEW s \in Session, CommitOverride(s) PROVE IInv'
    BY <1>4, CommitOverrideKeeps
  <1>5. ASSUME NEW s \in Session, BeginCancel(s) PROVE IInv'
    BY <1>5, BeginCancelKeeps
  <1>6. ASSUME NEW s \in Session, CommitCancel(s) PROVE IInv'
    BY <1>6, CommitCancelKeeps
  <1>7. ASSUME NEW s \in Session, Submit(s) PROVE IInv'
    BY <1>7, BeginSubmitKeeps, CommitGuidKeeps, BuildPayloadKeeps, BuildFailsKeeps, PostKeeps,
       RecordKeeps DEF Submit
  <1>8. CASE Sweep \/ SweepSubmit
    BY <1>8, SweepKeeps
  <1>9. CASE Crash
    BY <1>9, CrashKeeps
  <1>10. CASE NextDay \/ UNCHANGED vars
    BY <1>10, NextDayKeeps
  <1> QED
    BY <1>1, <1>2, <1>3, <1>4, <1>5, <1>6, <1>7, <1>8, <1>9, <1>10 DEF Next

\* The invariant holds of every state: generation, overrides, cancellation,
\* submission, the sweep and crashes keep it.
THEOREM Invariance == Spec => []IInv
  BY InitIInv, NextIInv, PTL DEF Spec

\* Rows, orders and views stay well-formed (models.py:126-174), whether or not
\* submissions overlap.
THEOREM TypeCorrect == Spec => []TypeOK
  <1>1. IInv => TypeOK
    BY DEF IInv, Formed, Tables, Shape, SessionOK, TypeOK, Phase
  <1> QED
    BY <1>1, Invariance, PTL

\* No order exists under a Guid other than the one stored with its request
\* (submit_to_unleashed), unless two first submissions of it overlap.
THEOREM OrdersKnown == ~ Overlap => (Spec => []OrdersAreKnown)
  <1> SUFFICES ASSUME ~ Overlap PROVE Spec => []OrdersAreKnown
    OBVIOUS
  <1>1. IInv => OrdersAreKnown
    BY DEF IInv, Safe
  <1> QED
    BY <1>1, Invariance, PTL

\* A request called SUBMITTED has its order in Unleashed, with the same proviso
\* (the outcome recorded after the call is that of the stored Guid).
THEOREM SubmittedOrdered == ~ Overlap => (Spec => []SubmittedIsOrdered)
  <1> SUFFICES ASSUME ~ Overlap PROVE Spec => []SubmittedIsOrdered
    OBVIOUS
  <1>1. IInv => SubmittedIsOrdered
    BY DEF IInv, Safe
  <1> QED
    BY <1>1, Invariance, PTL

\* A request has two orders (run SubmissionTwice) only when two first submissions
\* of it overlap: a retry of any kind, after any loss or crash, reuses the Guid
\* that the first one stored (submit_to_unleashed).
THEOREM OneOrder == ~ Overlap => (Spec => []OneOrderPerRequest)
  <1> SUFFICES ASSUME ~ Overlap PROVE Spec => []OneOrderPerRequest
    OBVIOUS
  <1>1. IInv => OneOrderPerRequest
    <2> SUFFICES ASSUME IInv, NEW o \in orders, NEW p \in orders, o.request = p.request
                 PROVE  o.guid = p.guid
      BY DEF OneOrderPerRequest
    <2>1. OrdersAreKnown
      BY DEF IInv, Safe
    <2> QED
      BY <2>1 DEF OrdersAreKnown
  <1> QED
    BY <1>1, Invariance, PTL
=============================================================================
