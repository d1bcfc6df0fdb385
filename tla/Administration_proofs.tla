------------------------ MODULE Administration_proofs ------------------------
(***************************************************************************)
(* That administrators whose requests do not overlap cannot lock           *)
(* themselves out, that history names existing users, and that a name goes *)
(* from the history only in a confirmed deletion, for any users, roles and *)
(* requests.                                                               *)
(***************************************************************************)
EXTENDS Administration, TLAPS

\* A request under way has loaded an existing user's account and is to write
\* another or to delete it.
Operation ==
  [target: User, loaded: Account, form: Account \union {None}, history: BOOLEAN,
   force: BOOLEAN]

\* The types the argument needs.
WellFormed ==
  /\ users \in [User -> Account \union {None}]
  /\ pc \in [Request -> {"idle", "saving", "deleting"}]
  /\ op \in [Request -> Operation \union {None}]
  /\ overlapped \in BOOLEAN
  /\ \A r \in Request : pc[r] # "idle" => op[r] \in Operation
  /\ \A r \in Request : pc[r] = "saving" => op[r].form \in Account
  /\ \A r \in Request : pc[r] = "deleting" => (op[r].history => op[r].force)

\* Without an overlap one request at most is under way ...
OneAtATime ==
  ~ overlapped => \A r, q \in Request : pc[r] # "idle" /\ pc[q] # "idle" => r = q

\* ... so that what it has loaded is what is stored, and the administrator its
\* check has found is still there when it commits.
ChecksHold ==
  ~ overlapped =>
    \A r \in Request :
      LET o == op[r] IN
        /\ pc[r] = "saving" =>
             /\ users[o.target] = o.loaded
             /\ o.loaded.role = ADMIN /\ (o.form.role # ADMIN \/ ~ o.form.active)
                  => OtherAdmin(o.target)
        /\ pc[r] = "deleting" => (IsAdmin(o.target) => OtherAdmin(o.target))

IInv == WellFormed /\ OneAtATime /\ ChecksHold /\ AdminRemains

LEMMA AdminIsRole == ADMIN \in Role
  BY AdministrationAssumption

LEMMA NoneIsNoAccount == None \notin Account
  BY AdministrationAssumption DEF Account

\* The seeded database satisfies the invariant.
LEMMA InitIInv == Init => IInv
  BY DEF Init, IInv, WellFormed, OneAtATime, ChecksHold, AdminRemains, Idle

\* A request begins: if nothing was under way, its check is true of the users
\* as they are.
LEMMA BeginSaveKeeps ==
  ASSUME IInv, NEW r \in Request, NEW u \in User, NEW t \in User, NEW account \in Account,
         BeginSave(r, u, t, account)
  PROVE  IInv'
  <1> DEFINE o == [target |-> t, loaded |-> users[t], form |-> account,
                  history |-> FALSE, force |-> FALSE]
  <1>1. /\ pc[r] = "idle" /\ pc' = [pc EXCEPT ![r] = "saving"] /\ op' = [op EXCEPT ![r] = o]
        /\ overlapped' = (overlapped \/ pc # Idle) /\ users' = users
    BY DEF BeginSave, Begin
  <1>2. o \in Operation
    BY DEF IInv, WellFormed, BeginSave, Operation
  <1>3. WellFormed'
    BY <1>1, <1>2 DEF IInv, WellFormed
  <1>4. OneAtATime'
    BY <1>1 DEF IInv, WellFormed, OneAtATime, Idle
  <1>5. ChecksHold'
    <2> SUFFICES ASSUME ~ overlapped', NEW q \in Request, pc'[q] # "idle"
                 PROVE  /\ q = r
                        /\ users[t] = o.loaded
                        /\ o.loaded.role = ADMIN /\ (o.form.role # ADMIN \/ ~ o.form.active)
                             => OtherAdmin(t)
      BY <1>1 DEF ChecksHold, OtherAdmin, IsAdmin, IInv, WellFormed
    <2>1. q = r
      BY <1>1 DEF IInv, WellFormed, Idle
    <2> QED
      BY <2>1 DEF BeginSave
  <1>6. AdminRemains'
    BY <1>1 DEF IInv, AdminRemains, IsAdmin
  <1> QED
    BY <1>3, <1>4, <1>5, <1>6 DEF IInv

\* The same of a deletion.
LEMMA BeginDeleteKeeps ==
  ASSUME IInv, NEW r \in Request, NEW u \in User, NEW t \in User, NEW force \in BOOLEAN,
         BeginDelete(r, u, t, force)
  PROVE  IInv'
  <1> DEFINE o == [target |-> t, loaded |-> users[t], form |-> None,
                  history |-> t \in named, force |-> force]
  <1>1. /\ pc[r] = "idle" /\ pc' = [pc EXCEPT ![r] = "deleting"] /\ op' = [op EXCEPT ![r] = o]
        /\ overlapped' = (overlapped \/ pc # Idle) /\ users' = users
    BY DEF BeginDelete, Begin
  <1>2. o \in Operation /\ (o.history => o.force)
    BY DEF IInv, WellFormed, BeginDelete, Operation
  <1>3. WellFormed'
    BY <1>1, <1>2 DEF IInv, WellFormed
  <1>4. OneAtATime'
    BY <1>1 DEF IInv, WellFormed, OneAtATime, Idle
  <1>5. ChecksHold'
    <2> SUFFICES ASSUME ~ overlapped', NEW q \in Request, pc'[q] # "idle"
                 PROVE  q = r /\ (IsAdmin(t) => OtherAdmin(t))
      BY <1>1 DEF ChecksHold, OtherAdmin, IsAdmin, IInv, WellFormed
    <2>1. q = r
      BY <1>1 DEF IInv, WellFormed, Idle
    <2> QED
      BY <2>1 DEF BeginDelete
  <1>6. AdminRemains'
    BY <1>1 DEF IInv, AdminRemains, IsAdmin
  <1> QED
    BY <1>3, <1>4, <1>5, <1>6 DEF IInv

\* A request ends: when there is no overlap, nothing is under way any more.
LEMMA EndLeavesNothing ==
  ASSUME IInv, NEW r \in Request, pc[r] # "idle", End(r), users' \in [User -> Account \union {None}],
         AdminRemains'
  PROVE  IInv'
  <1>1. /\ pc' = [pc EXCEPT ![r] = "idle"] /\ op' = [op EXCEPT ![r] = None]
        /\ overlapped' = overlapped
    BY DEF End
  <1>2. WellFormed'
    BY <1>1 DEF IInv, WellFormed
  <1>3. ~ overlapped' => \A q \in Request : pc'[q] = "idle"
    BY <1>1 DEF IInv, WellFormed, OneAtATime
  <1>4. OneAtATime' /\ ChecksHold'
    BY <1>3 DEF OneAtATime, ChecksHold
  <1> QED
    BY <1>2, <1>4 DEF IInv

\* What is committed leaves an administrator: the saved user, the other one
\* that the check has found, or the one there was.
LEMMA CommitSaveKeeps ==
  ASSUME IInv, NEW r \in Request, CommitSave(r)
  PROVE  IInv'
  <1> DEFINE o == op[r]
             t == o.target
             saved == [role |-> Written(o.loaded.role, o.form.role, users[t].role),
                       active |-> Written(o.loaded.active, o.form.active, users[t].active)]
  <1>1. /\ pc[r] = "saving" /\ users[t] # None /\ users' = [users EXCEPT ![t] = saved] /\ End(r)
    BY DEF CommitSave
  <1>2. o \in Operation /\ o.form \in Account /\ t \in User /\ o.loaded \in Account
    BY <1>1 DEF IInv, WellFormed, Operation
  <1>3. users[t] \in Account
    BY <1>1, <1>2 DEF IInv, WellFormed
  <1>4. saved \in Account
    BY <1>2, <1>3 DEF Written, Account
  <1>5. users' \in [User -> Account \union {None}]
    BY <1>1, <1>4 DEF IInv, WellFormed
  <1>6. AdminRemains'
    <2> SUFFICES ASSUME ~ overlapped
                 PROVE  \E v \in User : IsAdmin(v)'
      BY <1>1 DEF AdminRemains, End
    <2>1. /\ users[t] = o.loaded
          /\ o.loaded.role = ADMIN /\ (o.form.role # ADMIN \/ ~ o.form.active) => OtherAdmin(t)
      BY <1>1 DEF IInv, ChecksHold
    <2>2. saved.role = o.form.role /\ saved.active = o.form.active
      BY <1>2, <2>1 DEF Written, Account
    <2>3. users'[t] = saved /\ saved # None
      BY <1>1, <1>2, <1>4, NoneIsNoAccount DEF IInv, WellFormed
    <2>4. \A v \in User \ {t} : users'[v] = users[v]
      BY <1>1 DEF IInv, WellFormed
    <2>5. CASE o.form.role = ADMIN /\ o.form.active
      BY <1>2, <2>2, <2>3, <2>5 DEF IsAdmin
    <2>6. CASE OtherAdmin(t)
      BY <2>4, <2>6 DEF OtherAdmin, IsAdmin
    <2>7. CASE o.loaded.role # ADMIN
      <3>1. PICK v \in User : IsAdmin(v)
        BY DEF IInv, AdminRemains
      <3>2. v # t
        BY <2>1, <2>7, <3>1 DEF IsAdmin
      <3> QED
        BY <2>4, <3>1, <3>2 DEF IsAdmin
    <2> QED
      BY <2>1, <2>5, <2>6, <2>7
  <1> QED
    BY <1>1, <1>5, <1>6, EndLeavesNothing

LEMMA CommitDeleteKeeps ==
  ASSUME IInv, NEW r \in Request, CommitDelete(r)
  PROVE  IInv'
  <1> DEFINE t == op[r].target
  <1>1. pc[r] = "deleting" /\ users' = [users EXCEPT ![t] = None] /\ End(r)
    BY DEF CommitDelete
  <1>2. users' \in [User -> Account \union {None}]
    BY <1>1 DEF IInv, WellFormed
  <1>3. AdminRemains'
    <2> SUFFICES ASSUME ~ overlapped
                 PROVE  \E v \in User : IsAdmin(v)'
      BY <1>1 DEF AdminRemains, End
    <2>1. \A v \in User \ {t} : users'[v] = users[v]
      BY <1>1 DEF IInv, WellFormed
    <2>2. IsAdmin(t) => OtherAdmin(t)
      BY <1>1 DEF IInv, ChecksHold
    <2>3. PICK v \in User : IsAdmin(v)
      BY DEF IInv, AdminRemains
    <2>4. PICK w \in User \ {t} : IsAdmin(w)
      BY <2>2, <2>3 DEF OtherAdmin
    <2> QED
      BY <2>1, <2>4 DEF IsAdmin
  <1> QED
    BY <1>1, <1>2, <1>3, EndLeavesNothing

LEMMA AbortKeeps ==
  ASSUME IInv, NEW r \in Request, Abort(r)
  PROVE  IInv'
  <1>1. pc[r] # "idle" /\ End(r) /\ users' = users /\ overlapped' = overlapped
    BY DEF Abort, End
  <1>2. users' \in [User -> Account \union {None}] /\ AdminRemains'
    BY <1>1 DEF IInv, WellFormed, AdminRemains, IsAdmin
  <1> QED
    BY <1>1, <1>2, EndLeavesNothing

\* A new user is none that a request is about.
LEMMA CreateKeeps ==
  ASSUME IInv, NEW u \in User, NEW t \in User, NEW account \in Account, Create(u, t, account)
  PROVE  IInv'
  <1>1. /\ users[t] = None /\ users' = [users EXCEPT ![t] = account]
        /\ UNCHANGED <<pc, op, overlapped>>
    BY DEF Create, Existing
  <1>2. \A v \in User : users[v] # None => users'[v] = users[v]
    BY <1>1 DEF IInv, WellFormed
  <1>3. \A v \in User : (IsAdmin(v) => IsAdmin(v)') /\ (OtherAdmin(v) => OtherAdmin(v)')
    BY <1>2 DEF IsAdmin, OtherAdmin
  <1>4. WellFormed' /\ OneAtATime' /\ AdminRemains'
    BY <1>1, <1>3 DEF IInv, WellFormed, OneAtATime, AdminRemains
  <1>5. ChecksHold'
    <2> SUFFICES ASSUME ~ overlapped, NEW r \in Request
                 PROVE  LET o == op[r] IN
                   /\ pc[r] = "saving" =>
                        /\ users'[o.target] = o.loaded
                        /\ o.loaded.role = ADMIN /\ (o.form.role # ADMIN \/ ~ o.form.active)
                             => OtherAdmin(o.target)'
                   /\ pc[r] = "deleting" => (IsAdmin(o.target)' => OtherAdmin(o.target)')
      BY <1>1 DEF ChecksHold
    <2>1. CASE pc[r] = "saving"
      <3>1. op[r].target \in User /\ op[r].loaded \in Account
        BY <2>1 DEF IInv, WellFormed, Operation
      <3>2. users[op[r].target] = op[r].loaded
        BY <2>1 DEF IInv, ChecksHold
      <3>3. users'[op[r].target] = op[r].loaded
        BY <1>2, <3>1, <3>2, NoneIsNoAccount
      <3>4. op[r].loaded.role = ADMIN /\ (op[r].form.role # ADMIN \/ ~ op[r].form.active)
              => OtherAdmin(op[r].target)'
        BY <1>1, <1>3, <2>1, <3>1 DEF IInv, ChecksHold, OtherAdmin, IsAdmin
      <3> QED
        BY <2>1, <3>3, <3>4
    <2>2. CASE pc[r] = "deleting"
      <3>1. op[r].target \in User
        BY <2>2 DEF IInv, WellFormed, Operation
      <3>2. CASE OtherAdmin(op[r].target)
        BY <1>1, <1>3, <2>2, <3>1, <3>2 DEF OtherAdmin, IsAdmin
      <3>3. CASE ~ OtherAdmin(op[r].target)
        <4>1. ~ IsAdmin(op[r].target)
          BY <2>2, <3>3 DEF IInv, ChecksHold
        <4>2. PICK v \in User : IsAdmin(v)
          BY DEF IInv, AdminRemains
        <4>3. OtherAdmin(op[r].target)
          BY <4>1, <4>2 DEF OtherAdmin
        <4> QED
          BY <3>3, <4>3
      <3> QED
        BY <3>2, <3>3
    <2> QED
      BY <2>1, <2>2 DEF IInv, WellFormed
  <1> QED
    BY <1>4, <1>5 DEF IInv

\* Nothing that the invariant is about changes.
LEMMA RestKeeps ==
  ASSUME IInv, UNCHANGED <<users, pc, op, overlapped>>
  PROVE  IInv'
  BY DEF IInv, WellFormed, OneAtATime, ChecksHold, AdminRemains, OtherAdmin, IsAdmin

\* The inductive invariant holds in every behaviour.
THEOREM Invariance == Spec => []IInv
  <1>1. Init => IInv
    BY InitIInv
  <1>2. IInv /\ [Next]_vars => IInv'
    <2> SUFFICES ASSUME IInv, [Next]_vars
                 PROVE  IInv'
      OBVIOUS
    <2>1. CASE \E r \in Request, u, t \in User, account \in Account : BeginSave(r, u, t, account)
      BY <2>1, BeginSaveKeeps
    <2>2. CASE \E r \in Request, u, t \in User, force \in BOOLEAN : BeginDelete(r, u, t, force)
      BY <2>2, BeginDeleteKeeps
    <2>3. CASE \E r \in Request : CommitSave(r) \/ CommitDelete(r) \/ Abort(r)
      BY <2>3, CommitSaveKeeps, CommitDeleteKeeps, AbortKeeps
    <2>4. CASE \E u, t \in User, account \in Account : Create(u, t, account)
      BY <2>4, CreateKeeps
    <2>5. CASE (\E u \in User : Record(u)) \/ UNCHANGED vars
      BY <2>5, RestKeeps DEF Record, vars
    <2> QED
      BY <2>1, <2>2, <2>3, <2>4, <2>5 DEF Next
  <1> QED
    BY <1>1, <1>2, PTL DEF Spec

\* However many users, roles and requests there are, and whatever else is
\* saved, created or recorded: administrators whose requests do not overlap
\* keep an administrator (users_save, users_delete).
THEOREM AdministratorRemains == Spec => []AdminRemains
  <1>1. IInv => AdminRemains
    BY DEF IInv
  <1> QED
    BY <1>1, Invariance, PTL

-----------------------------------------------------------------------------
\* A deleted user is one that no row names.
NamesExist == deleted \subseteq User /\ named \subseteq Existing

LEMMA NextNamesExist ==
  ASSUME IInv, NamesExist, [Next]_vars
  PROVE  NamesExist'
  <1>1. CASE \E r \in Request, u, t \in User, account \in Account : BeginSave(r, u, t, account)
    BY <1>1 DEF BeginSave, Begin, NamesExist, Existing
  <1>2. CASE \E r \in Request, u, t \in User, force \in BOOLEAN : BeginDelete(r, u, t, force)
    BY <1>2 DEF BeginDelete, Begin, NamesExist, Existing
  <1>3. ASSUME NEW r \in Request, CommitSave(r) PROVE NamesExist'
    <2> DEFINE o == op[r]
               saved == [role |-> Written(o.loaded.role, o.form.role, users[o.target].role),
                         active |-> Written(o.loaded.active, o.form.active, users[o.target].active)]
    <2>1. /\ pc[r] = "saving" /\ users[o.target] # None /\ users' = [users EXCEPT ![o.target] = saved]
          /\ UNCHANGED <<deleted, named>>
      BY <1>3 DEF CommitSave
    <2>2. o \in Operation /\ o.form \in Account /\ o.loaded \in Account /\ o.target \in User
      BY <2>1 DEF IInv, WellFormed, Operation
    <2>3. saved \in Account
      BY <2>1, <2>2 DEF IInv, WellFormed, Written, Account
    <2>4. saved # None
      BY <2>3, NoneIsNoAccount
    <2> HIDE DEF saved
    <2> QED
      BY <2>1, <2>4 DEF NamesExist, Existing, IInv, WellFormed
  <1>4. ASSUME NEW r \in Request, CommitDelete(r) PROVE NamesExist'
    <2>1. /\ pc[r] = "deleting" /\ op[r].target \notin Forget(r)
          /\ users' = [users EXCEPT ![op[r].target] = None]
          /\ deleted' = deleted \union {op[r].target} /\ named' = Forget(r)
      BY <1>4 DEF CommitDelete
    <2>2. op[r].target \in User
      BY <2>1 DEF IInv, WellFormed, Operation
    <2>3. Forget(r) \subseteq Existing \ {op[r].target}
      BY <2>1 DEF Forget, NamesExist
    <2> QED
      BY <2>1, <2>2, <2>3 DEF NamesExist, Existing, IInv, WellFormed
  <1>5. CASE \E r \in Request : Abort(r)
    BY <1>5 DEF Abort, NamesExist, Existing
  <1>6. ASSUME NEW u \in User, NEW t \in User, NEW account \in Account, Create(u, t, account)
        PROVE  NamesExist'
    <2>1. /\ users' = [users EXCEPT ![t] = account] /\ account # None
          /\ UNCHANGED <<deleted, named>>
      BY <1>6, NoneIsNoAccount DEF Create
    <2> QED
      BY <2>1 DEF NamesExist, Existing, IInv, WellFormed
  <1>7. CASE \E u \in User : Record(u)
    BY <1>7 DEF Record, NamesExist, Existing
  <1>8. CASE UNCHANGED vars
    BY <1>8 DEF vars, NamesExist, Existing
  <1> QED
    BY <1>1, <1>2, <1>3, <1>4, <1>5, <1>6, <1>7, <1>8 DEF Next

\* Accounts and requests stay well-formed, and whoever history names exists:
\* the foreign keys of employee_id and submitted_by keep such a user from being
\* deleted, whatever is recorded after the deletion looked (users_delete).
THEOREM TypeCorrect == Spec => []TypeOK
  <1>1. Init => NamesExist
    BY DEF Init, NamesExist
  <1>2. IInv /\ NamesExist /\ [Next]_vars => NamesExist'
    BY NextNamesExist
  <1>3. IInv /\ NamesExist => TypeOK
    BY DEF IInv, WellFormed, NamesExist, TypeOK
  <1> QED
    BY <1>1, <1>2, <1>3, Invariance, PTL DEF Spec

\* Only the commit of a deletion takes a name from the history: the target's,
\* when the deletion has found some, and then it was confirmed.
LEMMA NextForgetsConfirmed == IInv /\ [Next]_vars => \A u \in named \ named' : GoesConfirmed(u)
  <1> SUFFICES ASSUME IInv, [Next]_vars, NEW u \in named \ named'
               PROVE  GoesConfirmed(u)
    OBVIOUS
  <1>1. PICK r \in Request : CommitDelete(r)
    BY DEF Next, BeginSave, BeginDelete, Begin, CommitSave, Abort, Create, Record, vars
  <1>2. pc[r] = "deleting" /\ End(r) /\ named' = Forget(r)
    BY <1>1 DEF CommitDelete
  <1>3. op[r].history /\ op[r].target = u
    BY <1>2 DEF Forget
  <1>4. op[r].force /\ pc'[r] = "idle"
    BY <1>1, <1>2, <1>3 DEF IInv, WellFormed, End
  <1> QED
    BY <1>1, <1>2, <1>3, <1>4 DEF GoesConfirmed

\* Whatever is recorded between the look of a deletion and its commit, a name
\* goes from the history only in a deletion of that user which found the
\* history and was confirmed (users_delete).
THEOREM NamesGoConfirmed == Spec => HistoryForgottenConfirmed
  BY Invariance, NextForgetsConfirmed, PTL DEF Spec, HistoryForgottenConfirmed
=============================================================================
