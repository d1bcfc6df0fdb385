---------------------------- MODULE Administration ----------------------------
(***************************************************************************)
(* The users and the administrators who save and delete them               *)
(* (routers/admin.py, users_save and users_delete behind                   *)
(* require_roles(Role.ADMIN)).  Both check that another active             *)
(* administrator exists and commit afterwards, in sessions of their own:   *)
(* op[r] is what request r has loaded and is about to write.               *)
(*                                                                         *)
(* A user is its id, which is not used again (Postgres).                   *)
(***************************************************************************)
EXTENDS Naturals

CONSTANTS
  User,
  Role,
  Request,    \* administrators' requests under way
  None

ADMIN == "ADMIN"

ASSUME AdministrationAssumption ==
  /\ ADMIN \in Role
  /\ None \notin [role: Role, active: BOOLEAN]

Account == [role: Role, active: BOOLEAN]

VARIABLES
  users,      \* the account of each user, None if there is none
  deleted,    \* ids of deleted users
  named,      \* users named by ledger rows or requests
  pc,         \* how far a request is
  op,         \* what it has loaded and is to write
  overlapped  \* two requests have been under way together

vars == <<users, deleted, named, pc, op, overlapped>>

Idle == [r \in Request |-> "idle"]

Existing == {u \in User : users[u] # None}

IsAdmin(u) == users[u] # None /\ users[u].role = ADMIN /\ users[u].active

\* Variant: an administrator who was deactivated counts.
OtherAdminInactive(u) == \E v \in Existing \ {u} : users[v].role = ADMIN

\* other_admins of users_save and users_delete.
OtherAdmin(u) == \E v \in User \ {u} : IsAdmin(v)

-----------------------------------------------------------------------------
\* require_roles lets u, an active administrator, in, and the target is
\* loaded.
Begin(r, u, step, o) ==
  /\ pc[r] = "idle"
  /\ IsAdmin(u)
  /\ pc' = [pc EXCEPT ![r] = step]
  /\ op' = [op EXCEPT ![r] = o]
  /\ overlapped' = (overlapped \/ pc # Idle)
  /\ UNCHANGED <<users, deleted, named>>

End(r) ==
  /\ pc' = [pc EXCEPT ![r] = "idle"]
  /\ op' = [op EXCEPT ![r] = None]
  /\ UNCHANGED overlapped

\* users_save of user t: the last active administrator is neither demoted nor
\* deactivated.
BeginSave(r, u, t, account) ==
  /\ users[t] # None
  /\ users[t].role = ADMIN /\ (account.role # ADMIN \/ ~ account.active) => OtherAdmin(t)
  /\ Begin(r, u, "saving", [target |-> t, loaded |-> users[t], form |-> account,
                        history |-> FALSE, force |-> FALSE])

\* The form's fields are assigned to the loaded user; a column whose value they
\* do not change is no part of the UPDATE.
Written(loaded, asked, current) == IF asked # loaded THEN asked ELSE current

\* The commit updates the user, if there still is one ...
CommitSave(r) ==
  LET o == op[r]
      now == users[o.target]
  IN /\ pc[r] = "saving"
     /\ now # None
     /\ users' = [users EXCEPT ![o.target] =
          [role |-> Written(o.loaded.role, o.form.role, now.role),
           active |-> Written(o.loaded.active, o.form.active, now.active)]]
     /\ End(r)
     /\ UNCHANGED <<deleted, named>>

\* ... or finds the user deleted meanwhile (StaleDataError); a request also
\* dies before its commit.
Abort(r) ==
  /\ pc[r] # "idle"
  /\ End(r)
  /\ UNCHANGED <<users, deleted, named>>

\* users_save without an id.
Create(u, t, account) ==
  /\ IsAdmin(u)
  /\ t \notin Existing \union deleted
  /\ users' = [users EXCEPT ![t] = account]
  /\ UNCHANGED <<deleted, named, pc, op, overlapped>>

-----------------------------------------------------------------------------
\* Variant: one's own account, too.
BeginDeleteAnybody(r, u, t, force) ==
  /\ users[t] # None
  /\ t \in named => force
  /\ Begin(r, u, "deleting",
           [target |-> t, loaded |-> users[t], form |-> None,
            history |-> t \in named, force |-> force])

\* users_delete: not one's own account, not the last active administrator, and
\* one that history names only after a confirmation.
BeginDelete(r, u, t, force) ==
  /\ users[t] # None
  /\ t # u
  /\ IsAdmin(t) => OtherAdmin(t)
  /\ t \in named => force
  /\ Begin(r, u, "deleting",
           [target |-> t, loaded |-> users[t], form |-> None,
            history |-> t \in named, force |-> force])

\* Variant: the name is removed whether history was found or not.
ForgetAlways(r) == named \ {op[r].target}

\* The name is removed from the history that was found.
Forget(r) == IF op[r].history THEN named \ {op[r].target} ELSE named

\* Variant: employee_id and submitted_by are no foreign keys.
CommitDeleteUnchecked(r) ==
  LET t == op[r].target
  IN /\ pc[r] = "deleting"
     /\ users' = [users EXCEPT ![t] = None]
     /\ deleted' = deleted \union {t}
     /\ named' = Forget(r)
     /\ End(r)

\* The user is deleted, unless a row names it (the foreign keys of employee_id
\* and submitted_by).
CommitDelete(r) ==
  LET t == op[r].target
  IN /\ pc[r] = "deleting"
     /\ t \notin Forget(r)
     /\ users' = [users EXCEPT ![t] = None]
     /\ deleted' = deleted \union {t}
     /\ named' = Forget(r)
     /\ End(r)

\* A submission or a removal records who did it.
Record(u) ==
  /\ users[u] # None /\ users[u].active
  /\ named' = named \union {u}
  /\ UNCHANGED <<users, deleted, pc, op, overlapped>>

-----------------------------------------------------------------------------
\* An administrator has been seeded; others may have been set up.
Init ==
  /\ users \in [User -> Account \union {None}]
  /\ \E u \in User : IsAdmin(u)
  /\ deleted = {}
  /\ named = {}
  /\ pc = Idle
  /\ op = [r \in Request |-> None]
  /\ overlapped = FALSE

Next ==
  \/ \E r \in Request, u, t \in User, account \in Account : BeginSave(r, u, t, account)
  \/ \E r \in Request, u, t \in User, force \in BOOLEAN : BeginDelete(r, u, t, force)
  \/ \E r \in Request : CommitSave(r) \/ CommitDelete(r) \/ Abort(r)
  \/ \E u, t \in User, account \in Account : Create(u, t, account)
  \/ \E u \in User : Record(u)

Spec == Init /\ [][Next]_vars
-----------------------------------------------------------------------------
\* The module's type invariant; whoever history names exists.
TypeOK ==
  /\ users \in [User -> Account \union {None}]
  /\ deleted \subseteq User
  /\ named \subseteq Existing
  /\ pc \in [Request -> {"idle", "saving", "deleting"}]
  /\ overlapped \in BOOLEAN

\* admin.py:500, "Guard against locking yourself out by demoting/deactivating
\* the last admin": as long as no two requests that change users have been
\* under way together, there is an active administrator.  The checks read what
\* the commits may no longer find, so overlapping requests can remove both of
\* two administrators.
AdminRemains == ~ overlapped => \E u \in User : IsAdmin(u)

\* admin.py:550-560: a name goes from the history only in a deletion of that
\* very user which found the history and was confirmed.  A user who had none
\* when an unconfirmed deletion looked, and whose submission or removal is
\* recorded before the deletion commits, keeps the name (and the account).
GoesConfirmed(u) ==
  \E r \in Request :
    /\ pc[r] = "deleting" /\ pc'[r] = "idle"
    /\ op[r].target = u /\ op[r].history /\ op[r].force

HistoryForgottenConfirmed == [][\A u \in named \ named' : GoesConfirmed(u)]_vars
=============================================================================
