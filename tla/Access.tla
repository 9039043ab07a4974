------------------------------- MODULE Access -------------------------------
(***************************************************************************)
(* Users, what they may see and control, and what they did: the user forms *)
(* and the assignment form (app/admin/routes.py), stars and controls       *)
(* (app/slicers/routes.py, app/slicers/service.py), and the first admin    *)
(* (app/bootstrap.py).  Requests run as in Accounts.                       *)
(*                                                                         *)
(* Passwords, sessions and a user's is_active gate signing in, which is    *)
(* not modelled; whoever acts has a row of users.                          *)
(***************************************************************************)
EXTENDS Accounts

-----------------------------------------------------------------------------
(* A worker starts: it makes the bootstrap admin if there are no users.    *)

BootCount(w) ==
    /\ req[w].at = "boot"
    /\ req' = [req EXCEPT ![w] = IF Users = {} THEN [at |-> "bootadd"] ELSE Idle]
    /\ UNCHANGED tables

EmailFree(p, except) == ~\E u \in Users \ except : user[u].person = p

\* Mutant: the bootstrap user is a user like any other.
BootRowPlain == [person |-> Boot, admin |-> FALSE]

BootRow == [person |-> Boot, admin |-> TRUE]

\* If another worker was first the address is taken, and that is all right.
BootAdd(w) ==
    /\ req[w].at = "bootadd"
    /\ IF EmailFree(Boot, {}) THEN \E n \in NewId(user, Id) : user' = Insert(user, n, BootRow)
       ELSE UNCHANGED user
    /\ req' = [req EXCEPT ![w] = Idle]
    /\ UNCHANGED <<account, slicer, assigned, star, audit, log>>

-----------------------------------------------------------------------------
(* Users.                                                                  *)

BeginNewUser(w) ==
    /\ req[w] = Idle
    /\ \E actor \in Users, p \in Person, admin \in BOOLEAN :
         /\ EmailFree(p, {})
         /\ BeginAdmin(w, Change("new_user", actor, Null, [person |-> p, admin |-> admin]))

NewUser(w) ==
    /\ At(w, "new_user", "commit")
    /\ EmailFree(req[w].value.person, {})
    /\ \E n \in NewId(user, Id) : user' = Insert(user, n, req[w].value)
    /\ Over(w)
    /\ UNCHANGED <<account, slicer, assigned, star, audit, log>>

\* Mutant: anybody's admin flag can be taken.
MayTakeAnyone(actor, u, admin) == TRUE

\* Nobody takes their own admin flag.
MaySetAdmin(actor, u, admin) == u = actor => admin

\* value: what the row had and is to have.
BeginEditUser(w) ==
    /\ req[w] = Idle
    /\ \E actor, u \in Users, p \in Person, admin \in BOOLEAN :
         /\ EmailFree(p, {u})
         /\ MaySetAdmin(actor, u, admin)
         /\ BeginAdmin(w, Change("edit_user", actor, u,
              [from |-> user[u], to |-> [person |-> p, admin |-> admin]]))

\* The row with the columns that the form changed, which are all the ORM writes.
Edited(row, from, to) ==
    [person |-> IF to.person # from.person THEN to.person ELSE row.person,
     admin  |-> IF to.admin # from.admin THEN to.admin ELSE row.admin]

EditUser(w) ==
    /\ At(w, "edit_user", "commit")
    /\ req[w].id \in Users
    /\ LET u == req[w].id
           row == Edited(user[u], req[w].value.from, req[w].value.to)
       IN  /\ EmailFree(row.person, {u})
           /\ user' = [user EXCEPT ![u] = row]
    /\ Over(w)
    /\ UNCHANGED <<account, slicer, assigned, star, audit, log>>

\* Nobody deletes themself.
BeginDeleteUser(w) ==
    /\ req[w] = Idle
    /\ \E actor, u \in Users :
         /\ u # actor
         /\ BeginAdmin(w, Change("delete_user", actor, u, Null))

DeleteUserCommit(w) ==
    /\ At(w, "delete_user", "commit")
    /\ DeleteUser(req[w].id)
    /\ Over(w)
    /\ UNCHANGED <<account, slicer, star, log>>

-----------------------------------------------------------------------------
(* Assignments.  The form offers the active slicers of unpaused accounts,  *)
(* and a save replaces the user's whole list.                              *)

\* unpaused: the accounts of what is offered, which the session has now read.
BeginAssign(w) ==
    /\ req[w] = Idle
    /\ \E actor, u \in Users, ticked \in SUBSET Listed :
         BeginAdmin(w, [at |-> "offered", kind |-> "assign", actor |-> actor,
                        id |-> u, ticked |-> ticked,
                        unpaused |-> {slicer[s].account : s \in Listed}])

\* Mutant: the list is what was ticked.
KeptNone(r) == {}

\* Slicers of paused accounts are not on the form, and stay assigned.
Kept(r) ==
    {s \in AssignedTo(r.id) \cap Slicers :
       account[slicer[s].account].paused /\ slicer[s].account \notin r.unpaused}

\* The user's slicers are only read now.
AssignLoad(w) ==
    /\ At(w, "assign", "offered")
    /\ \A s \in AssignedTo(req[w].id) \cap Slicers : slicer[s].account \in Accounts
    /\ LET was == AssignedTo(req[w].id) \cap Slicers
           list == req[w].ticked \cup Kept(req[w])
       IN  req' = [req EXCEPT ![w] =
             [at |-> "commit", kind |-> "assign", actor |-> @.actor, id |-> @.id,
              drop |-> was \ list, add |-> list \ was]]
    /\ UNCHANGED tables

\* Only the differences are written; one that is made already fails the commit.
Assign(w) ==
    /\ At(w, "assign", "commit")
    /\ LET pairs(ids) == {[user |-> req[w].id, slicer |-> s] : s \in ids}
           drop == pairs(req[w].drop)
           add == pairs(req[w].add)
       IN  /\ drop \subseteq assigned
           /\ add \cap assigned = {}
           /\ assigned' = (assigned \ drop) \cup add
    /\ Over(w)
    /\ UNCHANGED <<account, slicer, user, star, audit, log>>

-----------------------------------------------------------------------------
(* What users do with a slicer.                                            *)

\* value: whether there is a star already.
BeginStar(w) ==
    /\ req[w] = Idle
    /\ \E u \in Users, s \in Slicers :
         /\ CanControl(u, s)
         /\ Begin(w, Change("star", u, s, [user |-> u, slicer |-> s] \in star))

\* A star that is there by now fails the commit; one that is gone does not.
ToggleStar(w) ==
    /\ At(w, "star", "commit")
    /\ LET its == [user |-> req[w].actor, slicer |-> req[w].id]
       IN  \/ req[w].value /\ star' = star \ {its}
           \/ ~req[w].value /\ its \notin star /\ star' = Keep(star, its)
    /\ req' = [req EXCEPT ![w] = Idle]
    /\ UNCHANGED <<account, slicer, user, assigned, audit, log>>

\* The call is made, or its dry run, or something fails before it; whatever
\* comes of it is recorded, once it is over.  value: a Start that Uplynk accepts.
BeginControl(w) ==
    /\ req[w] = Idle
    /\ \E u \in Users, s \in Slicers, started \in BOOLEAN :
         /\ CanControl(u, s)
         /\ Begin(w, Change("control", u, s, started))

\* Such a Start also marks the slicer's row, which has to be there.
RecordControl(w) ==
    /\ At(w, "control", "commit")
    /\ req[w].value => req[w].id \in Slicers
    /\ audit' = Keep(audit, [user |-> req[w].actor, slicer |-> req[w].id])
    /\ req' = [req EXCEPT ![w] = Idle]
    /\ UNCHANGED <<account, slicer, user, assigned, star, log>>

AccessStep(w) ==
    \/ BootCount(w) \/ BootAdd(w)
    \/ BeginNewUser(w) \/ NewUser(w) \/ BeginEditUser(w) \/ EditUser(w)
    \/ BeginDeleteUser(w) \/ DeleteUserCommit(w)
    \/ BeginAssign(w) \/ AssignLoad(w) \/ Assign(w)
    \/ BeginStar(w) \/ ToggleStar(w) \/ BeginControl(w) \/ RecordControl(w)
=============================================================================
