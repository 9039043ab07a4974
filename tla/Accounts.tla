------------------------------ MODULE Accounts ------------------------------
(***************************************************************************)
(* The requests that manage Uplynk accounts and their slicers: the account *)
(* and slicer forms, Pause and Resume (app/admin/routes.py) and Sync       *)
(* (app/uplynk/sync.py).                                                   *)
(*                                                                         *)
(* A request reads and decides in the step that begins it, and writes in a *)
(* commit of its own; others can step in between.  Its admin event is a    *)
(* second commit.  Sync also waits for the listing, and reads the rows     *)
(* only once it has it.  A commit that breaks a unique key, or updates a   *)
(* row that is gone, fails as a whole: it is not enabled, and Abandon is   *)
(* what is left to the request.                                            *)
(***************************************************************************)
EXTENDS Tables

CONSTANTS Worker, Kind

VARIABLE req            \* what each worker is doing

Idle == [at |-> "idle"]

IsAdmin(u) == u \in Users /\ user[u].admin

\* An idle worker takes a request: the session has read what it needs, and the
\* request goes on as r.
Begin(w, r) ==
    /\ r.kind \in Kind
    /\ req' = [req EXCEPT ![w] = r]
    /\ UNCHANGED tables

\* The routes of this module are for admins.
BeginAdmin(w, r) == IsAdmin(r.actor) /\ Begin(w, r)

At(w, kind, at) == req[w].at = at /\ req[w].kind = kind

\* What the request is for is over, and the admin event is still to be written.
Logging(actor) == [at |-> "log", actor |-> actor]

Over(w) == req' = [req EXCEPT ![w] = Logging(@.actor)]

Log(w) ==
    /\ req[w].at = "log"
    /\ req[w].actor \in Users
    /\ log' = Keep(log, [actor |-> req[w].actor])
    /\ req' = [req EXCEPT ![w] = Idle]
    /\ UNCHANGED <<account, slicer, user, assigned, star, audit>>

\* A worker that has just been started.
Booting == [at |-> "boot"]

\* The request raised an error, its commit failed or a row it goes on with is
\* gone; or gunicorn killed the worker, and has started another in its place.
Abandon(w) ==
    /\ req[w].at \notin {"idle", "boot", "bootadd"}
    /\ \E after \in {Idle, Booting} : req' = [req EXCEPT ![w] = after]
    /\ UNCHANGED tables

\* An admin's request that only needs its target and a value until its commit.
Change(kind, actor, id, value) ==
    [at |-> "commit", kind |-> kind, actor |-> actor, id |-> id, value |-> value]

-----------------------------------------------------------------------------
(* Accounts.  Labels and keys are left out, but for whether there is a     *)
(* scoped key; a label that is taken fails the commit.                     *)

BeginNewAccount(w) ==
    /\ req[w] = Idle
    /\ \E actor \in Users, keyed \in BOOLEAN :
         BeginAdmin(w, Change("new_account", actor, Null, keyed))

NewAccount(w) ==
    /\ At(w, "new_account", "commit")
    /\ \E n \in NewId(account, AccountId) :
         account' = Insert(account, n, [keyed |-> req[w].value, paused |-> FALSE])
    /\ Over(w)
    /\ UNCHANGED <<slicer, user, assigned, star, audit, log>>

\* An uploaded .env file gives the account a scoped key; nothing takes it away.
BeginEditAccount(w) ==
    /\ req[w] = Idle
    /\ \E actor \in Users, a \in Accounts :
         BeginAdmin(w, Change("edit_account", actor, a, account[a].keyed))

EditAccount(w) ==
    /\ At(w, "edit_account", "commit")
    /\ req[w].id \in Accounts
    /\ \E keyed \in {req[w].value, TRUE} :
         account' = IF keyed = req[w].value THEN account
                    ELSE [account EXCEPT ![req[w].id].keyed = keyed]
    /\ Over(w)
    /\ UNCHANGED <<slicer, user, assigned, star, audit, log>>

\* The account's slicers, as they are when the delete is asked for, go with it.
BeginDeleteAccount(w) ==
    /\ req[w] = Idle
    /\ \E actor \in Users, a \in Accounts :
         BeginAdmin(w, Change("delete_account", actor, a, SlicersOf(a)))

DeleteAccount(w) ==
    /\ At(w, "delete_account", "commit")
    /\ account' = Without(account, {req[w].id})
    /\ DeleteSlicers(req[w].value)
    /\ Over(w)
    /\ UNCHANGED <<user, star, log>>

\* value: whether there is anything to change.
BeginPause(w) ==
    /\ req[w] = Idle
    /\ \E actor \in Users, a \in Accounts, kind \in {"pause", "resume"} :
         BeginAdmin(w, Change(kind, actor, a, account[a].paused # (kind = "pause")))

Pause(w) ==
    /\ At(w, "pause", "commit") \/ At(w, "resume", "commit")
    /\ req[w].id \in Accounts
    /\ account' = IF req[w].value
                  THEN [account EXCEPT ![req[w].id].paused = (req[w].kind = "pause")]
                  ELSE account
    /\ Over(w)
    /\ UNCHANGED <<slicer, user, assigned, star, audit, log>>

-----------------------------------------------------------------------------
(* Sync.                                                                   *)

\* Mutant: a paused account is synced like any other.
CanSyncPaused(a) == account[a].keyed

CanSync(a) == ~account[a].paused /\ account[a].keyed

\* A refusal is logged like a failure.
BeginSync(w) ==
    /\ req[w] = Idle
    /\ \E actor \in Users, a \in Accounts :
         \/ /\ CanSync(a)
            /\ BeginAdmin(w, [at |-> "list", kind |-> "sync", actor |-> actor, id |-> a])
         \/ /\ ~CanSync(a) /\ "sync" \in Kind
            /\ IsAdmin(actor)
            /\ req' = [req EXCEPT ![w] = Logging(actor)]
            /\ UNCHANGED tables

\* Whatever Uplynk lists, which can be short of a slicer, or no listing.
SyncListed(w) ==
    /\ At(w, "sync", "list")
    /\ \/ \E names \in SUBSET Name :
            req' = [req EXCEPT ![w] = [at |-> "listed", kind |-> "sync", actor |-> @.actor,
                                       id |-> @.id, names |-> names]]
       \/ Over(w)
    /\ UNCHANGED tables

\* Mutant: rows added by hand are hidden like the others.
ToHideAll(a, names) == {s \in SlicersOf(a) : slicer[s].name \notin names /\ slicer[s].active}

\* Rows seen previously and missing from the listing, unless added by hand.
ToHide(a, names) ==
    {s \in SlicersOf(a) : slicer[s].name \notin names /\ slicer[s].active /\ ~slicer[s].manual}

\* Mutant: a listed slicer keeps its row as it is.
ToShowNone(a, names) == {}

ToShow(a, names) == {s \in SlicersOf(a) : slicer[s].name \in names /\ ~slicer[s].active}

\* The rows are read, and compared with the listing.
SyncRead(w) ==
    /\ At(w, "sync", "listed")
    /\ LET r == req[w]
           found == {s \in SlicersOf(r.id) : slicer[s].name \in r.names}
       IN  req' = [req EXCEPT ![w] =
             [at |-> "commit", kind |-> "sync", actor |-> r.actor, id |-> r.id, names |-> r.names,
              create |-> r.names \ {slicer[s].name : s \in found},
              refresh |-> found,
              show |-> ToShow(r.id, r.names), hide |-> ToHide(r.id, r.names)]]
    /\ UNCHANGED tables

\* One commit stamps the account and writes every row, or nothing.
SyncedRowsThere(r) == r.id \in Accounts /\ r.refresh \cup r.hide \subseteq Slicers

NewRows(r) ==
    {[account |-> r.id, name |-> n, active |-> TRUE, manual |-> FALSE] : n \in r.create}

SyncCommit(w) ==
    /\ At(w, "sync", "commit")
    /\ SyncedRowsThere(req[w])
    /\ \A n \in req[w].create : KeyFree(req[w].id, n, {})
    /\ LET updated == [s \in Slicers |->
             IF s \in req[w].show THEN [slicer[s] EXCEPT !.active = TRUE]
             ELSE IF s \in req[w].hide THEN [slicer[s] EXCEPT !.active = FALSE]
             ELSE slicer[s]]
       IN  IF req[w].create = {} THEN slicer' = updated
           ELSE \E n \in NewId(slicer, Id) : slicer' \in InsertedAll(updated, n, NewRows(req[w]))
    /\ Slicers' \subseteq Id
    /\ Over(w)
    /\ UNCHANGED <<account, user, assigned, star, audit, log>>

-----------------------------------------------------------------------------
(* The slicer forms.  The list links to Edit and Delete for slicers added  *)
(* by hand only; the routes take any.                                      *)

BeginNewSlicer(w) ==
    /\ req[w] = Idle
    /\ \E actor \in Users, a \in Accounts, n \in Name :
         /\ ~account[a].paused
         /\ KeyFree(a, n, {})
         /\ BeginAdmin(w, Change("new_slicer", actor, a, n))

NewSlicer(w) ==
    /\ At(w, "new_slicer", "commit")
    /\ KeyFree(req[w].id, req[w].value, {})
    /\ \E n \in NewId(slicer, Id) :
         slicer' = Insert(slicer, n, [account |-> req[w].id, name |-> req[w].value,
                                      active |-> TRUE, manual |-> TRUE])
    /\ Over(w)
    /\ UNCHANGED <<account, user, assigned, star, audit, log>>

\* The form also takes an id that is taken; the commit does not.  value: what
\* the row had and is to have.
BeginEditSlicer(w) ==
    /\ req[w] = Idle
    /\ \E actor \in Users, s \in Slicers, a \in Accounts, n \in Name :
         /\ ~account[a].paused \/ a = slicer[s].account
         /\ BeginAdmin(w, Change("edit_slicer", actor, s,
              [from |-> <<slicer[s].account, slicer[s].name>>, to |-> <<a, n>>]))

EditSlicer(w) ==
    /\ At(w, "edit_slicer", "commit")
    /\ req[w].id \in Slicers
    /\ LET s == req[w].id
           from == req[w].value.from
           to == req[w].value.to
           a == IF to[1] # from[1] THEN to[1] ELSE slicer[s].account
           n == IF to[2] # from[2] THEN to[2] ELSE slicer[s].name
       IN  /\ KeyFree(a, n, {s})
           /\ slicer' = [slicer EXCEPT ![s] = [@ EXCEPT !.account = a, !.name = n]]
    /\ Over(w)
    /\ UNCHANGED <<account, user, assigned, star, audit, log>>

BeginDeleteSlicer(w) ==
    /\ req[w] = Idle
    /\ \E actor \in Users, s \in Slicers :
         BeginAdmin(w, Change("delete_slicer", actor, s, Null))

DeleteSlicer(w) ==
    /\ At(w, "delete_slicer", "commit")
    /\ DeleteSlicers({req[w].id})
    /\ Over(w)
    /\ UNCHANGED <<account, user, star, log>>

\* Every step of a request of this module.
AccountsStep(w) ==
    \/ BeginNewAccount(w) \/ NewAccount(w) \/ BeginEditAccount(w) \/ EditAccount(w)
    \/ BeginDeleteAccount(w) \/ DeleteAccount(w) \/ BeginPause(w) \/ Pause(w)
    \/ BeginSync(w) \/ SyncListed(w) \/ SyncRead(w) \/ SyncCommit(w)
    \/ BeginNewSlicer(w) \/ NewSlicer(w) \/ BeginEditSlicer(w) \/ EditSlicer(w)
    \/ BeginDeleteSlicer(w) \/ DeleteSlicer(w)
    \/ Log(w) \/ Abandon(w)
=============================================================================
