------------------------------ MODULE Console ------------------------------
(***************************************************************************)
(* The console's accounts, slicers, users and assignments together: the    *)
(* requests of Accounts and Access on the same tables, from the start of   *)
(* the first worker on an empty database.                                  *)
(***************************************************************************)
EXTENDS Access

vars == <<tables, req>>

RequestAt == {"boot", "bootadd", "idle", "list", "listed", "offered", "commit", "log"}

TypeOK ==
    /\ TablesTypeOK
    /\ DOMAIN req = Worker
    /\ \A w \in Worker : req[w].at \in RequestAt

Init ==
    /\ NoRows
    /\ req = [w \in Worker |-> Booting]

Next ==
    \E w \in Worker : AccountsStep(w) \/ AccessStep(w)

Spec == Init /\ [][Next]_vars

\* gunicorn ends every request after 30 s.
FairSpec == Spec /\ \A w \in Worker : WF_vars(Abandon(w))

-----------------------------------------------------------------------------
(* Properties.                                                             *)

\* An assignment is of a user and a slicer that exist, and an audit row names
\* nobody else's number: what refers to a deleted row goes or forgets it (models.py,
\* "we keep the record if a user/slicer is later deleted"), before a new row takes
\* its number.
References ==
    /\ \A p \in assigned : p.user \in Users /\ p.slicer \in Slicers
    /\ \A e \in audit : e.user \in Users \cup {Null} /\ e.slicer \in Slicers \cup {Null}

\* Once there are users, one of them is an admin: nobody takes their own admin
\* flag or deletes themself (edit_user, delete_user).
AdminLeft == Users # {} => \E u \in Users : user[u].admin

\* A slicer added by hand stays active whatever Syncs list or leave out
\* (_apply_sync; "manual-slicer guardrail" in README.md).
HandAddedKept == \A s \in Slicers : slicer[s].manual => slicer[s].active

\* "Resume brings back everything, including stars and user assignments" (1.22.0):
\* while the account is paused an assignment of its slicers is only lost with the
\* user or the slicer, though saving the user replaces the list, and a star stays.
PausedKept ==
    [][/\ \A p \in assigned \ assigned' :
            p.user \in Users' /\ p.slicer \in Slicers' => OnUnpaused(p.slicer)
       /\ \A x \in star \ star' : OnUnpaused(x.slicer)]_vars

SyncCommits(w) == At(w, "sync", "commit") /\ req'[w].at = "log"

\* A Sync leaves the account's active slicers as the listing has them, those added
\* by hand aside, and every slicer that was known keeps its row, also one that
\* comes back (sync_account).
SyncedAsListed ==
    [][\A w \in Worker : SyncCommits(w) =>
         LET a == req[w].id
             mine == {s \in Slicers' : slicer'[s].account = a}
         IN  /\ {slicer'[s].name : s \in {t \in mine : slicer'[t].active /\ ~slicer'[t].manual}}
                  \ req[w].names = {}
             /\ \A n \in req[w].names : \E s \in mine : slicer'[s].name = n /\ slicer'[s].active
             /\ \A s \in Slicers : s \in Slicers' /\ slicer'[s].name = slicer[s].name]_vars

\* However requests overlap, the console is only left without an admin by a request
\* of somebody who was one when it began and no longer is (edit_user, delete_user,
\* new_user).
LastAdminRaced ==
    [][AdminLeft /\ ~AdminLeft' =>
         \E w \in Worker :
           req'[w] # req[w] /\ req[w].at = "commit" /\ ~IsAdmin(req[w].actor)]_vars

\* "A paused account isn't synced" (models.py): a Sync under way when it is paused
\* ends, and no other follows it.
PauseSettles ==
    \A a \in AccountId :
      <>[](a \in Accounts /\ account[a].paused) =>
        <>[](\A w \in Worker : ~(req[w].at \in {"list", "listed", "commit"}
                                  /\ req[w].kind = "sync" /\ req[w].id = a))
=============================================================================
