------------------------ MODULE ConsoleSerial_proofs ------------------------
(***************************************************************************)
(* What TLAPS proves of Console when one worker serves every request, and  *)
(* with overlapping requests does not hold.                                *)
(*                                                                         *)
(* Nobody steps in between what a request reads and what it commits, so    *)
(* what it was checked for still holds at its commit.  RequestFresh says   *)
(* so of each request; it is what makes the invariants inductive.          *)
(***************************************************************************)
EXTENDS Console_proofs, FiniteSetTheorems

Serial == \A v, w \in Worker : v = w

UserForm == {"new_user", "edit_user", "delete_user"}

\* What a request was checked for holds of the tables as they are.
RequestFresh(r) ==
    /\ r.at = "commit" /\ r.kind \in UserForm => IsAdmin(r.actor)
    /\ Commits(r, "sync") =>
         /\ r.hide = ToHide(r.id, r.names) /\ r.show = ToShow(r.id, r.names)
         /\ r.create = r.names \ {slicer[s].name : s \in
                                    {t \in SlicersOf(r.id) : slicer[t].name \in r.names}}
    /\ r.at = "offered" => /\ r.id \in Users /\ r.ticked \subseteq Slicers
                           /\ \A a \in r.unpaused : a \in Accounts /\ ~account[a].paused
    /\ Commits(r, "assign") => /\ r.id \in Users /\ r.add \subseteq Slicers
                               /\ \A s \in r.drop : OnUnpaused(s)
    /\ Commits(r, "star") => OnUnpaused(r.id)
    /\ Commits(r, "control") => r.actor \in Users /\ r.id \in Slicers

Fresh == \A w \in Worker : RequestFresh(req[w])

SerialInv == Inv /\ Fresh

-----------------------------------------------------------------------------
(* Requests stay fresh.                                                    *)

\* A request that reads leaves the tables as they are.
LEMMA ReadFresh ==
  ASSUME SerialInv, NEW w \in Worker, NEW r, req' = [req EXCEPT ![w] = r],
         UNCHANGED tables, RequestFresh(r)
  PROVE  Fresh'
<1>1. \A v \in Worker : req'[v] = req[v] \/ req'[v] = r
  BY DEF SerialInv, Inv, TypeOK
<1>2. ASSUME NEW q, RequestFresh(q) PROVE RequestFresh(q)'
  BY <1>2 DEF RequestFresh, tables, IsAdmin, Users, Slicers, Accounts, OnUnpaused,
       ToHide, ToShow, SlicersOf
<1> QED BY <1>1, <1>2 DEF SerialInv, Fresh, RequestFresh

\* One that commits has nothing left to commit.
LEMMA EndFresh ==
  ASSUME Serial, SerialInv, NEW w \in Worker, req'[w].at \notin {"commit", "offered"}
  PROVE  Fresh'
BY DEF Serial, Fresh, RequestFresh, Commits

LEMMA OverFresh ==
  ASSUME Serial, SerialInv, NEW w \in Worker,
         Over(w) \/ req' = [req EXCEPT ![w] = Idle] \/ req' = [req EXCEPT ![w] = Booting]
                 \/ req' = [req EXCEPT ![w] = [at |-> "bootadd"]]
  PROVE  Fresh'
<1>1. req'[w].at \in {"log", "idle", "boot", "bootadd"}
  BY DEF Over, Logging, Idle, Booting, SerialInv, Inv, TypeOK
<1> QED BY <1>1, EndFresh

\* What begins with a target and a value, and is checked for nothing else.
LEMMA PlainFresh ==
  ASSUME NEW kind \in {"new_account", "edit_account", "delete_account", "pause", "resume",
                       "new_slicer", "edit_slicer", "delete_slicer"},
         NEW actor, NEW id, NEW value
  PROVE  RequestFresh(Change(kind, actor, id, value))
BY ChangeFields DEF RequestFresh, Commits, UserForm

LEMMA FreshStep ==
  ASSUME Serial, SerialInv, NEW w \in Worker, AccountsStep(w) \/ AccessStep(w)
  PROVE  Fresh'
<1>1. CASE \/ BeginNewAccount(w) \/ BeginEditAccount(w) \/ BeginDeleteAccount(w) \/ BeginPause(w)
           \/ BeginNewSlicer(w) \/ BeginEditSlicer(w) \/ BeginDeleteSlicer(w)
  <2>1. \E kind \in {"new_account", "edit_account", "delete_account", "pause", "resume",
                     "new_slicer", "edit_slicer", "delete_slicer"} :
          \E actor, id, value : Begin(w, Change(kind, actor, id, value))
    BY <1>1 DEF BeginNewAccount, BeginEditAccount, BeginDeleteAccount, BeginPause,
       BeginNewSlicer, BeginEditSlicer, BeginDeleteSlicer, BeginAdmin
  <2> QED BY <2>1, PlainFresh, ReadFresh DEF Begin
<1>2. CASE BeginNewUser(w) \/ BeginEditUser(w) \/ BeginDeleteUser(w)
  <2>1. PICK kind \in UserForm :
          \E actor, id, value : BeginAdmin(w, Change(kind, actor, id, value))
    BY <1>2 DEF BeginNewUser, BeginEditUser, BeginDeleteUser, UserForm
  <2>2. PICK actor, id, value : BeginAdmin(w, Change(kind, actor, id, value))
    BY <2>1
  <2>3. IsAdmin(actor)
    BY <2>2, ChangeFields DEF BeginAdmin
  <2>4. RequestFresh(Change(kind, actor, id, value))
    BY <2>3, ChangeFields DEF RequestFresh, Commits, UserForm
  <2> QED BY <2>2, <2>4, ReadFresh DEF BeginAdmin, Begin
<1>3. CASE BeginStar(w) \/ BeginControl(w)
  <2>1. PICK kind \in {"star", "control"}, u \in Users, s \in Slicers :
          OnUnpaused(s) /\ \E value : Begin(w, Change(kind, u, s, value))
    BY <1>3 DEF BeginStar, BeginControl, CanControl
  <2>2. PICK value : Begin(w, Change(kind, u, s, value))
    BY <2>1
  <2>3. RequestFresh(Change(kind, u, s, value))
    BY <2>1, ChangeFields DEF RequestFresh, Commits, UserForm
  <2> QED BY <2>2, <2>3, ReadFresh DEF Begin
<1>4. CASE BeginSync(w)
  <2>1. PICK actor \in Users, a \in Accounts :
          \/ req' = [req EXCEPT ![w] = [at |-> "list", kind |-> "sync", actor |-> actor, id |-> a]]
          \/ req' = [req EXCEPT ![w] = Logging(actor)]
    BY <1>4 DEF BeginSync, BeginAdmin, Begin
  <2>2. req'[w].at \in {"list", "log"}
    BY <2>1 DEF Logging, SerialInv, Inv, TypeOK
  <2> QED BY <2>2, EndFresh
<1>5. CASE SyncListed(w)
  <2>1. req'[w].at \in {"listed", "log"}
    BY <1>5 DEF SyncListed, Over, Logging, SerialInv, Inv, TypeOK
  <2> QED BY <2>1, EndFresh
<1>6. CASE SyncRead(w)
  <2> DEFINE found == {s \in SlicersOf(req[w].id) : slicer[s].name \in req[w].names}
             r == [at |-> "commit", kind |-> "sync", actor |-> req[w].actor, id |-> req[w].id,
                   names |-> req[w].names,
                   create |-> req[w].names \ {slicer[s].name : s \in found},
                   refresh |-> found,
                   show |-> ToShow(req[w].id, req[w].names), hide |-> ToHide(req[w].id, req[w].names)]
  <2>1. req' = [req EXCEPT ![w] = r] /\ UNCHANGED tables
    BY <1>6 DEF SyncRead
  <2>2. /\ r.at = "commit" /\ r.kind = "sync" /\ r.id = req[w].id /\ r.names = req[w].names
        /\ r.create = req[w].names \ {slicer[s].name : s \in found}
        /\ r.show = ToShow(req[w].id, req[w].names) /\ r.hide = ToHide(req[w].id, req[w].names)
    OBVIOUS
  <2> HIDE DEF r
  <2>3. RequestFresh(r)
    BY <2>2 DEF RequestFresh, Commits, UserForm
  <2> QED BY <2>1, <2>3, ReadFresh
<1>7. CASE BeginAssign(w)
  <2> DEFINE unpaused == {slicer[s].account : s \in Listed}
  <2>1. PICK actor \in Users, u \in Users, ticked \in SUBSET Listed :
          Begin(w, [at |-> "offered", kind |-> "assign", actor |-> actor,
                    id |-> u, ticked |-> ticked, unpaused |-> unpaused])
    BY <1>7 DEF BeginAssign, BeginAdmin
  <2>3. \A a \in unpaused : a \in Accounts /\ ~account[a].paused
    BY DEF Listed, OnUnpaused
  <2> HIDE DEF unpaused
  <2>2. RequestFresh([at |-> "offered", kind |-> "assign", actor |-> actor,
                      id |-> u, ticked |-> ticked, unpaused |-> unpaused])
    BY <2>3 DEF RequestFresh, Commits, Listed
  <2> QED BY <2>1, <2>2, ReadFresh DEF Begin
<1>8. CASE AssignLoad(w)
  <2> DEFINE was == AssignedTo(req[w].id) \cap Slicers
             list == req[w].ticked \cup Kept(req[w])
             r == [at |-> "commit", kind |-> "assign", actor |-> req[w].actor, id |-> req[w].id,
                   drop |-> was \ list, add |-> list \ was]
  <2>1. req' = [req EXCEPT ![w] = r] /\ UNCHANGED tables
    BY <1>8 DEF AssignLoad
  <2>2. /\ req[w].id \in Users /\ req[w].ticked \subseteq Slicers
        /\ \A a \in req[w].unpaused : ~account[a].paused
    BY <1>8 DEF AssignLoad, At, SerialInv, Fresh, RequestFresh
  <2>3. list \subseteq Slicers
    BY <2>2 DEF Kept
  <2>5. \A s \in was \ list : OnUnpaused(s)
    BY <1>8, <2>2 DEF AssignLoad, Kept, OnUnpaused
  <2> HIDE DEF was, list
  <2>4. RequestFresh(r)
    BY <2>2, <2>3, <2>5 DEF RequestFresh, Commits, UserForm
  <2> QED BY <2>1, <2>4, ReadFresh
<1>9. CASE Log(w) \/ Abandon(w) \/ BootCount(w) \/ BootAdd(w) \/ ToggleStar(w) \/ RecordControl(w)
  <2>1. \E r \in {Idle, Booting, [at |-> "bootadd"]} : req' = [req EXCEPT ![w] = r]
    BY <1>9 DEF Log, Abandon, BootCount, BootAdd, ToggleStar, RecordControl
  <2> QED BY <2>1, OverFresh
<1>10. CASE \/ NewAccount(w) \/ EditAccount(w) \/ DeleteAccount(w) \/ Pause(w)
            \/ SyncCommit(w) \/ NewSlicer(w) \/ EditSlicer(w) \/ DeleteSlicer(w)
            \/ NewUser(w) \/ EditUser(w) \/ DeleteUserCommit(w) \/ Assign(w)
  BY <1>10, OverFresh DEF NewAccount, EditAccount, DeleteAccount, Pause, SyncCommit,
     NewSlicer, EditSlicer, DeleteSlicer, NewUser, EditUser, DeleteUserCommit, Assign
<1> QED
  BY <1>1, <1>2, <1>3, <1>4, <1>5, <1>6, <1>7, <1>8, <1>9, <1>10 DEF AccountsStep, AccessStep

LEMMA SerialInvariance == ASSUME Serial PROVE Spec => []SerialInv
<1>1. Init => Fresh
  BY DEF Init, Fresh, RequestFresh, Booting, Commits
<1>2. SerialInv /\ [Next]_vars => Fresh'
  <2> SUFFICES ASSUME SerialInv, [Next]_vars PROVE Fresh'
    OBVIOUS
  <2>1. CASE UNCHANGED vars
    BY <2>1 DEF vars, tables, SerialInv, Fresh, RequestFresh, IsAdmin, Users, Slicers,
       Accounts, OnUnpaused, ToHide, ToShow, SlicersOf
  <2> QED BY <2>1, FreshStep DEF Next
<1> QED BY <1>1, <1>2, InvInit, InvStep, PTL DEF SerialInv, Spec

-----------------------------------------------------------------------------
(* An admin is left.                                                       *)

\* With one worker there is an admin as soon as there are users.
THEOREM SerialAdminLeft == ASSUME Serial PROVE Spec => []AdminLeft
<1>1. Init => AdminLeft
  BY DEF Init, NoRows, EmptyTable, AdminLeft, Users
<1>2. SerialInv /\ AdminLeft /\ [Next]_vars => AdminLeft'
  <2> SUFFICES ASSUME SerialInv, AdminLeft, [Next]_vars, ~AdminLeft' PROVE FALSE
    OBVIOUS
  <2>1. user' # user
    BY DEF AdminLeft, Users
  <2>2. PICK w \in Worker : AccountsStep(w) \/ AccessStep(w)
    BY <2>1 DEF Next, vars, tables
  <2>3. BootAdd(w) \/ NewUser(w) \/ EditUser(w) \/ DeleteUserCommit(w)
    BY <2>1, <2>2, OtherStepsKeepUsers
  <2>4. req[w].at = "commit" /\ ~IsAdmin(req[w].actor) /\ req[w].kind \in UserForm
    BY <2>3, UserStepsKeepAdmin DEF SerialInv, UserForm
  <2> QED BY <2>4 DEF SerialInv, Fresh, RequestFresh
<1> QED BY <1>1, <1>2, SerialInvariance, PTL DEF Spec

-----------------------------------------------------------------------------
(* What a Sync writes.                                                     *)

\* A Sync creates finitely many rows.
LEMMA NewRowsFinite ==
  ASSUME NEW r, r.create \subseteq Name
  PROVE  Cardinality(NewRows(r)) \in Nat
<1> DEFINE row(n) == [account |-> r.id, name |-> n, active |-> TRUE, manual |-> FALSE]
           f == [n \in r.create |-> row(n)]
<1>1. IsFiniteSet(r.create)
  BY TablesAssumption, FS_Subset
<1>2. f \in Surjection(r.create, NewRows(r))
  BY DEF Surjection, NewRows
<1> HIDE DEF f
<1>3. IsFiniteSet(NewRows(r))
  BY <1>1, <1>2, FS_Surjection
<1> QED BY <1>3, FS_CardinalityType

\* Rows numbered from above the last one leave those there as they are.
LEMMA InsertedAllKeeps ==
  ASSUME NEW table, NEW bound \in SUBSET Nat, NEW n \in NewId(table, bound), NEW new,
         DOMAIN table \subseteq Nat, Cardinality(new) \in Nat, NEW t \in InsertedAll(table, n, new)
  PROVE  /\ DOMAIN table \subseteq DOMAIN t
         /\ \A i \in DOMAIN table : t[i] = table[i]
         /\ \A i \in DOMAIN t \ DOMAIN table : t[i] \in new
         /\ \A row \in new : \E i \in DOMAIN t : t[i] = row
<1> DEFINE numbers == n..(n + Cardinality(new) - 1)
<1>1. PICK order \in [numbers -> new] :
        /\ t = [i \in DOMAIN table \cup numbers |-> IF i \in numbers THEN order[i] ELSE table[i]]
        /\ Range(order) = new
  BY DEF InsertedAll
<1>2. \A i \in DOMAIN table : i \notin numbers
  BY DEF NewId
<1> HIDE DEF numbers
<1>3. \A row \in new : \E i \in numbers : order[i] = row
  BY <1>1 DEF Range
<1> QED BY <1>1, <1>2, <1>3

\* The rows there were when the Sync read them, as it leaves them.
Synced(r) ==
    [s \in Slicers |->
       IF s \in ToShow(r.id, r.names) THEN [slicer[s] EXCEPT !.active = TRUE]
       ELSE IF s \in ToHide(r.id, r.names) THEN [slicer[s] EXCEPT !.active = FALSE]
       ELSE slicer[s]]

LEMMA SyncWrites ==
  ASSUME SerialInv, NEW w \in Worker, SyncCommit(w)
  PROVE  /\ Slicers \subseteq Slicers'
         /\ \A s \in Slicers : slicer'[s] = Synced(req[w])[s]
         /\ \A s \in Slicers' \ Slicers : slicer'[s] \in NewRows(req[w])
         /\ \A row \in NewRows(req[w]) : \E s \in Slicers' : slicer'[s] = row
<1> DEFINE r == req[w]
<1>1. /\ r.hide = ToHide(r.id, r.names) /\ r.show = ToShow(r.id, r.names)
      /\ r.create \subseteq Name
  BY DEF SyncCommit, At, SerialInv, Fresh, RequestFresh, Inv, RequestsOK, RequestOK, Commits
<1>2. /\ DOMAIN Synced(r) = Slicers
      /\ r.create = {} => slicer' = Synced(r)
      /\ r.create # {} =>
           \E n \in NewId(slicer, Id) : slicer' \in InsertedAll(Synced(r), n, NewRows(r))
  BY <1>1 DEF SyncCommit, Synced
<1>3. CASE r.create = {}
  <2>1. NewRows(r) = {}
    BY <1>3 DEF NewRows
  <2> QED BY <1>2, <1>3, <2>1 DEF Slicers
<1>4. CASE r.create # {}
  <2>1. PICK n \in NewId(slicer, Id) : slicer' \in InsertedAll(Synced(r), n, NewRows(r))
    BY <1>2, <1>4
  <2>2. n \in NewId(Synced(r), Id)
    BY <2>1, <1>2 DEF NewId, Slicers
  <2>3. DOMAIN Synced(r) \subseteq Nat /\ Id \subseteq Nat
    BY <1>2 DEF SerialInv, Inv, TypeOK, TablesTypeOK, IsTable, Id, Slicers
  <2>4. Cardinality(NewRows(r)) \in Nat
    BY <1>1, NewRowsFinite
  <2> QED BY <1>2, <2>1, <2>2, <2>3, <2>4, InsertedAllKeeps DEF Slicers
<1> QED BY <1>3, <1>4

\* With one worker a Sync leaves the account's active slicers as the listing has
\* them, those added by hand aside, and no slicer loses its row.
THEOREM SerialSyncedAsListed == ASSUME Serial PROVE Spec => SyncedAsListed
<1>1. ASSUME SerialInv, [Next]_vars
      PROVE  [\A w \in Worker : SyncCommits(w) =>
                LET a == req[w].id
                    mine == {s \in Slicers' : slicer'[s].account = a}
                IN  /\ {slicer'[s].name : s \in {t \in mine : slicer'[t].active /\ ~slicer'[t].manual}}
                         \ req[w].names = {}
                    /\ \A n \in req[w].names :
                         \E s \in mine : slicer'[s].name = n /\ slicer'[s].active
                    /\ \A s \in Slicers : s \in Slicers' /\ slicer'[s].name = slicer[s].name]_vars
  <2> SUFFICES ASSUME vars' # vars, NEW w \in Worker, SyncCommits(w)
               PROVE  LET a == req[w].id
                          mine == {s \in Slicers' : slicer'[s].account = a}
                      IN  /\ {slicer'[s].name :
                                 s \in {t \in mine : slicer'[t].active /\ ~slicer'[t].manual}}
                               \ req[w].names = {}
                          /\ \A n \in req[w].names :
                               \E s \in mine : slicer'[s].name = n /\ slicer'[s].active
                          /\ \A s \in Slicers : s \in Slicers' /\ slicer'[s].name = slicer[s].name
    OBVIOUS
  <2> DEFINE a == req[w].id
             names == req[w].names
             mine == {s \in Slicers' : slicer'[s].account = a}
  <2>1. SyncCommit(w)
    BY <1>1, SyncCommitsIs DEF SerialInv
  <2>2. req[w].create = names \ {slicer[s].name : s \in {t \in SlicersOf(a) : slicer[t].name \in names}}
    BY <1>1, <2>1 DEF SyncCommit, At, SerialInv, Fresh, RequestFresh, Commits
  <2>3. /\ Slicers \subseteq Slicers'
        /\ \A s \in Slicers : slicer'[s] = Synced(req[w])[s]
        /\ \A s \in Slicers' \ Slicers : slicer'[s] \in NewRows(req[w])
        /\ \A row \in NewRows(req[w]) : \E s \in Slicers' : slicer'[s] = row
    BY <1>1, <2>1, SyncWrites
  <2>4. \A s \in Slicers : slicer[s] \in SlicerRecord
    BY <1>1 DEF SerialInv, Inv, TypeOK, TablesTypeOK, IsTable, Slicers
  <2>5. ASSUME NEW s \in Slicers
        PROVE  /\ slicer'[s].name = slicer[s].name /\ slicer'[s].manual = slicer[s].manual
               /\ slicer'[s].account = slicer[s].account
               /\ slicer[s].account = a /\ slicer[s].name \in names => slicer'[s].active
               /\ /\ slicer[s].account = a /\ slicer[s].name \notin names
                  /\ ~slicer[s].manual
                  => ~slicer'[s].active
    <3>1. s \in ToShow(a, names) <=>
            slicer[s].account = a /\ slicer[s].name \in names /\ ~slicer[s].active
      BY DEF ToShow, SlicersOf
    <3>2. s \in ToHide(a, names) <=>
            /\ slicer[s].account = a /\ slicer[s].name \notin names
            /\ slicer[s].active /\ ~slicer[s].manual
      BY DEF ToHide, SlicersOf
    <3>3. CASE s \in ToShow(a, names)
      <4>1. slicer'[s] = [slicer[s] EXCEPT !.active = TRUE]
        BY <2>3, <3>3 DEF Synced
      <4> QED BY <2>4, <3>1, <3>3, <4>1 DEF SlicerRecord
    <3>4. CASE s \notin ToShow(a, names) /\ s \in ToHide(a, names)
      <4>1. slicer'[s] = [slicer[s] EXCEPT !.active = FALSE]
        BY <2>3, <3>4 DEF Synced
      <4> QED BY <2>4, <3>2, <3>4, <4>1 DEF SlicerRecord
    <3>5. CASE s \notin ToShow(a, names) /\ s \notin ToHide(a, names)
      <4>1. slicer'[s] = slicer[s]
        BY <2>3, <3>5 DEF Synced
      <4> QED BY <3>1, <3>2, <3>5, <4>1
    <3> QED BY <3>3, <3>4, <3>5
  <2>6. ASSUME NEW s \in mine, slicer'[s].active, ~slicer'[s].manual
        PROVE  slicer'[s].name \in names
    <3>1. CASE s \in Slicers
      BY <2>5, <2>6, <3>1
    <3>2. CASE s \notin Slicers
      <4>1. PICK n \in req[w].create : slicer'[s].name = n
        BY <2>3, <2>6, <3>2 DEF NewRows
      <4> QED BY <2>2, <4>1
    <3> QED BY <3>1, <3>2
  <2>7. ASSUME NEW n \in names
        PROVE  \E s \in mine : slicer'[s].name = n /\ slicer'[s].active
    <3>1. CASE n \in req[w].create
      <4>1. [account |-> a, name |-> n, active |-> TRUE, manual |-> FALSE] \in NewRows(req[w])
        BY <3>1 DEF NewRows
      <4> QED BY <2>3, <4>1
    <3>2. CASE n \notin req[w].create
      <4>1. PICK s \in SlicersOf(a) : slicer[s].name = n
        BY <2>2, <3>2
      <4>2. s \in Slicers /\ slicer[s].account = a
        BY DEF SlicersOf
      <4> QED BY <2>3, <2>5, <4>1, <4>2
    <3> QED BY <3>1, <3>2
  <2> QED BY <2>3, <2>5, <2>6, <2>7
<1> QED BY <1>1, SerialInvariance, PTL DEF Spec, SyncedAsListed

-----------------------------------------------------------------------------
(* Slicers added by hand.                                                  *)

\* No other steps than these write slicers.
LEMMA SlicerSteps ==
  ASSUME NEW w \in Worker, AccountsStep(w) \/ AccessStep(w)
  PROVE  \/ slicer' = slicer
         \/ SyncCommit(w) \/ NewSlicer(w) \/ EditSlicer(w)
         \/ DeleteAccount(w) \/ DeleteSlicer(w)
<1>1. CASE AccountsStep(w)
  BY <1>1 DEF AccountsStep, tables,
     BeginNewAccount, NewAccount, BeginEditAccount, EditAccount, BeginDeleteAccount,
     BeginPause, Pause, BeginSync, SyncListed, SyncRead,
     BeginNewSlicer, BeginEditSlicer, BeginDeleteSlicer,
     Log, Abandon, BeginAdmin, Begin
<1>2. CASE AccessStep(w)
  BY <1>2 DEF AccessStep, tables, BootCount, BootAdd, BeginNewUser, NewUser, BeginEditUser,
     EditUser, BeginDeleteUser, DeleteUserCommit, DeleteUser, BeginAssign, AssignLoad, Assign,
     BeginStar, ToggleStar, BeginControl, RecordControl, BeginAdmin, Begin
<1> QED BY <1>1, <1>2

LEMMA HandAddedStep ==
  ASSUME SerialInv, HandAddedKept, NEW w \in Worker, AccountsStep(w) \/ AccessStep(w)
  PROVE  HandAddedKept'
<1>1. \A s \in Slicers : slicer[s] \in SlicerRecord
  BY DEF SerialInv, Inv, TypeOK, TablesTypeOK, IsTable, Slicers
<1>2. CASE slicer' = slicer
  BY <1>2 DEF HandAddedKept, Slicers
<1>3. CASE SyncCommit(w)
  <2> SUFFICES ASSUME NEW s \in Slicers', slicer'[s].manual PROVE slicer'[s].active
    BY DEF HandAddedKept
  <2>1. CASE s \in Slicers
    <3>1. slicer'[s] = Synced(req[w])[s]
      BY <1>3, <2>1, SyncWrites
    <3>2. CASE s \in ToShow(req[w].id, req[w].names)
      <4>1. slicer'[s] = [slicer[s] EXCEPT !.active = TRUE]
        BY <2>1, <3>1, <3>2 DEF Synced
      <4> QED BY <1>1, <2>1, <4>1 DEF SlicerRecord
    <3>3. CASE /\ s \notin ToShow(req[w].id, req[w].names)
               /\ s \in ToHide(req[w].id, req[w].names)
      <4>1. slicer'[s] = [slicer[s] EXCEPT !.active = FALSE]
        BY <2>1, <3>1, <3>3 DEF Synced
      <4>2. ~slicer[s].manual
        BY <3>3 DEF ToHide
      <4> QED BY <1>1, <2>1, <4>1, <4>2 DEF SlicerRecord
    <3>4. CASE /\ s \notin ToShow(req[w].id, req[w].names)
               /\ s \notin ToHide(req[w].id, req[w].names)
      <4>1. slicer'[s] = slicer[s]
        BY <2>1, <3>1, <3>4 DEF Synced
      <4> QED BY <2>1, <4>1 DEF HandAddedKept
    <3> QED BY <3>2, <3>3, <3>4
  <2>2. CASE s \notin Slicers
    BY <1>3, <2>2, SyncWrites DEF NewRows
  <2> QED BY <2>1, <2>2
<1>4. CASE NewSlicer(w)
  BY <1>4 DEF NewSlicer, Insert, HandAddedKept, Slicers
<1>5. CASE EditSlicer(w)
  <2>1. \E a, n : slicer' = [slicer EXCEPT ![req[w].id] =
                              [slicer[req[w].id] EXCEPT !.account = a, !.name = n]]
    BY <1>5 DEF EditSlicer
  <2>2. ASSUME NEW s \in Slicers
        PROVE  slicer'[s].active = slicer[s].active /\ slicer'[s].manual = slicer[s].manual
    BY <1>1, <2>1 DEF Slicers, SlicerRecord
  <2> QED BY <2>1, <2>2 DEF HandAddedKept, Slicers
<1>6. CASE DeleteAccount(w) \/ DeleteSlicer(w)
  BY <1>6 DEF DeleteAccount, DeleteSlicer, DeleteSlicers, Without, Restrict, HandAddedKept, Slicers
<1> QED BY <1>2, <1>3, <1>4, <1>5, <1>6, SlicerSteps

\* With one worker, whatever Syncs list or leave out, a slicer added by hand stays
\* active.
THEOREM SerialHandAddedKept == ASSUME Serial PROVE Spec => []HandAddedKept
<1>1. Init => HandAddedKept
  BY DEF Init, NoRows, EmptyTable, HandAddedKept, Slicers
<1>2. SerialInv /\ HandAddedKept /\ [Next]_vars => HandAddedKept'
  <2> SUFFICES ASSUME SerialInv, HandAddedKept, [Next]_vars PROVE HandAddedKept'
    OBVIOUS
  <2>1. CASE UNCHANGED vars
    BY <2>1 DEF vars, tables, HandAddedKept, Slicers
  <2> QED BY <2>1, HandAddedStep DEF Next
<1> QED BY <1>1, <1>2, SerialInvariance, PTL DEF Spec

-----------------------------------------------------------------------------
(* References.                                                             *)

LEMMA InsertGrows ==
  ASSUME NEW table, NEW n, NEW row
  PROVE  DOMAIN table \subseteq DOMAIN Insert(table, n, row)
BY DEF Insert

\* Rows that are added leave what refers to the others.
LEMMA GrowRefers ==
  ASSUME References, Users \subseteq Users', Slicers \subseteq Slicers',
         assigned' \subseteq assigned, audit' \subseteq audit
  PROVE  References'
BY DEF References

LEMMA DeleteSlicersRefers ==
  ASSUME SerialInv, References, NEW ids, DeleteSlicers(ids), Users' = Users
  PROVE  References'
<1>1. Slicers' = Slicers \ ids
  BY DEF DeleteSlicers, Without, Restrict, Slicers
<1>2. \A p \in assigned' : p \in assigned /\ p.slicer \notin ids
  BY DEF DeleteSlicers
<1>3. ASSUME NEW e \in audit'
      PROVE  e.user \in Users \cup {Null} /\ e.slicer \in Slicers' \cup {Null}
  <2>1. PICK d \in audit : e = [d EXCEPT !.slicer = IF @ \in ids THEN Null ELSE @]
    BY <1>3 DEF DeleteSlicers
  <2>2. d \in AuditRow
    BY DEF SerialInv, Inv, TypeOK, TablesTypeOK
  <2>3. e.user = d.user /\ e.slicer = IF d.slicer \in ids THEN Null ELSE d.slicer
    BY <2>1, <2>2 DEF AuditRow
  <2> QED BY <1>1, <2>3 DEF References
<1> QED BY <1>1, <1>2, <1>3 DEF References

LEMMA ReferencesStep ==
  ASSUME SerialInv, References, NEW w \in Worker, AccountsStep(w) \/ AccessStep(w)
  PROVE  References'
<1>1. CASE UNCHANGED <<slicer, user, assigned, audit>>
  BY <1>1 DEF References, Users, Slicers
<1>2. CASE SyncCommit(w)
  BY <1>2, SyncWrites, GrowRefers DEF SyncCommit, Users
<1>3. CASE NewSlicer(w)
  BY <1>3, InsertGrows, GrowRefers DEF NewSlicer, Users, Slicers
<1>4. CASE EditSlicer(w)
  <2>1. Slicers' = Slicers
    BY <1>4 DEF EditSlicer, Slicers
  <2> QED BY <1>4, <2>1, GrowRefers DEF EditSlicer, Users
<1>5. CASE DeleteAccount(w) \/ DeleteSlicer(w)
  BY <1>5, DeleteSlicersRefers DEF DeleteAccount, DeleteSlicer, Users
<1>6. CASE NewUser(w)
  BY <1>6, InsertGrows, GrowRefers DEF NewUser, Users, Slicers
<1>7. CASE BootAdd(w)
  <2>1. Users \subseteq Users'
    BY <1>7, InsertGrows DEF BootAdd, Users
  <2> QED BY <1>7, <2>1, GrowRefers DEF BootAdd, Slicers
<1>8. CASE EditUser(w)
  <2>1. Users' = Users
    BY <1>8 DEF EditUser, Users
  <2> QED BY <1>8, <2>1, GrowRefers DEF EditUser, Slicers
<1>9. CASE DeleteUserCommit(w)
  <2> DEFINE u == req[w].id
  <2>1. Users' = Users \ {u} /\ Slicers' = Slicers
    BY <1>9 DEF DeleteUserCommit, DeleteUser, Without, Restrict, Users, Slicers
  <2>2. \A p \in assigned' : p \in assigned /\ p.user # u
    BY <1>9 DEF DeleteUserCommit, DeleteUser
  <2>3. ASSUME NEW e \in audit'
        PROVE  e.user \in Users' \cup {Null} /\ e.slicer \in Slicers \cup {Null}
    <3>1. PICK d \in audit : e = [d EXCEPT !.user = IF @ = u THEN Null ELSE @]
      BY <1>9, <2>3 DEF DeleteUserCommit, DeleteUser
    <3>2. d \in AuditRow
      BY DEF SerialInv, Inv, TypeOK, TablesTypeOK
    <3>3. e.slicer = d.slicer /\ e.user = IF d.user = u THEN Null ELSE d.user
      BY <3>1, <3>2 DEF AuditRow
    <3> QED BY <2>1, <3>3 DEF References
  <2> QED BY <2>1, <2>2, <2>3 DEF References
<1>10. CASE Assign(w)
  <2>1. req[w].id \in Users /\ req[w].add \subseteq Slicers
    BY <1>10 DEF Assign, At, Commits, SerialInv, Fresh, RequestFresh
  <2>2. \A p \in assigned' :
          \/ p \in assigned
          \/ \E s \in req[w].add : p = [user |-> req[w].id, slicer |-> s]
    BY <1>10 DEF Assign
  <2>3. \A p \in assigned' : p.user \in Users /\ p.slicer \in Slicers
    BY <2>1, <2>2 DEF References
  <2> QED BY <1>10, <2>3 DEF Assign, References, Users, Slicers
<1>11. CASE RecordControl(w)
  <2>1. req[w].actor \in Users /\ req[w].id \in Slicers
    BY <1>11 DEF RecordControl, At, Commits, SerialInv, Fresh, RequestFresh
  <2>2. \A e \in audit' : e \in audit \/ e = [user |-> req[w].actor, slicer |-> req[w].id]
    BY <1>11 DEF RecordControl, Keep
  <2> QED BY <1>11, <2>1, <2>2 DEF RecordControl, References, Users, Slicers
<1>12. \/ UNCHANGED <<slicer, user, assigned, audit>>
       \/ SyncCommit(w) \/ NewSlicer(w) \/ EditSlicer(w) \/ DeleteAccount(w) \/ DeleteSlicer(w)
       \/ NewUser(w) \/ BootAdd(w) \/ EditUser(w) \/ DeleteUserCommit(w)
       \/ Assign(w) \/ RecordControl(w)
  <2>1. CASE AccountsStep(w)
    BY <2>1 DEF AccountsStep, tables,
       BeginNewAccount, NewAccount, BeginEditAccount, EditAccount, BeginDeleteAccount,
       BeginPause, Pause, BeginSync, SyncListed, SyncRead,
       BeginNewSlicer, BeginEditSlicer, BeginDeleteSlicer, Log, Abandon, BeginAdmin, Begin
  <2>2. CASE AccessStep(w)
    BY <2>2 DEF AccessStep, tables, BootCount, BeginNewUser, BeginEditUser, BeginDeleteUser,
       BeginAssign, AssignLoad, BeginStar, ToggleStar, BeginControl, BeginAdmin, Begin
  <2> QED BY <2>1, <2>2
<1> QED
  BY <1>1, <1>2, <1>3, <1>4, <1>5, <1>6, <1>7, <1>8, <1>9, <1>10, <1>11, <1>12

\* With one worker, nothing refers to a deleted slicer or user, so none of it is
\* handed to the row that takes the number.
THEOREM SerialReferences == ASSUME Serial PROVE Spec => []References
<1>1. Init => References
  BY DEF Init, NoRows, References
<1>2. SerialInv /\ References /\ [Next]_vars => References'
  <2> SUFFICES ASSUME SerialInv, References, [Next]_vars PROVE References'
    OBVIOUS
  <2>1. CASE UNCHANGED vars
    BY <2>1 DEF vars, tables, References, Users, Slicers
  <2> QED BY <2>1, ReferencesStep DEF Next
<1> QED BY <1>1, <1>2, SerialInvariance, PTL DEF Spec

-----------------------------------------------------------------------------
(* Pausing.                                                                *)

\* Only a save of the user's list, the end of the row or the star's own switch
\* takes an assignment or a star away.
LEMMA LosingSteps ==
  ASSUME NEW w \in Worker, AccountsStep(w) \/ AccessStep(w)
  PROVE  \/ assigned' = assigned /\ (star \subseteq star' \/ ToggleStar(w))
         \/ /\ star' = star
            /\ DeleteAccount(w) \/ DeleteSlicer(w) \/ DeleteUserCommit(w) \/ Assign(w)
<1>1. CASE AccountsStep(w)
  BY <1>1 DEF AccountsStep, tables,
     BeginNewAccount, NewAccount, BeginEditAccount, EditAccount, BeginDeleteAccount,
     DeleteAccount, BeginPause, Pause, BeginSync, SyncListed, SyncRead, SyncCommit,
     BeginNewSlicer, NewSlicer, BeginEditSlicer, EditSlicer, BeginDeleteSlicer, DeleteSlicer,
     Log, Abandon, BeginAdmin, Begin
<1>2. CASE AccessStep(w)
  BY <1>2 DEF AccessStep, tables, BootCount, BootAdd, BeginNewUser, NewUser, BeginEditUser,
     EditUser, BeginDeleteUser, DeleteUserCommit, BeginAssign, AssignLoad, Assign,
     BeginStar, ToggleStar, BeginControl, RecordControl, BeginAdmin, Begin
<1> QED BY <1>1, <1>2

\* With one worker, while an account is paused its slicers' assignments are lost only
\* with the user or the slicer, and their stars not at all.
THEOREM SerialPausedKept == ASSUME Serial PROVE Spec => PausedKept
<1>1. ASSUME SerialInv, [Next]_vars
      PROVE  [/\ \A p \in assigned \ assigned' :
                   p.user \in Users' /\ p.slicer \in Slicers' => OnUnpaused(p.slicer)
              /\ \A x \in star \ star' : OnUnpaused(x.slicer)]_vars
  <2> SUFFICES ASSUME vars' # vars
               PROVE  /\ \A p \in assigned \ assigned' :
                           p.user \in Users' /\ p.slicer \in Slicers' => OnUnpaused(p.slicer)
                      /\ \A x \in star \ star' : OnUnpaused(x.slicer)
    OBVIOUS
  <2>1. PICK w \in Worker : AccountsStep(w) \/ AccessStep(w)
    BY <1>1 DEF Next
  <2>2. CASE ToggleStar(w)
    <3>1. OnUnpaused(req[w].id)
      BY <1>1, <2>2 DEF ToggleStar, At, Commits, SerialInv, Fresh, RequestFresh
    <3>2. /\ star \ star' \subseteq {[user |-> req[w].actor, slicer |-> req[w].id]}
          /\ assigned' = assigned
      BY <2>2 DEF ToggleStar, Keep
    <3> QED BY <3>1, <3>2
  <2>3. CASE DeleteAccount(w) \/ DeleteSlicer(w)
    <3>1. PICK ids : DeleteSlicers(ids)
      BY <2>3 DEF DeleteAccount, DeleteSlicer
    <3>2. \A p \in assigned \ assigned' : p.slicer \notin Slicers'
      BY <3>1 DEF DeleteSlicers, Without, Restrict, Slicers
    <3> QED BY <2>3, <3>2 DEF DeleteAccount, DeleteSlicer
  <2>4. CASE DeleteUserCommit(w)
    <3>1. \A p \in assigned \ assigned' : p.user \notin Users'
      BY <2>4 DEF DeleteUserCommit, DeleteUser, Without, Restrict, Users
    <3> QED BY <2>4, <3>1 DEF DeleteUserCommit
  <2>5. CASE Assign(w)
    <3>1. \A s \in req[w].drop : OnUnpaused(s)
      BY <1>1, <2>5 DEF Assign, At, Commits, SerialInv, Fresh, RequestFresh
    <3>2. \A p \in assigned \ assigned' : p.slicer \in req[w].drop
      BY <2>5 DEF Assign
    <3> QED BY <2>5, <3>1, <3>2 DEF Assign
  <2> QED BY <2>1, <2>2, <2>3, <2>4, <2>5, LosingSteps
<1> QED BY <1>1, SerialInvariance, PTL DEF Spec, PausedKept
=============================================================================
