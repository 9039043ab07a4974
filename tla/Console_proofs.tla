--------------------------- MODULE Console_proofs ---------------------------
(***************************************************************************)
(* What TLAPS proves of Console for any names, people, kinds of request    *)
(* and bounds, and however many workers there are: types and               *)
(* LastAdminRaced.                                                         *)
(*                                                                         *)
(* A request is checked when it begins and carries what it was checked     *)
(* for (RequestOK); what the tables were then need not hold any more when  *)
(* it commits.  ConsoleSerial_proofs is about one worker, where it does.   *)
(***************************************************************************)
EXTENDS Console, TLAPS

Serving(r) == r.at \notin {"idle", "boot", "bootadd"}

Commits(r, kind) == r.at = "commit" /\ r.kind = kind

Syncs(r, ats) == r.at \in ats /\ r.kind = "sync"

\* What a request under way was checked for, and carries.
RequestOK(r) ==
    /\ r.at \in RequestAt
    /\ Serving(r) => r.actor \in Id
    /\ Commits(r, "new_account") => r.value \in BOOLEAN
    /\ Syncs(r, {"list", "listed", "commit"}) => r.id \in AccountId
    /\ Syncs(r, {"listed", "commit"}) => r.names \subseteq Name
    /\ Commits(r, "sync") => r.create \subseteq Name
    /\ Commits(r, "new_slicer") => r.id \in AccountId /\ r.value \in Name
    /\ Commits(r, "edit_slicer") => r.value.to[1] \in AccountId /\ r.value.to[2] \in Name
    /\ Commits(r, "new_user") => r.value \in UserRow
    /\ Commits(r, "edit_user") => /\ r.value.to \in UserRow
                                  /\ r.id = r.actor => r.value.to.admin
    /\ Commits(r, "delete_user") => r.id # r.actor
    /\ r.at = "offered" => r.id \in Id /\ r.ticked \subseteq Id
    /\ Commits(r, "assign") => r.id \in Id /\ r.add \subseteq Id
    /\ Commits(r, "star") \/ Commits(r, "control") => r.id \in Id

RequestsOK == \A w \in Worker : RequestOK(req[w])

Inv == TypeOK /\ RequestsOK

-----------------------------------------------------------------------------
(* Tables.                                                                 *)

LEMMA InsertType ==
  ASSUME NEW table, NEW ids, NEW rows, IsTable(table, ids, rows), NEW n \in ids, NEW row \in rows
  PROVE  IsTable(Insert(table, n, row), ids, rows)
BY DEF IsTable, Insert

LEMMA WithoutType ==
  ASSUME NEW table, NEW ids, NEW rows, IsTable(table, ids, rows), NEW gone
  PROVE  IsTable(Without(table, gone), ids, rows)
BY DEF IsTable, Without, Restrict

LEMMA RowType ==
  ASSUME NEW table, NEW ids, NEW rows, IsTable(table, ids, rows), NEW i \in DOMAIN table
  PROVE  table[i] \in rows /\ i \in ids
BY DEF IsTable

LEMMA ReplaceType ==
  ASSUME NEW table, NEW ids, NEW rows, IsTable(table, ids, rows), NEW i, NEW row \in rows
  PROVE  IsTable([table EXCEPT ![i] = row], ids, rows)
BY DEF IsTable

LEMMA InsertedAllType ==
  ASSUME NEW table, NEW ids, NEW rows, IsTable(table, ids, rows), NEW n, NEW new \in SUBSET rows,
         NEW t \in InsertedAll(table, n, new), DOMAIN t \subseteq ids
  PROVE  IsTable(t, ids, rows)
<1> DEFINE numbers == n..(n + Cardinality(new) - 1)
<1>1. PICK order \in [numbers -> new] :
        t = [i \in DOMAIN table \cup numbers |-> IF i \in numbers THEN order[i] ELSE table[i]]
  BY DEF InsertedAll
<1> HIDE DEF numbers
<1> QED BY <1>1 DEF IsTable

LEMMA DeleteSlicersType ==
  ASSUME TablesTypeOK, NEW ids, DeleteSlicers(ids), UNCHANGED <<account, user, star, log>>
  PROVE  TablesTypeOK'
<1>1. IsTable(slicer', Id, SlicerRecord)
  BY WithoutType DEF DeleteSlicers, TablesTypeOK
<1>2. assigned' \subseteq Pair
  BY DEF DeleteSlicers, TablesTypeOK
<1>3. ASSUME NEW e \in audit
      PROVE  [e EXCEPT !.slicer = IF @ \in ids THEN Null ELSE @] \in AuditRow
  BY <1>3 DEF TablesTypeOK, AuditRow
<1>4. audit' \subseteq AuditRow
  BY <1>3 DEF DeleteSlicers
<1> QED BY <1>1, <1>2, <1>4 DEF TablesTypeOK

LEMMA KeepType ==
  ASSUME NEW rows, NEW table \in SUBSET rows, NEW row \in rows
  PROVE  Keep(table, row) \subseteq rows
BY DEF Keep

-----------------------------------------------------------------------------
(* Types.                                                                  *)

LEMMA RequestUpdate ==
  ASSUME Inv, NEW w \in Worker, NEW r, req' = [req EXCEPT ![w] = r], RequestOK(r)
  PROVE  DOMAIN req' = Worker /\ RequestsOK' /\ \A v \in Worker : req'[v].at \in RequestAt
<1>1. \A v \in Worker : req'[v] = req[v] \/ req'[v] = r
  BY DEF Inv, TypeOK
<1>2. \A v \in Worker : RequestOK(req'[v])
  BY <1>1 DEF Inv, RequestsOK
<1> QED BY <1>2 DEF RequestsOK, RequestOK, Inv, TypeOK

LEMMA IdleOK == RequestOK(Idle) /\ RequestOK(Booting) /\ RequestOK([at |-> "bootadd"])
BY DEF RequestOK, Idle, Booting, Serving, Commits, Syncs, RequestAt

LEMMA LoggingOK ==
  ASSUME NEW actor \in Id
  PROVE  RequestOK(Logging(actor))
BY DEF RequestOK, Logging, Serving, Commits, Syncs, RequestAt

LEMMA BeginInv ==
  ASSUME Inv, NEW w \in Worker, NEW r, Begin(w, r), RequestOK(r)
  PROVE  Inv'
BY RequestUpdate DEF Begin, Inv, TypeOK, tables, TablesTypeOK

\* A commit's tables are typed, and its request goes on to its admin event.
LEMMA OverInv ==
  ASSUME Inv, NEW w \in Worker, Over(w), Serving(req[w]), TablesTypeOK'
  PROVE  Inv'
<1>1. req[w].actor \in Id
  BY DEF Inv, RequestsOK, RequestOK
<1>2. /\ req' = [req EXCEPT ![w] = Logging(req[w].actor)]
      /\ RequestOK(Logging(req[w].actor))
  BY <1>1, LoggingOK DEF Over
<1> QED BY <1>2, RequestUpdate DEF Inv, TypeOK

\* What an admin's request that begins with a target and a value carries.
LEMMA ChangeFields ==
  ASSUME NEW kind, NEW actor, NEW id, NEW value
  PROVE  /\ Change(kind, actor, id, value).at = "commit"
         /\ Change(kind, actor, id, value).kind = kind
         /\ Change(kind, actor, id, value).actor = actor
         /\ Change(kind, actor, id, value).id = id
         /\ Change(kind, actor, id, value).value = value
BY DEF Change

\* Kinds whose commits need nothing of what the request carries.
LEMMA PlainChangeOK ==
  ASSUME NEW kind \in {"edit_account", "delete_account", "pause", "resume", "delete_slicer"},
         NEW actor \in Id, NEW id, NEW value
  PROVE  RequestOK(Change(kind, actor, id, value))
BY ChangeFields DEF RequestOK, Serving, Commits, Syncs, RequestAt

LEMMA AccountFormsInv ==
  ASSUME Inv, NEW w \in Worker,
         \/ BeginNewAccount(w) \/ NewAccount(w) \/ BeginEditAccount(w) \/ EditAccount(w)
         \/ BeginDeleteAccount(w) \/ DeleteAccount(w) \/ BeginPause(w) \/ Pause(w)
  PROVE  Inv'
<1>1. \A u \in Users : u \in Id
  BY DEF Inv, TypeOK, TablesTypeOK, IsTable, Users
<1>2. ASSUME NEW actor \in Users, NEW keyed \in BOOLEAN,
             BeginAdmin(w, Change("new_account", actor, Null, keyed))
      PROVE  Inv'
  <2>1. RequestOK(Change("new_account", actor, Null, keyed))
    BY <1>1, ChangeFields DEF RequestOK, Serving, Commits, Syncs, RequestAt
  <2> QED BY <1>2, <2>1, BeginInv DEF BeginAdmin
<1>3. ASSUME NEW kind \in {"edit_account", "delete_account", "pause", "resume"},
             NEW actor \in Users, NEW id, NEW value,
             BeginAdmin(w, Change(kind, actor, id, value))
      PROVE  Inv'
  <2>1. RequestOK(Change(kind, actor, id, value))
    BY <1>1, PlainChangeOK
  <2> QED BY <1>3, <2>1, BeginInv DEF BeginAdmin
<1>4. CASE NewAccount(w)
  <2>1. PICK n \in AccountId :
          account' = Insert(account, n, [keyed |-> req[w].value, paused |-> FALSE])
    BY <1>4 DEF NewAccount, NewId
  <2>2. [keyed |-> req[w].value, paused |-> FALSE] \in AccountRow
    BY <1>4 DEF Inv, RequestsOK, RequestOK, NewAccount, At, Commits, AccountRow
  <2>3. TablesTypeOK'
    BY <1>4, <2>1, <2>2, InsertType DEF NewAccount, Inv, TypeOK, TablesTypeOK
  <2> QED BY <1>4, <2>3, OverInv DEF NewAccount, At, Serving
<1>5. CASE EditAccount(w)
  <2>1. account' = account \/ account' = [account EXCEPT ![req[w].id].keyed = TRUE]
    BY <1>5 DEF EditAccount
  <2>2. IsTable(account', AccountId, AccountRow)
    <3>1. CASE account' = account
      BY <3>1 DEF Inv, TypeOK, TablesTypeOK
    <3>2. CASE account' = [account EXCEPT ![req[w].id].keyed = TRUE]
      <4>1. account[req[w].id] \in AccountRow
        BY <1>5 DEF EditAccount, Accounts, Inv, TypeOK, TablesTypeOK, IsTable
      <4>2. [account[req[w].id] EXCEPT !.keyed = TRUE] \in AccountRow
        BY <4>1 DEF AccountRow
      <4> QED BY <3>2, <4>2, ReplaceType DEF Inv, TypeOK, TablesTypeOK
    <3> QED BY <2>1, <3>1, <3>2
  <2>3. TablesTypeOK'
    BY <1>5, <2>2 DEF EditAccount, Inv, TypeOK, TablesTypeOK
  <2> QED BY <1>5, <2>3, OverInv DEF EditAccount, At, Serving
<1>6. CASE DeleteAccount(w)
  <2>1. IsTable(account', AccountId, AccountRow)
    BY <1>6, WithoutType DEF DeleteAccount, Inv, TypeOK, TablesTypeOK
  <2>2. IsTable(slicer', Id, SlicerRecord) /\ assigned' \subseteq Pair /\ audit' \subseteq AuditRow
    <3>1. IsTable(slicer', Id, SlicerRecord)
      BY <1>6, WithoutType DEF DeleteAccount, DeleteSlicers, Inv, TypeOK, TablesTypeOK
    <3>2. assigned' \subseteq Pair
      BY <1>6 DEF DeleteAccount, DeleteSlicers, Inv, TypeOK, TablesTypeOK
    <3>3. ASSUME NEW e \in audit
          PROVE  [e EXCEPT !.slicer = IF @ \in req[w].value THEN Null ELSE @] \in AuditRow
      BY <3>3 DEF Inv, TypeOK, TablesTypeOK, AuditRow
    <3> QED BY <1>6, <3>1, <3>2, <3>3 DEF DeleteAccount, DeleteSlicers
  <2>3. TablesTypeOK'
    BY <1>6, <2>1, <2>2 DEF DeleteAccount, Inv, TypeOK, TablesTypeOK
  <2> QED BY <1>6, <2>3, OverInv DEF DeleteAccount, At, Serving
<1>7. CASE Pause(w)
  <2>1. \/ account' = account
        \/ account' = [account EXCEPT ![req[w].id].paused = (req[w].kind = "pause")]
    BY <1>7 DEF Pause
  <2>2. IsTable(account', AccountId, AccountRow)
    <3>1. CASE account' = account
      BY <3>1 DEF Inv, TypeOK, TablesTypeOK
    <3>2. CASE account' = [account EXCEPT ![req[w].id].paused = (req[w].kind = "pause")]
      <4>1. account[req[w].id] \in AccountRow
        BY <1>7 DEF Pause, Accounts, Inv, TypeOK, TablesTypeOK, IsTable
      <4>2. [account[req[w].id] EXCEPT !.paused = (req[w].kind = "pause")] \in AccountRow
        BY <4>1 DEF AccountRow
      <4> QED BY <3>2, <4>2, ReplaceType DEF Inv, TypeOK, TablesTypeOK
    <3> QED BY <2>1, <3>1, <3>2
  <2>3. TablesTypeOK'
    BY <1>7, <2>2 DEF Pause, Inv, TypeOK, TablesTypeOK
  <2> QED BY <1>7, <2>3, OverInv DEF Pause, At, Serving
<1>8. CASE BeginNewAccount(w)
  BY <1>2, <1>8 DEF BeginNewAccount
<1>9. CASE BeginEditAccount(w) \/ BeginDeleteAccount(w) \/ BeginPause(w)
  BY <1>3, <1>9 DEF BeginEditAccount, BeginDeleteAccount, BeginPause
<1> QED BY <1>4, <1>5, <1>6, <1>7, <1>8, <1>9

LEMMA SyncInv ==
  ASSUME Inv, NEW w \in Worker, BeginSync(w) \/ SyncListed(w) \/ SyncRead(w) \/ SyncCommit(w)
  PROVE  Inv'
<1>1. CASE BeginSync(w)
  <2>1. PICK actor \in Users, a \in Accounts :
          \/ BeginAdmin(w, [at |-> "list", kind |-> "sync", actor |-> actor, id |-> a])
          \/ req' = [req EXCEPT ![w] = Logging(actor)] /\ UNCHANGED tables
    BY <1>1 DEF BeginSync
  <2>2. actor \in Id /\ a \in AccountId
    BY DEF Inv, TypeOK, TablesTypeOK, IsTable, Users, Accounts
  <2>3. /\ RequestOK([at |-> "list", kind |-> "sync", actor |-> actor, id |-> a])
        /\ RequestOK(Logging(actor))
    BY <2>2, LoggingOK DEF RequestOK, Serving, Commits, Syncs, RequestAt
  <2>4. CASE req' = [req EXCEPT ![w] = Logging(actor)] /\ UNCHANGED tables
    BY <2>3, <2>4, RequestUpdate DEF tables, Inv, TypeOK, TablesTypeOK
  <2> QED BY <2>1, <2>3, <2>4, BeginInv DEF BeginAdmin
<1>2. CASE SyncListed(w)
  <2>1. TablesTypeOK'
    BY <1>2 DEF SyncListed, tables, Inv, TypeOK, TablesTypeOK
  <2>2. CASE Over(w)
    BY <1>2, <2>1, <2>2, OverInv DEF SyncListed, At, Serving
  <2>3. ASSUME NEW names \in SUBSET Name, NEW r,
               r = [at |-> "listed", kind |-> "sync", actor |-> req[w].actor,
                    id |-> req[w].id, names |-> names],
               req' = [req EXCEPT ![w] = r]
        PROVE  Inv'
    <3>1. req[w].actor \in Id /\ req[w].id \in AccountId
      BY <1>2 DEF Inv, RequestsOK, RequestOK, SyncListed, At, Serving, Syncs
    <3>2. RequestOK(r)
      BY <2>3, <3>1 DEF RequestOK, Serving, Commits, Syncs, RequestAt
    <3> QED BY <2>1, <2>3, <3>2, RequestUpdate DEF Inv, TypeOK
  <2> QED BY <1>2, <2>2, <2>3 DEF SyncListed
<1>3. CASE SyncRead(w)
  <2> DEFINE found == {s \in SlicersOf(req[w].id) : slicer[s].name \in req[w].names}
             create == req[w].names \ {slicer[s].name : s \in found}
             r == [at |-> "commit", kind |-> "sync", actor |-> req[w].actor, id |-> req[w].id,
                   names |-> req[w].names, create |-> create, refresh |-> found,
                   show |-> ToShow(req[w].id, req[w].names), hide |-> ToHide(req[w].id, req[w].names)]
  <2>5. req' = [req EXCEPT ![w] = r]
    BY <1>3 DEF SyncRead
  <2>6. create \subseteq req[w].names
    OBVIOUS
  <2> HIDE DEF found, create
  <2>1. /\ r.at = "commit" /\ r.kind = "sync" /\ r.actor = req[w].actor
        /\ r.id = req[w].id /\ r.names = req[w].names /\ r.create \subseteq req[w].names
    BY <2>6
  <2> HIDE DEF r
  <2>2. req[w].actor \in Id /\ req[w].id \in AccountId /\ req[w].names \subseteq Name
    BY <1>3 DEF Inv, RequestsOK, RequestOK, SyncRead, At, Serving, Syncs
  <2>3. RequestOK(r)
    BY <2>1, <2>2 DEF RequestOK, Serving, Commits, Syncs, RequestAt
  <2>4. TablesTypeOK'
    BY <1>3 DEF SyncRead, tables, Inv, TypeOK, TablesTypeOK
  <2> QED BY <2>3, <2>4, <2>5, RequestUpdate DEF Inv, TypeOK
<1>4. CASE SyncCommit(w)
  <2> DEFINE updated == [s \in Slicers |->
               IF s \in req[w].show THEN [slicer[s] EXCEPT !.active = TRUE]
               ELSE IF s \in req[w].hide THEN [slicer[s] EXCEPT !.active = FALSE]
               ELSE slicer[s]]
  <2>1. IsTable(updated, Id, SlicerRecord)
    <3>1. ASSUME NEW s \in Slicers PROVE updated[s] \in SlicerRecord
      <4>1. slicer[s] \in SlicerRecord
        BY DEF Inv, TypeOK, TablesTypeOK, IsTable, Slicers
      <4> QED BY <4>1 DEF SlicerRecord
    <3> QED BY <3>1 DEF IsTable, Inv, TypeOK, TablesTypeOK, Slicers
  <2>2. NewRows(req[w]) \subseteq SlicerRecord
    <3>1. req[w].id \in AccountId /\ req[w].create \subseteq Name
      BY <1>4 DEF Inv, RequestsOK, RequestOK, SyncCommit, At, Syncs, Commits
    <3>2. ASSUME NEW n \in req[w].create
          PROVE  [account |-> req[w].id, name |-> n, active |-> TRUE, manual |-> FALSE] \in SlicerRecord
      BY <3>1 DEF SlicerRecord
    <3> QED BY <3>2 DEF NewRows
  <2>3. \/ slicer' = updated
        \/ \E n \in Id : slicer' \in InsertedAll(updated, n, NewRows(req[w]))
    BY <1>4 DEF SyncCommit, NewId
  <2>4. DOMAIN slicer' \subseteq Id
    BY <1>4 DEF SyncCommit, Slicers
  <2> HIDE DEF updated
  <2>5. IsTable(slicer', Id, SlicerRecord)
    BY <2>1, <2>2, <2>3, <2>4, InsertedAllType
  <2>6. TablesTypeOK'
    BY <1>4, <2>5 DEF SyncCommit, Inv, TypeOK, TablesTypeOK
  <2> QED BY <1>4, <2>6, OverInv DEF SyncCommit, At, Serving
<1> QED BY <1>1, <1>2, <1>3, <1>4

LEMMA SlicerFormsInv ==
  ASSUME Inv, NEW w \in Worker,
         \/ BeginNewSlicer(w) \/ NewSlicer(w) \/ BeginEditSlicer(w) \/ EditSlicer(w)
         \/ BeginDeleteSlicer(w) \/ DeleteSlicer(w)
  PROVE  Inv'
<1>1. /\ \A u \in Users : u \in Id
      /\ \A a \in Accounts : a \in AccountId
  BY DEF Inv, TypeOK, TablesTypeOK, IsTable, Users, Accounts
<1>2. CASE BeginNewSlicer(w)
  <2>1. PICK actor \in Users, a \in Accounts, n \in Name :
          BeginAdmin(w, Change("new_slicer", actor, a, n))
    BY <1>2 DEF BeginNewSlicer
  <2>2. RequestOK(Change("new_slicer", actor, a, n))
    BY <1>1, ChangeFields DEF RequestOK, Serving, Commits, Syncs, RequestAt
  <2> QED BY <2>1, <2>2, BeginInv DEF BeginAdmin
<1>3. CASE BeginEditSlicer(w)
  <2>1. PICK actor \in Users, s \in Slicers, a \in Accounts, n \in Name :
          BeginAdmin(w, Change("edit_slicer", actor, s,
            [from |-> <<slicer[s].account, slicer[s].name>>, to |-> <<a, n>>]))
    BY <1>3 DEF BeginEditSlicer
  <2> DEFINE value == [from |-> <<slicer[s].account, slicer[s].name>>, to |-> <<a, n>>]
  <2>2. value.to[1] \in AccountId /\ value.to[2] \in Name
    BY <1>1
  <2> HIDE DEF value
  <2>3. RequestOK(Change("edit_slicer", actor, s, value))
    BY <1>1, <2>2, ChangeFields DEF RequestOK, Serving, Commits, Syncs, RequestAt
  <2> QED BY <2>1, <2>3, BeginInv DEF BeginAdmin, value
<1>4. CASE BeginDeleteSlicer(w)
  <2>1. PICK actor \in Users, s \in Slicers : BeginAdmin(w, Change("delete_slicer", actor, s, Null))
    BY <1>4 DEF BeginDeleteSlicer
  <2>2. RequestOK(Change("delete_slicer", actor, s, Null))
    BY <1>1, PlainChangeOK
  <2> QED BY <2>1, <2>2, BeginInv DEF BeginAdmin
<1>5. CASE NewSlicer(w)
  <2> DEFINE new == [account |-> req[w].id, name |-> req[w].value, active |-> TRUE, manual |-> TRUE]
  <2>1. PICK n \in Id : slicer' = Insert(slicer, n, new)
    BY <1>5 DEF NewSlicer, NewId
  <2>2. new \in SlicerRecord
    BY <1>5 DEF SlicerRecord, Inv, RequestsOK, RequestOK, NewSlicer, At, Commits
  <2> HIDE DEF new
  <2>3. TablesTypeOK'
    BY <1>5, <2>1, <2>2, InsertType DEF NewSlicer, Inv, TypeOK, TablesTypeOK
  <2> QED BY <1>5, <2>3, OverInv DEF NewSlicer, At, Serving
<1>6. CASE EditSlicer(w)
  <2> DEFINE s == req[w].id
             a == IF req[w].value.to[1] # req[w].value.from[1] THEN req[w].value.to[1] ELSE slicer[s].account
             n == IF req[w].value.to[2] # req[w].value.from[2] THEN req[w].value.to[2] ELSE slicer[s].name
  <2>1. slicer[s] \in SlicerRecord /\ s \in DOMAIN slicer
    BY <1>6 DEF EditSlicer, Slicers, Inv, TypeOK, TablesTypeOK, IsTable
  <2>2. a \in AccountId /\ n \in Name
    BY <1>6, <2>1 DEF SlicerRecord, Inv, RequestsOK, RequestOK, EditSlicer, At, Commits
  <2>4. slicer' = [slicer EXCEPT ![s] = [slicer[s] EXCEPT !.account = a, !.name = n]]
    BY <1>6 DEF EditSlicer
  <2> HIDE DEF s, a, n
  <2>5. [slicer[s] EXCEPT !.account = a, !.name = n] \in SlicerRecord
    BY <2>1, <2>2 DEF SlicerRecord
  <2>6. TablesTypeOK'
    <3>1. IsTable(slicer, Id, SlicerRecord)
      BY DEF Inv, TypeOK, TablesTypeOK
    <3>2. IsTable(slicer', Id, SlicerRecord)
      BY <2>4, <2>5, <3>1, ReplaceType
    <3>3. UNCHANGED <<account, user, assigned, star, audit, log>>
      BY <1>6 DEF EditSlicer
    <3> QED BY <3>2, <3>3 DEF Inv, TypeOK, TablesTypeOK
  <2> QED BY <1>6, <2>6, OverInv DEF EditSlicer, At, Serving
<1>7. CASE DeleteSlicer(w)
  <2>1. TablesTypeOK'
    BY <1>7, DeleteSlicersType DEF DeleteSlicer, Inv, TypeOK
  <2> QED BY <1>7, <2>1, OverInv DEF DeleteSlicer, At, Serving
<1> QED BY <1>2, <1>3, <1>4, <1>5, <1>6, <1>7

LEMMA EndsInv ==
  ASSUME Inv, NEW w \in Worker, Log(w) \/ Abandon(w) \/ BootCount(w) \/ BootAdd(w)
  PROVE  Inv'
<1>1. CASE Log(w)
  <2>1. [actor |-> req[w].actor] \in LogRow
    BY <1>1 DEF Log, LogRow, Inv, RequestsOK, RequestOK, Serving
  <2>2. log' \subseteq LogRow
    BY <1>1, <2>1, KeepType DEF Log, Inv, TypeOK, TablesTypeOK
  <2>3. TablesTypeOK'
    BY <1>1, <2>2 DEF Log, Inv, TypeOK, TablesTypeOK
  <2> QED BY <1>1, <2>3, IdleOK, RequestUpdate DEF Log, Inv, TypeOK
<1>2. CASE Abandon(w) \/ BootCount(w)
  <2>1. PICK r \in {Idle, Booting, [at |-> "bootadd"]} : req' = [req EXCEPT ![w] = r]
    BY <1>2 DEF Abandon, BootCount
  <2>2. TablesTypeOK'
    BY <1>2 DEF Abandon, BootCount, tables, Inv, TypeOK, TablesTypeOK
  <2> QED BY <2>1, <2>2, IdleOK, RequestUpdate DEF Inv, TypeOK
<1>3. CASE BootAdd(w)
  <2>1. BootRow \in UserRow
    BY TablesAssumption DEF BootRow, UserRow
  <2>2. user' = user \/ \E n \in Id : user' = Insert(user, n, BootRow)
    BY <1>3 DEF BootAdd, NewId
  <2>3. IsTable(user', Id, UserRow)
    BY <2>1, <2>2, InsertType DEF Inv, TypeOK, TablesTypeOK
  <2>4. TablesTypeOK'
    BY <1>3, <2>3 DEF BootAdd, Inv, TypeOK, TablesTypeOK
  <2> QED BY <1>3, <2>4, IdleOK, RequestUpdate DEF BootAdd, Inv, TypeOK
<1> QED BY <1>1, <1>2, <1>3

LEMMA UserFormsInv ==
  ASSUME Inv, NEW w \in Worker,
         \/ BeginNewUser(w) \/ NewUser(w) \/ BeginEditUser(w) \/ EditUser(w)
         \/ BeginDeleteUser(w) \/ DeleteUserCommit(w)
  PROVE  Inv'
<1>1. \A u \in Users : u \in Id
  BY DEF Inv, TypeOK, TablesTypeOK, IsTable, Users
<1>2. CASE BeginNewUser(w)
  <2>1. PICK actor \in Users, p \in Person, admin \in BOOLEAN :
          BeginAdmin(w, Change("new_user", actor, Null, [person |-> p, admin |-> admin]))
    BY <1>2 DEF BeginNewUser
  <2> DEFINE value == [person |-> p, admin |-> admin]
  <2>2. value \in UserRow
    BY DEF UserRow
  <2> HIDE DEF value
  <2>3. RequestOK(Change("new_user", actor, Null, value))
    BY <1>1, <2>2, ChangeFields DEF RequestOK, Serving, Commits, Syncs, RequestAt
  <2> QED BY <2>1, <2>3, BeginInv DEF BeginAdmin, value
<1>3. CASE BeginEditUser(w)
  <2>1. PICK actor \in Users, u \in Users, p \in Person, admin \in BOOLEAN :
          /\ u = actor => admin
          /\ BeginAdmin(w, Change("edit_user", actor, u,
               [from |-> user[u], to |-> [person |-> p, admin |-> admin]]))
    BY <1>3 DEF BeginEditUser, MaySetAdmin
  <2> DEFINE value == [from |-> user[u], to |-> [person |-> p, admin |-> admin]]
  <2>2. value.to \in UserRow /\ value.to.admin = admin
    BY DEF UserRow
  <2> HIDE DEF value
  <2>3. RequestOK(Change("edit_user", actor, u, value))
    BY <1>1, <2>1, <2>2, ChangeFields DEF RequestOK, Serving, Commits, Syncs, RequestAt
  <2> QED BY <2>1, <2>3, BeginInv DEF BeginAdmin, value
<1>4. CASE BeginDeleteUser(w)
  <2>1. PICK actor \in Users, u \in Users :
          u # actor /\ BeginAdmin(w, Change("delete_user", actor, u, Null))
    BY <1>4 DEF BeginDeleteUser
  <2>2. RequestOK(Change("delete_user", actor, u, Null))
    BY <1>1, <2>1, ChangeFields DEF RequestOK, Serving, Commits, Syncs, RequestAt
  <2> QED BY <2>1, <2>2, BeginInv DEF BeginAdmin
<1>5. CASE NewUser(w)
  <2>1. PICK n \in Id : user' = Insert(user, n, req[w].value)
    BY <1>5 DEF NewUser, NewId
  <2>2. req[w].value \in UserRow
    BY <1>5 DEF Inv, RequestsOK, RequestOK, NewUser, At, Commits
  <2>3. TablesTypeOK'
    BY <1>5, <2>1, <2>2, InsertType DEF NewUser, Inv, TypeOK, TablesTypeOK
  <2> QED BY <1>5, <2>3, OverInv DEF NewUser, At, Serving
<1>6. CASE EditUser(w)
  <2> DEFINE row == Edited(user[req[w].id], req[w].value.from, req[w].value.to)
  <2>1. user' = [user EXCEPT ![req[w].id] = row]
    BY <1>6 DEF EditUser
  <2>2. user[req[w].id] \in UserRow /\ req[w].value.to \in UserRow
    BY <1>6 DEF EditUser, Users, Inv, TypeOK, TablesTypeOK, IsTable,
       RequestsOK, RequestOK, At, Commits
  <2>3. row \in UserRow
    BY <2>2 DEF Edited, UserRow
  <2> HIDE DEF row
  <2>4. IsTable(user', Id, UserRow)
    BY <2>1, <2>3, ReplaceType DEF Inv, TypeOK, TablesTypeOK
  <2>5. TablesTypeOK'
    BY <1>6, <2>4 DEF EditUser, Inv, TypeOK, TablesTypeOK
  <2> QED BY <1>6, <2>5, OverInv DEF EditUser, At, Serving
<1>7. CASE DeleteUserCommit(w)
  <2>1. IsTable(user', Id, UserRow)
    BY <1>7, WithoutType DEF DeleteUserCommit, DeleteUser, Inv, TypeOK, TablesTypeOK
  <2>2. assigned' \subseteq Pair
    BY <1>7 DEF DeleteUserCommit, DeleteUser, Inv, TypeOK, TablesTypeOK
  <2>3. ASSUME NEW e \in audit
        PROVE  [e EXCEPT !.user = IF @ = req[w].id THEN Null ELSE @] \in AuditRow
    BY <2>3 DEF Inv, TypeOK, TablesTypeOK, AuditRow
  <2>4. audit' \subseteq AuditRow
    BY <1>7, <2>3 DEF DeleteUserCommit, DeleteUser
  <2>5. TablesTypeOK'
    BY <1>7, <2>1, <2>2, <2>4 DEF DeleteUserCommit, Inv, TypeOK, TablesTypeOK
  <2> QED BY <1>7, <2>5, OverInv DEF DeleteUserCommit, At, Serving
<1> QED BY <1>2, <1>3, <1>4, <1>5, <1>6, <1>7

LEMMA AssignInv ==
  ASSUME Inv, NEW w \in Worker, BeginAssign(w) \/ AssignLoad(w) \/ Assign(w)
  PROVE  Inv'
<1>1. CASE BeginAssign(w)
  <2>1. PICK actor \in Users, u \in Users, ticked \in SUBSET Listed :
          BeginAdmin(w, [at |-> "offered", kind |-> "assign", actor |-> actor,
                         id |-> u, ticked |-> ticked,
                         unpaused |-> {slicer[s].account : s \in Listed}])
    BY <1>1 DEF BeginAssign
  <2> DEFINE unpaused == {slicer[s].account : s \in Listed}
  <2>2. actor \in Id /\ u \in Id /\ ticked \subseteq Id
    BY DEF Inv, TypeOK, TablesTypeOK, IsTable, Users, Listed, Slicers
  <2> HIDE DEF unpaused
  <2>3. RequestOK([at |-> "offered", kind |-> "assign", actor |-> actor,
                   id |-> u, ticked |-> ticked, unpaused |-> unpaused])
    BY <2>2 DEF RequestOK, Serving, Commits, Syncs, RequestAt
  <2> QED BY <2>1, <2>3, BeginInv DEF BeginAdmin, unpaused
<1>2. CASE AssignLoad(w)
  <2> DEFINE was == AssignedTo(req[w].id) \cap Slicers
             list == req[w].ticked \cup Kept(req[w])
             r == [at |-> "commit", kind |-> "assign", actor |-> req[w].actor, id |-> req[w].id,
                   drop |-> was \ list, add |-> list \ was]
  <2>1. req' = [req EXCEPT ![w] = r]
    BY <1>2 DEF AssignLoad
  <2>2. req[w].actor \in Id /\ req[w].id \in Id /\ req[w].ticked \subseteq Id
    BY <1>2 DEF Inv, RequestsOK, RequestOK, AssignLoad, At, Serving
  <2>3. list \subseteq Id
    BY <2>2 DEF Kept, Slicers, Inv, TypeOK, TablesTypeOK, IsTable
  <2> HIDE DEF was, list
  <2>4. RequestOK(r)
    BY <2>2, <2>3 DEF RequestOK, Serving, Commits, Syncs, RequestAt
  <2>5. TablesTypeOK'
    BY <1>2 DEF AssignLoad, tables, Inv, TypeOK, TablesTypeOK
  <2> QED BY <2>1, <2>4, <2>5, RequestUpdate DEF Inv, TypeOK
<1>3. CASE Assign(w)
  <2>1. req[w].id \in Id /\ req[w].add \subseteq Id
    BY <1>3 DEF Inv, RequestsOK, RequestOK, Assign, At, Commits
  <2>2. assigned' \subseteq assigned \cup {[user |-> req[w].id, slicer |-> s] : s \in req[w].add}
    BY <1>3 DEF Assign
  <2>3. \A s \in req[w].add : [user |-> req[w].id, slicer |-> s] \in Pair
    BY <2>1 DEF Pair
  <2>4. assigned' \subseteq Pair
    BY <2>2, <2>3 DEF Inv, TypeOK, TablesTypeOK
  <2>5. TablesTypeOK'
    BY <1>3, <2>4 DEF Assign, Inv, TypeOK, TablesTypeOK
  <2> QED BY <1>3, <2>5, OverInv DEF Assign, At, Serving
<1> QED BY <1>1, <1>2, <1>3

LEMMA UseInv ==
  ASSUME Inv, NEW w \in Worker,
         BeginStar(w) \/ ToggleStar(w) \/ BeginControl(w) \/ RecordControl(w)
  PROVE  Inv'
<1>1. (\A u \in Users : u \in Id) /\ (\A s \in Slicers : s \in Id)
  BY DEF Inv, TypeOK, TablesTypeOK, IsTable, Users, Slicers
<1>2. ASSUME NEW kind \in {"star", "control"}, NEW u \in Users, NEW s \in Slicers, NEW value,
             Begin(w, Change(kind, u, s, value))
      PROVE  Inv'
  <2>1. RequestOK(Change(kind, u, s, value))
    BY <1>1, ChangeFields DEF RequestOK, Serving, Commits, Syncs, RequestAt
  <2> QED BY <1>2, <2>1, BeginInv
<1>3. CASE BeginStar(w) \/ BeginControl(w)
  BY <1>2, <1>3 DEF BeginStar, BeginControl
<1>4. CASE ToggleStar(w)
  <2>1. [user |-> req[w].actor, slicer |-> req[w].id] \in Pair
    BY <1>4 DEF Pair, Inv, RequestsOK, RequestOK, ToggleStar, At, Serving, Commits
  <2>2. star' \subseteq star \/ star' = Keep(star, [user |-> req[w].actor, slicer |-> req[w].id])
    BY <1>4 DEF ToggleStar
  <2>3. star' \subseteq Pair
    BY <2>1, <2>2, KeepType DEF Inv, TypeOK, TablesTypeOK
  <2>4. TablesTypeOK'
    BY <1>4, <2>3 DEF ToggleStar, Inv, TypeOK, TablesTypeOK
  <2> QED BY <1>4, <2>4, IdleOK, RequestUpdate DEF ToggleStar, Inv, TypeOK
<1>5. CASE RecordControl(w)
  <2>1. [user |-> req[w].actor, slicer |-> req[w].id] \in AuditRow
    BY <1>5 DEF AuditRow, Inv, RequestsOK, RequestOK, RecordControl, At, Serving, Commits
  <2>2. audit' \subseteq AuditRow
    BY <1>5, <2>1, KeepType DEF RecordControl, Inv, TypeOK, TablesTypeOK
  <2>3. TablesTypeOK'
    BY <1>5, <2>2 DEF RecordControl, Inv, TypeOK, TablesTypeOK
  <2> QED BY <1>5, <2>3, IdleOK, RequestUpdate DEF RecordControl, Inv, TypeOK
<1> QED BY <1>3, <1>4, <1>5

LEMMA InvInit == Init => Inv
<1> SUFFICES ASSUME Init PROVE Inv
  OBVIOUS
<1>1. TablesTypeOK
  BY DEF Init, NoRows, EmptyTable, TablesTypeOK, IsTable
<1>2. req = [w \in Worker |-> Booting]
  BY DEF Init
<1> QED BY <1>1, <1>2, IdleOK DEF Inv, TypeOK, RequestsOK, RequestOK

LEMMA InvStep == Inv /\ [Next]_vars => Inv'
<1> SUFFICES ASSUME Inv, [Next]_vars PROVE Inv'
  OBVIOUS
<1>1. CASE UNCHANGED vars
  BY <1>1 DEF vars, tables, Inv, TypeOK, TablesTypeOK, RequestsOK
<1>2. ASSUME NEW w \in Worker, AccountsStep(w) PROVE Inv'
  BY <1>2, AccountFormsInv, SyncInv, SlicerFormsInv, EndsInv DEF AccountsStep
<1>3. ASSUME NEW w \in Worker, AccessStep(w) PROVE Inv'
  BY <1>3, UserFormsInv, AssignInv, UseInv, EndsInv DEF AccessStep
<1> QED BY <1>1, <1>2, <1>3 DEF Next

LEMMA Invariance == Spec => []Inv
BY InvInit, InvStep, PTL DEF Spec

\* Whatever requests overlap or are killed, the tables keep their types, and a
\* request is at one of its steps.
THEOREM TypeCorrect == Spec => []TypeOK
<1>1. Inv => TypeOK
  BY DEF Inv
<1> QED BY <1>1, Invariance, PTL

-----------------------------------------------------------------------------
(* What overlapping requests can not do.                                   *)

\* A step is of one worker, and leaves what the others are doing.
LEMMA StepOfOne ==
  ASSUME Inv, NEW w \in Worker, AccountsStep(w) \/ AccessStep(w)
  PROVE  \A v \in Worker \ {w} : req'[v] = req[v]
<1>1. \E r : req' = [req EXCEPT ![w] = r]
  <2>1. CASE \/ BeginNewAccount(w) \/ BeginEditAccount(w) \/ BeginDeleteAccount(w)
             \/ BeginPause(w) \/ BeginSync(w) \/ BeginNewSlicer(w) \/ BeginEditSlicer(w)
             \/ BeginDeleteSlicer(w)
    BY <2>1 DEF BeginNewAccount, BeginEditAccount, BeginDeleteAccount, BeginPause,
       BeginSync, BeginNewSlicer, BeginEditSlicer, BeginDeleteSlicer, BeginAdmin, Begin
  <2>2. CASE \/ BeginNewUser(w) \/ BeginEditUser(w) \/ BeginDeleteUser(w) \/ BeginAssign(w)
             \/ BeginStar(w) \/ BeginControl(w)
    BY <2>2 DEF BeginNewUser, BeginEditUser, BeginDeleteUser, BeginAssign,
       BeginStar, BeginControl, BeginAdmin, Begin
  <2>3. CASE SyncListed(w) \/ SyncRead(w) \/ AssignLoad(w) \/ BootCount(w) \/ BootAdd(w)
             \/ Log(w) \/ Abandon(w) \/ ToggleStar(w) \/ RecordControl(w)
    BY <2>3 DEF SyncListed, SyncRead, AssignLoad, BootCount, BootAdd, Log, Abandon,
       ToggleStar, RecordControl, Over
  <2>4. CASE \/ NewAccount(w) \/ EditAccount(w) \/ DeleteAccount(w) \/ Pause(w)
             \/ SyncCommit(w) \/ NewSlicer(w) \/ EditSlicer(w) \/ DeleteSlicer(w)
             \/ NewUser(w) \/ EditUser(w) \/ DeleteUserCommit(w) \/ Assign(w)
    <3>1. Over(w)
      BY <2>4 DEF NewAccount, EditAccount, DeleteAccount, Pause, SyncCommit, NewSlicer,
         EditSlicer, DeleteSlicer, NewUser, EditUser, DeleteUserCommit, Assign
    <3> QED BY <3>1 DEF Over
  <2> QED BY <2>1, <2>2, <2>3, <2>4 DEF AccountsStep, AccessStep
<1> QED BY <1>1 DEF Inv, TypeOK

\* Only SyncCommit ends a Sync that is about to commit with an admin event.
LEMMA SyncCommitsIs ==
  ASSUME Inv, Next, NEW w \in Worker, SyncCommits(w)
  PROVE  SyncCommit(w)
<1>1. PICK v \in Worker : AccountsStep(v) \/ AccessStep(v)
  BY DEF Next
<1>2. req[w].at = "commit" /\ req[w].kind = "sync" /\ req'[w].at = "log"
  BY DEF SyncCommits, At
<1>3. v = w
  BY <1>1, <1>2, StepOfOne
<1>4. ~Abandon(w)
  BY <1>2 DEF Abandon, Idle, Booting, Inv, TypeOK
<1>5. \/ SyncCommit(w)
      \/ req[w] = Idle \/ req[w].at # "commit" \/ req[w].kind # "sync"
  <2>1. CASE AccountsStep(w)
    BY <2>1, <1>4 DEF AccountsStep, At,
       BeginNewAccount, NewAccount, BeginEditAccount, EditAccount, BeginDeleteAccount,
       DeleteAccount, BeginPause, Pause, BeginSync, SyncListed, SyncRead, BeginNewSlicer,
       NewSlicer, BeginEditSlicer, EditSlicer, BeginDeleteSlicer, DeleteSlicer, Log,
       BeginAdmin, Begin
  <2>2. CASE AccessStep(w)
    BY <2>2 DEF AccessStep, At, BootCount, BootAdd, BeginNewUser, NewUser, BeginEditUser,
       EditUser, BeginDeleteUser, DeleteUserCommit, BeginAssign, AssignLoad, Assign,
       BeginStar, ToggleStar, BeginControl, RecordControl, BeginAdmin, Begin
  <2> QED BY <1>1, <1>3, <2>1, <2>2
<1> QED BY <1>2, <1>5 DEF Idle

\* The steps that write users: a table that had an admin keeps one, unless somebody
\* who is not an admin any more commits a user form.
LEMMA UserStepsKeepAdmin ==
  ASSUME Inv, NEW w \in Worker, AdminLeft, ~AdminLeft',
         BootAdd(w) \/ NewUser(w) \/ EditUser(w) \/ DeleteUserCommit(w)
  PROVE  /\ req'[w] # req[w] /\ req[w].at = "commit" /\ ~IsAdmin(req[w].actor)
         /\ req[w].kind \in {"new_user", "edit_user", "delete_user"}
<1>1. \A u \in Users' : ~user'[u].admin
  BY DEF AdminLeft
<1>2. Users' # {}
  BY DEF AdminLeft
<1>3. ASSUME NEW n \in Id, NEW row, n \in NewId(user, Id), user' = Insert(user, n, row)
      PROVE  Users = {} /\ ~row.admin
  <2>1. n \notin Users
    BY <1>3 DEF NewId, Users, Id
  <2>2. n \in Users' /\ user'[n] = row
    BY <1>3 DEF Insert, Users
  <2>3. \A u \in Users : u \in Users' /\ user'[u] = user[u]
    BY <1>3, <2>1 DEF Insert, Users
  <2> QED BY <1>1, <2>2, <2>3 DEF AdminLeft
<1>4. ~BootAdd(w)
  <2> SUFFICES ASSUME BootAdd(w) PROVE FALSE
    OBVIOUS
  <2>1. CASE EmailFree(Boot, {})
    <3>1. PICK n \in NewId(user, Id) : user' = Insert(user, n, BootRow)
      BY <2>1 DEF BootAdd
    <3>2. ~BootRow.admin
      BY <1>3, <3>1 DEF NewId
    <3> QED BY <3>2 DEF BootRow
  <2>2. CASE user' = user
    BY <2>2, <1>1, <1>2 DEF AdminLeft, Users
  <2> QED BY <2>1, <2>2 DEF BootAdd
<1>5. ASSUME Over(w), req[w].at = "commit" PROVE req'[w] # req[w]
  BY <1>5 DEF Over, Logging, Inv, TypeOK
<1>6. CASE NewUser(w)
  <2>1. PICK n \in NewId(user, Id) : user' = Insert(user, n, req[w].value)
    BY <1>6 DEF NewUser
  <2>2. Users = {}
    BY <1>3, <2>1 DEF NewId
  <2> QED BY <1>5, <1>6, <2>2 DEF NewUser, At, IsAdmin
<1>7. CASE EditUser(w)
  <2>1. ~IsAdmin(req[w].actor)
    <3> SUFFICES ASSUME IsAdmin(req[w].actor) PROVE FALSE
      OBVIOUS
    <3>1. req[w].id = req[w].actor => req[w].value.to.admin
      BY <1>7 DEF EditUser, At, Inv, RequestsOK, RequestOK, Commits
    <3>2. user' = [user EXCEPT ![req[w].id] =
                     Edited(user[req[w].id], req[w].value.from, req[w].value.to)]
      BY <1>7 DEF EditUser
    <3>3. user[req[w].actor].admin /\ req[w].actor \in DOMAIN user
      BY DEF IsAdmin, Users
    <3>4. req[w].actor \in Users' /\ user'[req[w].actor].admin
      BY <3>1, <3>2, <3>3 DEF Users, Edited
    <3> QED BY <1>1, <3>4
  <2> QED BY <1>5, <1>7, <2>1 DEF EditUser, At
<1>8. CASE DeleteUserCommit(w)
  <2>1. ~IsAdmin(req[w].actor)
    <3> SUFFICES ASSUME IsAdmin(req[w].actor) PROVE FALSE
      OBVIOUS
    <3>1. req[w].id # req[w].actor
      BY <1>8 DEF DeleteUserCommit, At, Inv, RequestsOK, RequestOK, Commits
    <3>2. req[w].actor \in Users' /\ user'[req[w].actor] = user[req[w].actor]
      BY <1>8, <3>1 DEF DeleteUserCommit, DeleteUser, Without, Restrict, IsAdmin, Users
    <3> QED BY <1>1, <3>2 DEF IsAdmin
  <2> QED BY <1>5, <1>8, <2>1 DEF DeleteUserCommit, At
<1> QED BY <1>4, <1>6, <1>7, <1>8

\* No other step writes users.
LEMMA OtherStepsKeepUsers ==
  ASSUME NEW w \in Worker, AccountsStep(w) \/ AccessStep(w),
         ~BootAdd(w), ~NewUser(w), ~EditUser(w), ~DeleteUserCommit(w)
  PROVE  user' = user
<1>1. CASE AccountsStep(w)
  BY <1>1 DEF AccountsStep, tables,
     BeginNewAccount, NewAccount, BeginEditAccount, EditAccount, BeginDeleteAccount,
     DeleteAccount, BeginPause, Pause, BeginSync, SyncListed, SyncRead, SyncCommit,
     BeginNewSlicer, NewSlicer, BeginEditSlicer, EditSlicer, BeginDeleteSlicer,
     DeleteSlicer, Log, Abandon, BeginAdmin, Begin
<1>2. CASE AccessStep(w)
  BY <1>2 DEF AccessStep, tables, BootCount, BeginNewUser, BeginEditUser, BeginDeleteUser,
     BeginAssign, AssignLoad, Assign, BeginStar, ToggleStar, BeginControl, RecordControl,
     BeginAdmin, Begin
<1> QED BY <1>1, <1>2

\* An admin who commits a user form stays one; so the last admin only goes when two
\* admins' requests overlap.
THEOREM LastAdminGoesRaced == Spec => LastAdminRaced
<1>1. ASSUME Inv, [Next]_vars
      PROVE  [AdminLeft /\ ~AdminLeft' =>
                \E w \in Worker :
                  req'[w] # req[w] /\ req[w].at = "commit" /\ ~IsAdmin(req[w].actor)]_vars
  <2> SUFFICES ASSUME vars' # vars, AdminLeft, ~AdminLeft'
               PROVE  \E w \in Worker :
                        req'[w] # req[w] /\ req[w].at = "commit" /\ ~IsAdmin(req[w].actor)
    OBVIOUS
  <2>1. PICK w \in Worker : AccountsStep(w) \/ AccessStep(w)
    BY <1>1 DEF Next
  <2>2. user' # user
    BY DEF AdminLeft, Users
  <2>3. BootAdd(w) \/ NewUser(w) \/ EditUser(w) \/ DeleteUserCommit(w)
    BY <2>1, <2>2, OtherStepsKeepUsers
  <2> QED BY <1>1, <2>3, UserStepsKeepAdmin
<1> QED BY <1>1, Invariance, PTL DEF Spec, LastAdminRaced
=============================================================================
