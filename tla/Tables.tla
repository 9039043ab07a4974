------------------------------- MODULE Tables -------------------------------
(***************************************************************************)
(* The console's database (app/models.py) as the requests that manage      *)
(* accounts, slicers and users see it: which rows there are, and which     *)
(* rows refer to which.  SlicerRow and ConfigCapture are about what one    *)
(* row of "slicers" holds.                                                 *)
(*                                                                         *)
(* A primary key is SQLite's rowid: a new row takes the number after the   *)
(* highest one in use, so the number of the newest row is used again once  *)
(* that row is deleted.  SQLite enforces foreign keys only when asked to,  *)
(* and nothing asks: the ON DELETE rules of the schema do nothing, and     *)
(* what happens to the rows that refer to a deleted one is what the ORM's  *)
(* relationships do.                                                       *)
(***************************************************************************)
EXTENDS Naturals, FiniteSets, Functions

CONSTANTS Name,         \* slicer ids at Uplynk
          Person,       \* e-mail addresses
          Boot,         \* the one of the bootstrap admin
          MaxId,        \* bound: row numbers of slicers and of users
          MaxAccount,   \* bound: row numbers of accounts
          MaxRows       \* bound: rows of stars and of both logs, together

ASSUME TablesAssumption ==
    /\ IsFiniteSet(Name)
    /\ Boot \in Person
    /\ {MaxId, MaxAccount} \subseteq Nat \ {0}
    /\ MaxRows \in Nat

VARIABLES account, slicer, user,
          assigned,     \* user_slicers
          star,         \* slicer_stars
          audit,        \* audit_events
          log           \* admin_events

tables == <<account, slicer, user, assigned, star, audit, log>>

Null == 0                       \* a foreign key that is NULL

AccountId == 1..MaxAccount
Id == 1..MaxId

AccountRow == [keyed : BOOLEAN, paused : BOOLEAN]

SlicerRecord == [account : AccountId, name : Name, active : BOOLEAN, manual : BOOLEAN]

UserRow == [person : Person, admin : BOOLEAN]

Pair == [user : Id, slicer : Id]

AuditRow == [user : Id \cup {Null}, slicer : Id \cup {Null}]

LogRow == [actor : Id]

\* A table maps the numbers of its rows to the rows.
IsTable(table, ids, rows) == DOMAIN table \subseteq ids /\ table \in [DOMAIN table -> rows]

TablesTypeOK ==
    /\ IsTable(account, AccountId, AccountRow)
    /\ IsTable(slicer, Id, SlicerRecord)
    /\ IsTable(user, Id, UserRow)
    /\ assigned \subseteq Pair
    /\ star \subseteq Pair
    /\ audit \subseteq AuditRow
    /\ log \subseteq LogRow

\* Before the first worker has started; migrations have made the tables.
EmptyTable == [i \in {} |-> Null]

NoRows ==
    /\ account = EmptyTable /\ slicer = EmptyTable /\ user = EmptyTable
    /\ assigned = {} /\ star = {} /\ audit = {} /\ log = {}

-----------------------------------------------------------------------------
(* Rows.                                                                   *)

Accounts == DOMAIN account
Slicers == DOMAIN slicer
Users == DOMAIN user

\* The number a new row takes, where it is within the bound.
NewId(table, bound) ==
    {n \in bound : /\ \A i \in DOMAIN table : i < n
                   /\ n = 1 \/ n - 1 \in DOMAIN table}

Insert(table, n, row) ==
    [i \in DOMAIN table \cup {n} |-> IF i = n THEN row ELSE table[i]]

Without(table, ids) == Restrict(table, DOMAIN table \ ids)

\* Several rows at once, numbered from n: the tables there can be, for some order
\* of the rows.
InsertedAll(table, n, rows) ==
    LET new == n..(n + Cardinality(rows) - 1)
    IN  {[i \in DOMAIN table \cup new |-> IF i \in new THEN order[i] ELSE table[i]] :
           order \in {o \in [new -> rows] : Range(o) = rows}}

\* A new star or log row; past the bound it is not kept.
Keep(table, row) ==
    IF Cardinality(star) + Cardinality(audit) + Cardinality(log) < MaxRows
    THEN table \cup {row} ELSE table

SlicersOf(a) == {s \in Slicers : slicer[s].account = a}

\* Queries that join the accounts leave out what is paused.
OnUnpaused(s) == slicer[s].account \in Accounts /\ ~account[slicer[s].account].paused

Listed == {s \in Slicers : slicer[s].active /\ OnUnpaused(s)}

AssignedTo(u) == {p.slicer : p \in {q \in assigned : q.user = u}}

\* The constraint uq_account_slicer.
KeyFree(a, name, except) ==
    ~\E s \in Slicers \ except : slicer[s].account = a /\ slicer[s].name = name

\* Admins can control any active slicer, others only those assigned to them,
\* and nobody a slicer of a paused account.
CanControl(u, s) ==
    /\ slicer[s].active /\ OnUnpaused(s)
    /\ user[u].admin \/ [user |-> u, slicer |-> s] \in assigned

-----------------------------------------------------------------------------
(* What the ORM does when a row is deleted.                                *)

\* Mutant: the rows that refer to the slicer are left to the foreign keys.
DeleteSlicersOnly(ids) ==
    /\ slicer' = Without(slicer, ids)
    /\ UNCHANGED <<assigned, audit>>

\* Mutant: without the cascade of UplynkAccount.slicers the ORM clears what refers
\* to the account and keeps the row.
DeleteSlicersCleared(ids) ==
    /\ slicer' = [s \in Slicers |-> IF s \in ids THEN [slicer[s] EXCEPT !.account = Null]
                                   ELSE slicer[s]]
    /\ UNCHANGED <<assigned, audit>>

\* A slicer's assignments go with it and its audit rows stay, without it.  No
\* relationship knows of the stars.
DeleteSlicers(ids) ==
    /\ slicer' = Without(slicer, ids)
    /\ assigned' = {p \in assigned : p.slicer \notin ids}
    /\ audit' = {[e EXCEPT !.slicer = IF @ \in ids THEN Null ELSE @] : e \in audit}

\* The same for a user.  What the user did as an admin keeps the number.
DeleteUser(u) ==
    /\ user' = Without(user, {u})
    /\ assigned' = {p \in assigned : p.user # u}
    /\ audit' = {[e EXCEPT !.user = IF @ = u THEN Null ELSE @] : e \in audit}
=============================================================================
