--------------------------- MODULE RequestBudget ---------------------------
(***************************************************************************)
(* The time a request of Slicer Updates takes: the passes it makes over    *)
(* the slicers (updates._run_all) or over the accounts (Sync all), each    *)
(* with a budget of its own, under gunicorn's limit for the whole request. *)
(*                                                                         *)
(* A pass hands its items, in order, to a pool of threads.  A thread that  *)
(* takes an item after the deadline reports it as out of time; otherwise   *)
(* it makes a call to Uplynk and, in an apply, a second one.  Time passes, *)
(* in seconds, only in these calls.  requests applies a call's timeout to  *)
(* connecting and again to waiting for the answer, so a call is two waits; *)
(* an answer that trickles in could take longer, and is not modelled.      *)
(***************************************************************************)
EXTENDS Naturals, Sequences, FiniteSets

CONSTANTS MaxItems,         \* bound: items of a pass
          Threads,          \* MAX_WORKERS
          NetworkBudget,    \* NETWORK_BUDGET_SECONDS, SYNC_ALL_BUDGET_SECONDS
          FetchTimeout, PatchTimeout, SyncTimeout,
          Limit             \* timeout in gunicorn.conf.py

ASSUME BudgetAssumption ==
    /\ MaxItems \in Nat /\ Threads \in Nat \ {0}
    /\ {NetworkBudget, FetchTimeout, PatchTimeout, SyncTimeout, Limit} \subseteq Nat

VARIABLES request,      \* what is asked for
          left,         \* the passes still to be made, the current one first
          now,          \* time since the worker took the request
          began,        \* when the current pass began
          count,        \* its items
          next,         \* those a thread has taken are 1..next
          call,         \* what became of each item
          over          \* whether the request is still served

vars == <<request, left, now, began, count, next, call, over>>

Item == 1..MaxItems

\* What a pass does to each item: read it, read it and maybe send a PATCH, or
\* sync the account.
PassKind == {"fetch", "apply", "sync"}

\* A line typed in a batch is first checked against the settings that differ.  A
\* review or an apply that is refused, or a review that finds nothing to send,
\* shows the Edit page again: settings, versions, plugins.
Passes ==
    [list   |-> <<"fetch">>,
     edit   |-> <<"fetch", "fetch", "fetch">>,
     review |-> <<"fetch">>,
     apply  |-> <<"apply">>,
     sync_all |-> <<"sync">>,
     review_typed |-> <<"fetch", "fetch">>,
     apply_typed  |-> <<"fetch", "apply">>,
     typed_locked     |-> <<"fetch", "fetch", "fetch", "fetch">>,
     review_unchanged |-> <<"fetch", "fetch", "fetch", "fetch">>,
     typed_unchanged  |-> <<"fetch", "fetch", "fetch", "fetch", "fetch">>]

ShowsEdit == {"edit", "typed_locked", "review_unchanged", "typed_unchanged"}

CallKind == {"queued", "fetch", "patch", "sync", "done", "out_of_time"}

Call == [at : CallKind, connected : BOOLEAN, due : Nat]

Idle(at) == [at |-> at, connected |-> FALSE, due |-> 0]

Timeout(at) ==
    IF at = "fetch" THEN FetchTimeout ELSE IF at = "patch" THEN PatchTimeout ELSE SyncTimeout

\* A call, or what is left of it once it is connected.
Calling(at, connected) == [at |-> at, connected |-> connected, due |-> now + Timeout(at)]

Busy == {i \in Item : call[i].at \in {"fetch", "patch", "sync"}}

TypeOK ==
    /\ request \in DOMAIN Passes
    /\ left \in Seq(PassKind)
    /\ now \in 0..Limit /\ began \in 0..now
    /\ count \in 0..MaxItems /\ next \in 0..count
    /\ call \in [Item -> Call]
    /\ over \in {"no", "answered", "killed"}

Init ==
    /\ request \in DOMAIN Passes
    /\ left = Passes[request]
    /\ now = 0 /\ began = 0
    /\ count \in 0..MaxItems /\ next = 0
    /\ call = [i \in Item |-> Idle("queued")]
    /\ over = "no"

-----------------------------------------------------------------------------

\* Sync all has no threads: one account after the other.
Width == IF Head(left) = "sync" THEN 1 ELSE Threads

\* Mutant: one item more than there are.
CanTakeOneMore == next =< count /\ Cardinality(Busy) < Width

CanTake == next < count /\ Cardinality(Busy) < Width

\* Mutant: the deadline is looked at when the items are handed to the pool.
LateAtSubmit == FALSE

\* Mutant: an item is out of time only where another still waits behind it.
LateUnlessLast == now > began + NetworkBudget /\ next + 1 < count

\* What a thread looks at when it takes an item.
Late == now > began + NetworkBudget

Take ==
    /\ over = "no" /\ CanTake
    /\ next' = next + 1
    /\ call' = [call EXCEPT ![next + 1] =
         IF Late THEN Idle("out_of_time")
         ELSE Calling(IF Head(left) = "sync" THEN "sync" ELSE "fetch", FALSE)]
    /\ UNCHANGED <<request, left, now, began, count, over>>

Connect(i) ==
    /\ over = "no" /\ i \in Busy
    /\ ~call[i].connected
    /\ call' = [call EXCEPT ![i] = Calling(@.at, TRUE)]
    /\ UNCHANGED <<request, left, now, began, count, next, over>>

\* An answer, an error or a timeout ends a call; after an answer an apply may go on
\* to the PATCH.
Answer(i) ==
    /\ over = "no" /\ i \in Busy
    /\ \/ call' = [call EXCEPT ![i] = Idle("done")]
       \/ /\ Head(left) = "apply" /\ call[i].at = "fetch" /\ call[i].connected
          /\ call' = [call EXCEPT ![i] = Calling("patch", FALSE)]
    /\ UNCHANGED <<request, left, now, began, count, next, over>>

Tick ==
    /\ over = "no" /\ now < Limit
    /\ Busy # {} /\ ~CanTake
    /\ \A i \in Busy : now < call[i].due
    /\ now' = now + 1
    /\ UNCHANGED <<request, left, began, count, next, call, over>>

\* The pool is joined, and the request goes on with its next pass or answers.
\* There are no more regions and accounts to list options of than slicers.
EndPass ==
    /\ over = "no" /\ next = count /\ Busy = {}
    /\ left' = Tail(left)
    /\ IF Tail(left) = <<>>
       THEN over' = "answered" /\ UNCHANGED <<began, count, next, call>>
       ELSE /\ began' = now
            /\ count' \in IF request \in ShowsEdit /\ Len(Tail(left)) =< 2
                          THEN 0..count ELSE {count}
            /\ next' = 0
            /\ call' = [i \in Item |-> Idle("queued")]
            /\ UNCHANGED over
    /\ UNCHANGED <<request, now>>

\* gunicorn kills the worker: what was sent is sent, and nothing is recorded.
Kill ==
    /\ over = "no" /\ now = Limit
    /\ over' = "killed"
    /\ UNCHANGED <<request, left, now, began, count, next, call>>

Next == Take \/ (\E i \in Item : Connect(i) \/ Answer(i)) \/ Tick \/ EndPass \/ Kill

Spec == Init /\ [][Next]_vars

-----------------------------------------------------------------------------
(* Properties.                                                             *)

\* The longest that is still to come once a pass's last item has been taken.
Longest(pass) ==
    IF pass = "sync" THEN 2 * SyncTimeout
    ELSE IF pass = "apply" THEN 2 * FetchTimeout + 2 * PatchTimeout ELSE 2 * FetchTimeout

\* A pass takes no longer than its budget and the calls of one item, however many
\* items wait for however few threads (_run_all).
PassBounded == over = "no" => now =< began + NetworkBudget + Longest(Head(left))

\* What is reported out of time is the end of the list: no item is passed over for
\* one behind it, so a retry of the rest goes on where the pass stopped.
OutOfTimeLast ==
    \A i, j \in Item :
      i < j /\ call[i].at = "out_of_time" => call[j].at \in {"queued", "out_of_time"}

\* "Gunicorn kills a request after 30s, so slicers that haven't started by
\* NETWORK_BUDGET_SECONDS are reported rather than attempted" (updates.py): a
\* request that only reads the slicers once is never killed.
OnePassAnswered == Passes[request] = <<"fetch">> => over # "killed"
=============================================================================
