----------------------- MODULE RequestBudget_proofs -----------------------
(***************************************************************************)
(* What TLAPS proves of RequestBudget, for any number of items and threads *)
(* and any timeouts.                                                       *)
(*                                                                         *)
(* A call begins no later than the deadline of its pass, or follows one    *)
(* that did; so its waits fall within the budget and the calls of one      *)
(* item, and time only passes up to the earliest timeout (CallsInTime).    *)
(* Items are taken in order and time does not go back, so the ones out of  *)
(* time are the last (TakenInOrder).                                       *)
(***************************************************************************)
EXTENDS RequestBudget, SequenceTheorems, TLAPS

Serving == over = "no"

\* How long after its pass's deadline a call can begin, and how long it can take.
Grace(at) == IF at = "patch" THEN 2 * FetchTimeout ELSE 0

CallsInTime ==
    \A i \in Item : call[i].at \in {"fetch", "patch", "sync"} =>
      /\ Head(left) \in IF call[i].at = "fetch" THEN {"fetch", "apply"}
                        ELSE IF call[i].at = "patch" THEN {"apply"} ELSE {"sync"}
      /\ now =< call[i].due
      /\ call[i].due =< began + NetworkBudget + Grace(call[i].at)
                          + Timeout(call[i].at) + IF call[i].connected THEN Timeout(call[i].at) ELSE 0

TakenInOrder ==
    /\ \A i \in Item : call[i].at = "queued" <=> i > next
    /\ \A i \in Item : call[i].at = "out_of_time" => now > began + NetworkBudget
    /\ OutOfTimeLast

Inv == /\ TypeOK
       /\ Serving => left # <<>> /\ CallsInTime /\ PassBounded
       /\ TakenInOrder

LEMMA BudgetNat ==
  /\ NetworkBudget \in Nat /\ FetchTimeout \in Nat /\ PatchTimeout \in Nat /\ SyncTimeout \in Nat
  /\ Limit \in Nat /\ MaxItems \in Nat
BY BudgetAssumption

\* Every request has a pass, and every pass is of a known kind.
LEMMA PassesType ==
  ASSUME NEW r \in DOMAIN Passes
  PROVE  Passes[r] \in Seq(PassKind) /\ Passes[r] # <<>>
<1>1. r \in {"list", "edit", "review", "apply", "sync_all", "review_typed", "apply_typed",
            "typed_locked", "review_unchanged", "typed_unchanged"}
  BY DEF Passes
<1>2. CASE r \in {"list", "review"}
  <2>1. Passes[r] = <<"fetch">>
    BY <1>2 DEF Passes
  <2> QED BY <2>1 DEF PassKind
<1>3. CASE r = "apply"
  <2>1. Passes[r] = <<"apply">>
    BY <1>3 DEF Passes
  <2> QED BY <2>1 DEF PassKind
<1>4. CASE r = "sync_all"
  <2>1. Passes[r] = <<"sync">>
    BY <1>4 DEF Passes
  <2> QED BY <2>1 DEF PassKind
<1>5. CASE r = "edit"
  <2>1. Passes[r] = <<"fetch", "fetch", "fetch">>
    BY <1>5 DEF Passes
  <2> QED BY <2>1 DEF PassKind
<1>6. CASE r = "review_typed"
  <2>1. Passes[r] = <<"fetch", "fetch">>
    BY <1>6 DEF Passes
  <2> QED BY <2>1 DEF PassKind
<1>7. CASE r = "apply_typed"
  <2>1. Passes[r] = <<"fetch", "apply">>
    BY <1>7 DEF Passes
  <2> QED BY <2>1 DEF PassKind
<1>8. CASE r \in {"typed_locked", "review_unchanged"}
  <2>1. Passes[r] = <<"fetch", "fetch", "fetch", "fetch">>
    BY <1>8 DEF Passes
  <2> QED BY <2>1 DEF PassKind
<1>9. CASE r = "typed_unchanged"
  <2>1. Passes[r] = <<"fetch", "fetch", "fetch", "fetch", "fetch">>
    BY <1>9 DEF Passes
  <2> QED BY <2>1 DEF PassKind
<1> QED BY <1>1, <1>2, <1>3, <1>4, <1>5, <1>6, <1>7, <1>8, <1>9

LEMMA CallingType ==
  ASSUME TypeOK, NEW at \in {"fetch", "patch", "sync"}, NEW connected \in BOOLEAN
  PROVE  /\ Calling(at, connected) \in Call
         /\ Calling(at, connected).at = at /\ Calling(at, connected).connected = connected
         /\ Calling(at, connected).due = now + Timeout(at)
<1>1. Timeout(at) \in Nat
  BY BudgetNat DEF Timeout
<1>2. now \in Nat
  BY BudgetNat DEF TypeOK
<1> QED BY <1>1, <1>2 DEF Calling, Call, CallKind

LEMMA InvInit == Init => Inv
<1> SUFFICES ASSUME Init PROVE Inv
  OBVIOUS
<1>1. left \in Seq(PassKind) /\ left # <<>>
  BY PassesType DEF Init
<1>2. TypeOK
  BY <1>1, BudgetNat DEF Init, TypeOK, Call, CallKind, Idle
<1>3. \A i \in Item : call[i].at = "queued" /\ i > 0
  BY DEF Init, Idle, Item
<1>4. CallsInTime
  BY <1>3 DEF CallsInTime
<1>5. PassBounded
  <2>1. Head(left) \in PassKind
    BY <1>1
  <2> QED BY <2>1, BudgetNat DEF Init, PassBounded, Longest, PassKind
<1>6. TakenInOrder
  BY <1>3 DEF Init, TakenInOrder, OutOfTimeLast
<1> QED BY <1>1, <1>2, <1>4, <1>5, <1>6 DEF Inv

LEMMA TakeInv == ASSUME Inv, Take PROVE Inv'
<1>1. /\ TypeOK /\ left # <<>> /\ CallsInTime /\ PassBounded /\ TakenInOrder /\ Serving
      /\ next \in Nat /\ count \in Nat /\ now \in Nat /\ began \in Nat
      /\ next < count /\ next + 1 \in Item /\ call[next + 1] \in Call
  BY BudgetNat DEF Inv, Take, CanTake, TypeOK, Serving, Item
<1> DEFINE new == IF Late THEN Idle("out_of_time")
                  ELSE Calling(IF Head(left) = "sync" THEN "sync" ELSE "fetch", FALSE)
<1>2. /\ call' = [call EXCEPT ![next + 1] = new] /\ next' = next + 1
      /\ UNCHANGED <<request, left, now, began, count, over>>
  BY DEF Take
<1>3. /\ new \in Call
      /\ Late => new.at = "out_of_time" /\ now > began + NetworkBudget
      /\ ~Late => /\ now =< began + NetworkBudget /\ ~new.connected
                  /\ new.at = IF Head(left) = "sync" THEN "sync" ELSE "fetch"
                  /\ new.due = now + Timeout(new.at)
  <2>1. Late => now > began + NetworkBudget
    BY DEF Late
  <2>2. ~Late => now =< began + NetworkBudget
    BY <1>1, BudgetNat DEF Late
  <2>3. CASE Late
    BY <2>1, <2>3 DEF Idle, Call, CallKind
  <2>4. CASE ~Late
    <3> DEFINE at == IF Head(left) = "sync" THEN "sync" ELSE "fetch"
    <3>1. at \in {"fetch", "patch", "sync"} /\ new = Calling(at, FALSE)
      BY <2>4
    <3> HIDE DEF at, new
    <3>2. new \in Call /\ new.at = at /\ ~new.connected /\ new.due = now + Timeout(at)
      BY <1>1, <3>1, CallingType
    <3> QED BY <2>2, <2>4, <3>2 DEF at
  <2> QED BY <2>3, <2>4
<1> HIDE DEF new
<1>4. \A i \in Item : call'[i] = IF i = next + 1 THEN new ELSE call[i]
  BY <1>1, <1>2 DEF TypeOK
<1>5. TypeOK'
  BY <1>1, <1>2, <1>3 DEF TypeOK
<1>6. CallsInTime'
  <2>1. Head(left) \in PassKind
    BY <1>1 DEF TypeOK
  <2>2. ASSUME ~Late
        PROVE  /\ new.at \in {"fetch", "sync"} /\ ~new.connected
               /\ Head(left) \in IF new.at = "fetch" THEN {"fetch", "apply"} ELSE {"sync"}
               /\ now =< new.due
               /\ new.due =< began + NetworkBudget + Grace(new.at) + Timeout(new.at)
    BY <1>1, <1>3, <2>1, <2>2, BudgetNat DEF Timeout, Grace, PassKind
  <2>3. ASSUME Late PROVE new.at = "out_of_time"
    BY <1>3, <2>3
  <2>4. ASSUME NEW i \in Item, call'[i].at \in {"fetch", "patch", "sync"}
        PROVE  /\ Head(left) \in IF call'[i].at = "fetch" THEN {"fetch", "apply"}
                                 ELSE IF call'[i].at = "patch" THEN {"apply"} ELSE {"sync"}
               /\ now =< call'[i].due
               /\ call'[i].due =< began + NetworkBudget + Grace(call'[i].at) + Timeout(call'[i].at)
                                   + IF call'[i].connected THEN Timeout(call'[i].at) ELSE 0
    <3>1. CASE i = next + 1
      <4>1. call'[i] = new /\ ~Late
        BY <1>4, <2>3, <2>4, <3>1
      <4>2. Timeout(new.at) \in Nat /\ Grace(new.at) \in Nat
        BY BudgetNat DEF Timeout, Grace
      <4> QED BY <1>1, <2>2, <4>1, <4>2, BudgetNat
    <3>2. CASE i # next + 1
      BY <1>1, <1>4, <2>4, <3>2 DEF CallsInTime
    <3> QED BY <3>1, <3>2
  <2> QED BY <1>2, <2>4 DEF CallsInTime
<1>7. PassBounded'
  BY <1>1, <1>2 DEF PassBounded
<1>8. TakenInOrder'
  <2>1. \A i \in Item : call'[i].at = "queued" <=> i > next'
    BY <1>1, <1>2, <1>3, <1>4 DEF TakenInOrder, Item
  <2>2. \A i \in Item : call'[i].at = "out_of_time" => now > began + NetworkBudget
    BY <1>1, <1>3, <1>4 DEF TakenInOrder
  <2>3. ASSUME NEW i \in Item, NEW j \in Item, i < j, call'[i].at = "out_of_time"
        PROVE  call'[j].at \in {"queued", "out_of_time"}
    <3>1. now > began + NetworkBudget
      BY <2>2, <2>3
    <3>2. CASE j = next + 1
      BY <1>1, <1>3, <1>4, <3>1, <3>2, BudgetNat
    <3>3. CASE j # next + 1 /\ i # next + 1
      BY <1>1, <1>4, <2>3, <3>3 DEF TakenInOrder, OutOfTimeLast
    <3>4. CASE i = next + 1
      BY <1>1, <1>2, <2>1, <2>3, <3>4 DEF Item
    <3> QED BY <3>2, <3>3, <3>4
  <2> QED BY <1>2, <2>1, <2>2, <2>3 DEF TakenInOrder, OutOfTimeLast
<1> QED BY <1>1, <1>2, <1>5, <1>6, <1>7, <1>8 DEF Inv, Serving

\* A call that is replaced by its next wait, by the PATCH that follows it or by
\* its end leaves the rest as it is.
LEMMA CallInv ==
  ASSUME Inv, Serving, NEW i \in Item, i \in Busy, NEW new \in Call,
         call' = [call EXCEPT ![i] = new],
         UNCHANGED <<request, left, now, began, count, next, over>>,
         \/ new.at = "done"
         \/ /\ new.due = now + Timeout(new.at)
            /\ \/ new.at = call[i].at /\ ~call[i].connected /\ new.connected
               \/ /\ new.at = "patch" /\ Head(left) = "apply" /\ call[i].at = "fetch"
                  /\ ~new.connected
  PROVE  Inv'
<1>1. /\ TypeOK /\ left # <<>> /\ CallsInTime /\ PassBounded /\ TakenInOrder
      /\ now \in Nat /\ began \in Nat /\ call[i] \in Call /\ call[i].due \in Nat
      /\ call[i].at \in {"fetch", "patch", "sync"}
  BY BudgetNat DEF Inv, Busy, TypeOK, Call
<1>2. \A j \in Item : call'[j] = IF j = i THEN new ELSE call[j]
  BY <1>1 DEF TypeOK
<1>3. TypeOK'
  BY <1>1 DEF TypeOK
<1>4. Timeout("fetch") = FetchTimeout /\ Timeout("patch") = PatchTimeout
  BY DEF Timeout
<1>5. ASSUME new.at \in {"fetch", "patch", "sync"}
      PROVE  /\ Head(left) \in IF new.at = "fetch" THEN {"fetch", "apply"}
                               ELSE IF new.at = "patch" THEN {"apply"} ELSE {"sync"}
             /\ now =< new.due
             /\ new.due =< began + NetworkBudget + Grace(new.at)
                             + Timeout(new.at) + IF new.connected THEN Timeout(new.at) ELSE 0
  <2>1. /\ Timeout(new.at) \in Nat /\ Grace(call[i].at) \in Nat
        /\ Timeout(call[i].at) \in Nat
    BY BudgetNat DEF Timeout, Grace
  <2>2. CASE new.at = call[i].at /\ ~call[i].connected /\ new.connected
    <3>1. /\ Head(left) \in IF new.at = "fetch" THEN {"fetch", "apply"}
                            ELSE IF new.at = "patch" THEN {"apply"} ELSE {"sync"}
          /\ now =< began + NetworkBudget + Grace(new.at) + Timeout(new.at)
      <4>1. /\ now =< call[i].due
            /\ call[i].due =< began + NetworkBudget + Grace(new.at) + Timeout(new.at) + 0
        BY <1>1, <2>2 DEF CallsInTime
      <4> QED BY <1>1, <2>1, <2>2, <4>1, BudgetNat DEF CallsInTime
    <3> QED BY <1>1, <1>5, <2>1, <2>2, <3>1, BudgetNat
  <2>3. CASE /\ new.at = "patch" /\ Head(left) = "apply" /\ call[i].at = "fetch"
             /\ ~new.connected
    <3>1. now =< began + NetworkBudget + 2 * FetchTimeout
      <4>1. /\ now =< call[i].due
            /\ call[i].due =< began + NetworkBudget + 0 + FetchTimeout
                                + IF call[i].connected THEN FetchTimeout ELSE 0
        BY <1>1, <1>4, <2>3 DEF CallsInTime, Grace
      <4> QED BY <1>1, <4>1, BudgetNat
    <3>2. Grace("patch") = 2 * FetchTimeout
      BY DEF Grace
    <3> QED BY <1>1, <1>4, <1>5, <2>3, <3>1, <3>2, BudgetNat
  <2> QED BY <1>5, <2>2, <2>3
<1>6. CallsInTime'
  <2>1. ASSUME NEW j \in Item, call'[j].at \in {"fetch", "patch", "sync"}
        PROVE  /\ Head(left) \in IF call'[j].at = "fetch" THEN {"fetch", "apply"}
                                 ELSE IF call'[j].at = "patch" THEN {"apply"} ELSE {"sync"}
               /\ now =< call'[j].due
               /\ call'[j].due =< began + NetworkBudget + Grace(call'[j].at) + Timeout(call'[j].at)
                                   + IF call'[j].connected THEN Timeout(call'[j].at) ELSE 0
    <3>1. CASE j = i
      <4>1. call'[j] = new
        BY <1>2, <3>1
      <4> QED BY <1>5, <2>1, <4>1
    <3>2. CASE j # i
      BY <1>1, <1>2, <2>1, <3>2 DEF CallsInTime
    <3> QED BY <3>1, <3>2
  <2> QED BY <2>1 DEF CallsInTime
<1>7. TakenInOrder'
  <2>1. new.at \notin {"queued", "out_of_time"}
    BY <1>1
  <2> QED BY <1>1, <1>2, <2>1 DEF TakenInOrder, OutOfTimeLast, Item
<1> QED BY <1>1, <1>3, <1>6, <1>7 DEF Inv, Serving, PassBounded

LEMMA ConnectInv == ASSUME Inv, NEW i \in Item, Connect(i) PROVE Inv'
<1>1. TypeOK /\ call[i].at \in {"fetch", "patch", "sync"}
  BY DEF Inv, Connect, Busy
<1>2. call' = [call EXCEPT ![i] = Calling(call[i].at, TRUE)]
  BY DEF Connect
<1> QED BY <1>1, <1>2, CallingType, CallInv DEF Connect, Serving

LEMMA AnswerInv == ASSUME Inv, NEW i \in Item, Answer(i) PROVE Inv'
<1>1. TypeOK
  BY DEF Inv
<1>2. CASE call' = [call EXCEPT ![i] = Idle("done")]
  <2>1. Idle("done") \in Call /\ Idle("done").at = "done"
    BY DEF Idle, Call, CallKind
  <2> QED BY <1>2, <2>1, CallInv DEF Answer, Serving
<1>3. CASE /\ Head(left) = "apply" /\ call[i].at = "fetch"
           /\ call' = [call EXCEPT ![i] = Calling("patch", FALSE)]
  BY <1>1, <1>3, CallingType, CallInv DEF Answer, Serving
<1> QED BY <1>2, <1>3 DEF Answer

\* Time is up to no call's timeout, and some call is under way.
LEMMA TickInv == ASSUME Inv, Tick PROVE Inv'
<1>1. /\ TypeOK /\ left # <<>> /\ CallsInTime /\ PassBounded /\ TakenInOrder /\ Serving
      /\ now \in Nat /\ began \in Nat /\ now' = now + 1 /\ now < Limit
      /\ \A i \in Item : call[i] \in Call /\ call[i].due \in Nat
      /\ UNCHANGED <<request, left, began, count, next, call, over>>
  BY BudgetNat DEF Inv, Tick, TypeOK, Serving, Call
<1>2. \A i \in Item : call[i].at \in {"fetch", "patch", "sync"} => now + 1 =< call[i].due
  BY <1>1 DEF Tick, Busy
<1>3. TypeOK'
  BY <1>1, BudgetNat DEF TypeOK
<1>4. CallsInTime'
  BY <1>1, <1>2 DEF CallsInTime
<1>5. PassBounded'
  <2>1. PICK i \in Item : call[i].at \in {"fetch", "patch", "sync"}
    BY DEF Tick, Busy
  <2>2. now + 1 =< call[i].due
    BY <1>2, <2>1
  <2>3. call[i].due =< began + NetworkBudget + Longest(Head(left))
    <3>1. CASE call[i].at = "fetch"
      BY <1>1, <3>1, BudgetNat DEF CallsInTime, Longest, Timeout, Grace
    <3>2. CASE call[i].at = "patch"
      BY <1>1, <3>2, BudgetNat DEF CallsInTime, Longest, Timeout, Grace
    <3>3. CASE call[i].at = "sync"
      BY <1>1, <3>3, BudgetNat DEF CallsInTime, Longest, Timeout, Grace
    <3> QED BY <2>1, <3>1, <3>2, <3>3
  <2>4. Head(left) \in PassKind
    BY <1>1 DEF TypeOK
  <2>5. Longest(Head(left)) \in Nat
    BY <2>4, BudgetNat DEF Longest, PassKind
  <2> QED BY <1>1, <2>2, <2>3, <2>5, BudgetNat DEF PassBounded
<1>6. TakenInOrder'
  BY <1>1, BudgetNat DEF TakenInOrder, OutOfTimeLast
<1> QED BY <1>1, <1>3, <1>4, <1>5, <1>6 DEF Inv, Serving

LEMMA EndPassInv == ASSUME Inv, EndPass PROVE Inv'
<1>1. /\ TypeOK /\ left # <<>> /\ TakenInOrder /\ now \in Nat /\ count \in Nat
      /\ left' = Tail(left) /\ now' = now /\ request' = request
      /\ Tail(left) \in Seq(PassKind)
  BY BudgetNat DEF Inv, EndPass, TypeOK, Serving
<1>2. CASE Tail(left) = <<>>
  <2>1. over' = "answered" /\ UNCHANGED <<began, count, next, call>>
    BY <1>2 DEF EndPass
  <2>2. TypeOK'
    BY <1>1, <2>1 DEF TypeOK
  <2>3. TakenInOrder'
    BY <1>1, <2>1 DEF TakenInOrder, OutOfTimeLast
  <2> QED BY <2>1, <2>2, <2>3 DEF Inv, Serving
<1>3. CASE Tail(left) # <<>>
  <2>1. /\ began' = now /\ count' \in 0..count /\ next' = 0
        /\ call' = [i \in Item |-> Idle("queued")] /\ over' = over
    BY <1>1, <1>3 DEF EndPass
  <2>2. TypeOK'
    BY <1>1, <2>1, BudgetNat DEF TypeOK, Call, CallKind, Idle
  <2>3. \A i \in Item : call'[i].at = "queued" /\ i > 0
    BY <2>1 DEF Idle, Item
  <2>4. CallsInTime'
    BY <2>3 DEF CallsInTime
  <2>5. PassBounded'
    <3>1. Head(left') \in PassKind
      BY <1>1, <1>3
    <3> QED BY <1>1, <2>1, <3>1, BudgetNat DEF PassBounded, Longest, PassKind
  <2>6. TakenInOrder'
    BY <2>1, <2>3 DEF TakenInOrder, OutOfTimeLast
  <2> QED BY <1>1, <1>3, <2>2, <2>4, <2>5, <2>6 DEF Inv
<1> QED BY <1>2, <1>3

LEMMA InvStep == ASSUME Inv, [Next]_vars PROVE Inv'
<1>1. CASE Take
  BY <1>1, TakeInv
<1>2. ASSUME NEW i \in Item, Connect(i) \/ Answer(i) PROVE Inv'
  BY <1>2, ConnectInv, AnswerInv
<1>3. CASE Tick
  BY <1>3, TickInv
<1>4. CASE EndPass
  BY <1>4, EndPassInv
<1>5. CASE Kill
  BY <1>5 DEF Kill, Inv, TypeOK, Serving, TakenInOrder, OutOfTimeLast
<1>6. CASE UNCHANGED vars
  BY <1>6 DEF vars, Inv, TypeOK, Serving, CallsInTime, PassBounded, TakenInOrder, OutOfTimeLast
<1> QED BY <1>1, <1>2, <1>3, <1>4, <1>5, <1>6 DEF Next

LEMMA Invariance == Spec => []Inv
<1>1. Init => Inv
  BY InvInit
<1>2. Inv /\ [Next]_vars => Inv'
  BY InvStep
<1> QED BY <1>1, <1>2, PTL DEF Spec

\* The clock, the items and the passes of a request keep their types: an item is
\* called at one place or none, and its timeout is a time (_run_all).
THEOREM TypeCorrect == Spec => []TypeOK
<1>1. Inv => TypeOK
  BY DEF Inv
<1> QED BY <1>1, Invariance, PTL

\* No pass outlasts its budget and the calls of one item, whatever the number of
\* items and threads and the timeouts (_run_all).
THEOREM PassesBounded == Spec => []PassBounded
<1>1. Inv => PassBounded
  BY DEF Inv, Serving, PassBounded
<1> QED BY <1>1, Invariance, PTL

\* The items a pass reports as out of time are the last of its list (_run_all).
THEOREM LateOnesLast == Spec => []OutOfTimeLast
<1>1. Inv => OutOfTimeLast
  BY DEF Inv, TakenInOrder
<1> QED BY <1>1, Invariance, PTL

\* A request that reads the slicers once is answered before gunicorn's limit if the
\* budget and the waits of one call fit in it, as they do in the code: 12 + 6 + 6 is
\* less than 30 (fetch_current_listing, plan_updates).
THEOREM OnePassInTime ==
  ASSUME NetworkBudget + 2 * FetchTimeout < Limit
  PROVE  Spec => []OnePassAnswered
<1> DEFINE First == Passes[request] = <<"fetch">> =>
             over # "killed" /\ (Serving => left = <<"fetch">> /\ began = 0)
<1>1. Init => First
  BY DEF Init, Serving
<1>2. ASSUME Inv, First, [Next]_vars PROVE First'
  <2>1. request' = request
    BY <1>2 DEF Next, Take, Connect, Answer, Tick, EndPass, Kill, vars
  <2> SUFFICES ASSUME Passes[request] = <<"fetch">>
               PROVE  over' # "killed" /\ (Serving' => left' = <<"fetch">> /\ began' = 0)
    BY <2>1
  <2>2. CASE EndPass
    <3>1. left = <<"fetch">>
      BY <1>2, <2>2 DEF EndPass, Serving
    <3>2. Tail(left) = <<>>
      BY <3>1
    <3> QED BY <2>2, <3>2 DEF EndPass, Serving
  <2>3. CASE Kill
    <3>1. now = Limit /\ began = 0 /\ PassBounded /\ over = "no" /\ left = <<"fetch">>
      BY <1>2, <2>3 DEF Kill, Inv, Serving
    <3>2. Longest(Head(left)) = 2 * FetchTimeout
      BY <3>1 DEF Longest
    <3> QED BY <3>1, <3>2, BudgetNat DEF PassBounded
  <2>4. CASE Take \/ (\E i \in Item : Connect(i) \/ Answer(i)) \/ Tick \/ UNCHANGED vars
    BY <1>2, <2>4 DEF Take, Connect, Answer, Tick, vars, Serving
  <2> QED BY <1>2, <2>2, <2>3, <2>4 DEF Next
<1>3. First => OnePassAnswered
  BY DEF OnePassAnswered
<1> QED BY <1>1, <1>2, <1>3, Invariance, PTL DEF Spec
=============================================================================
