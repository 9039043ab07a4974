--------------------- MODULE ConfigCaptureAtomic_proofs ---------------------
(***************************************************************************)
(* What TLAPS proves of ConfigCapture against AtomicCapture: with requests *)
(* that come one at a time, ConfigCapture implements it.                   *)
(*                                                                         *)
(* The session's copy of each row differs from what was read by nothing or *)
(* by one step of AtomicCapture, the step of the request's kind; only a    *)
(* poll with a capture still to be made is halfway (Effect).  That holds   *)
(* however many requests overlap.  When they do not, the commit puts the   *)
(* copy where the row read still is (CommitAlone).                         *)
(***************************************************************************)
EXTENDS ConfigCaptureSerial_proofs

\* A poll with a capture due for this slicer: the state is applied.
Halfway(r, s) ==
    /\ r.fresh[s] \in State
    /\ r.work[s] = [r.base[s] EXCEPT !.lastState = r.fresh[s]]
    /\ NeedsConfigCapture(r.work[s], r.base[s].lastState)

\* What a request of each kind has done to its copy of a slicer's row.
Step(r, s) ==
    \/ r.work[s] = r.base[s]
    \/ r.kind = "poll" /\ Atomic!Poll(r.base[s], r.work[s])
    \/ r.kind = "start" /\ Atomic!Start(r.base[s], r.work[s])
    \/ r.kind = "refresh" /\ Atomic!Refresh(r.base[s], r.work[s])
    \/ r.kind = "update" /\ Atomic!Update(r.base[s], r.work[s])
    \/ r.kind = "sync" /\ Atomic!Sync(r.base[s], r.work[s])

Effect(r, s) ==
    /\ r.at \in {"fetch", "patch"} => r.work[s] = r.base[s]
    /\ r.at = "patch" => r.kind \in {"start", "stop"}
    /\ r.at = "work" /\ s \notin r.todo => Step(r, s)
    /\ r.at = "work" /\ s \in r.todo =>
         IF r.kind = "poll" THEN Halfway(r, s) ELSE r.work[s] = r.base[s]

EffectInv == \A w \in Worker, s \in Slicer : Effect(req[w], s)

-----------------------------------------------------------------------------
(* The operators of AtomicCapture are those of the row.                    *)

LEMMA SameOperators ==
  ASSUME NEW r \in Row, NEW prev, NEW d, NEW e, NEW st, NEW source
  PROVE  /\ Atomic!NeedsConfigCapture(r, prev) <=> NeedsConfigCapture(r, prev)
         /\ Atomic!IsRunning(st) <=> IsRunning(st)
         /\ Atomic!Captured(r, d, source) = Captured(r, d, source)
         /\ Atomic!CaptureFailed(r, e) = CaptureFailed(r, e)
         /\ Atomic!StoreUpdatedConfig(r, d, st) = StoreUpdatedConfig(r, d, st)
         /\ Atomic!UpdatedUnread(r) = UpdatedUnread(r)
         /\ Atomic!State = State
<1>1. Atomic!State = State
  BY DEF Atomic!State, State, Atomic!RetrieveState, RetrieveState, Atomic!NoState, NoState
<1>2. \A state : Atomic!IsRunning(state) <=> IsRunning(state)
  BY DEF Atomic!IsRunning, IsRunning, Atomic!NoState, NoState, Atomic!NotRunningState, NotRunningState
<1>3. Atomic!NeedsConfigCapture(r, prev) <=> NeedsConfigCapture(r, prev)
  BY <1>2 DEF Atomic!NeedsConfigCapture, NeedsConfigCapture, Atomic!NoConfig, NoConfig
<1>4. Atomic!Captured(r, d, source) = Captured(r, d, source)
  BY DEF Atomic!Captured, Captured, Atomic!NoError, NoError
<1>5. Atomic!Captured(r, d, "update") = Captured(r, d, "update")
  BY DEF Atomic!Captured, Captured, Atomic!NoError, NoError
<1>6. Atomic!StoreUpdatedConfig(r, d, st) = StoreUpdatedConfig(r, d, st)
  BY <1>2, <1>5 DEF Atomic!StoreUpdatedConfig, StoreUpdatedConfig
<1>7. /\ Atomic!CaptureFailed(r, e) = CaptureFailed(r, e)
      /\ Atomic!UpdatedUnread(r) = UpdatedUnread(r)
  BY DEF Atomic!CaptureFailed, CaptureFailed, Atomic!UpdatedUnread, UpdatedUnread
<1> QED BY <1>1, <1>2, <1>3, <1>4, <1>6, <1>7

\* A poll's step: the state alone, or with the capture or the failure it calls for.
LEMMA PollStep ==
  ASSUME NEW old \in Row, NEW state \in State
  PROVE  LET polledRow == [old EXCEPT !.lastState = state] IN
         /\ ~NeedsConfigCapture(polledRow, old.lastState) => Atomic!Poll(old, polledRow)
         /\ NeedsConfigCapture(polledRow, old.lastState) =>
              /\ \A d \in Nat : Atomic!Poll(old, Captured(polledRow, d, "start"))
              /\ \A e \in Error : Atomic!Poll(old, CaptureFailed(polledRow, e))
<1> DEFINE polledRow == [old EXCEPT !.lastState = state]
<1>1. polledRow \in Row
  BY StateApplied
<1>2. /\ state \in Atomic!State
      /\ Atomic!NeedsConfigCapture(polledRow, old.lastState) <=> NeedsConfigCapture(polledRow, old.lastState)
      /\ \A d, source : Atomic!Captured(polledRow, d, source) = Captured(polledRow, d, source)
      /\ \A e : Atomic!CaptureFailed(polledRow, e) = CaptureFailed(polledRow, e)
  BY <1>1, SameOperators
<1>3. ASSUME ~NeedsConfigCapture(polledRow, old.lastState) PROVE Atomic!Poll(old, polledRow)
  BY <1>2, <1>3 DEF Atomic!Poll
<1>4. ASSUME NeedsConfigCapture(polledRow, old.lastState), NEW d \in Nat
      PROVE  Atomic!Poll(old, Captured(polledRow, d, "start"))
  <2>1. Captured(polledRow, d, "start").cfg.doc = d
    <3>1. "start" \in Source
      BY DEF Source
    <3> HIDE DEF polledRow
    <3>2. Captured(polledRow, d, "start").cfg = [doc |-> d, by |-> "start"]
      BY <1>1, <3>1, CapturedFields
    <3> QED BY <3>2
  <2>2. Atomic!CapturedAs(polledRow, Captured(polledRow, d, "start"), "start")
    BY <1>2, <2>1 DEF Atomic!CapturedAs
  <2> HIDE DEF polledRow
  <2> QED BY <1>2, <1>4, <2>2 DEF Atomic!Poll, polledRow
<1>5. ASSUME NeedsConfigCapture(polledRow, old.lastState), NEW e \in Error
      PROVE  Atomic!Poll(old, CaptureFailed(polledRow, e))
  <2>1. Atomic!Failed(polledRow, CaptureFailed(polledRow, e))
    BY <1>2 DEF Atomic!Failed
  <2> HIDE DEF polledRow
  <2> QED BY <1>2, <1>5, <2>1 DEF Atomic!Poll, polledRow
<1> QED BY <1>3, <1>4, <1>5

LEMMA RefreshStep ==
  ASSUME NEW old \in Row,
         NEW source, source = IF IsRunning(old.lastState) THEN "refresh" ELSE "refresh_stopped"
  PROVE  /\ \A d \in Nat : Atomic!Refresh(old, Captured(old, d, source))
         /\ \A e \in Error : Atomic!Refresh(old, CaptureFailed(old, e))
<1>1. /\ source \in Source
      /\ source = IF Atomic!IsRunning(old.lastState) THEN "refresh" ELSE "refresh_stopped"
      /\ \A d : Atomic!Captured(old, d, source) = Captured(old, d, source)
      /\ \A e : Atomic!CaptureFailed(old, e) = CaptureFailed(old, e)
  BY SameOperators DEF Source
<1>2. ASSUME NEW d \in Nat PROVE Atomic!Refresh(old, Captured(old, d, source))
  <2>1. Captured(old, d, source).cfg = [doc |-> d, by |-> source]
    BY <1>1, CapturedFields
  <2>2. Captured(old, d, source).cfg.doc = d
    BY <2>1
  <2>3. Atomic!CapturedAs(old, Captured(old, d, source), source)
    BY <1>1, <2>2 DEF Atomic!CapturedAs
  <2> QED BY <1>1, <2>3 DEF Atomic!Refresh
<1>3. ASSUME NEW e \in Error PROVE Atomic!Refresh(old, CaptureFailed(old, e))
  BY <1>1 DEF Atomic!Refresh, Atomic!Failed
<1> QED BY <1>2, <1>3

LEMMA UpdateStep ==
  ASSUME NEW old \in Row
  PROVE  /\ \A d \in Nat, state \in State :
              Atomic!Update(old, StoreUpdatedConfig(old, d, state))
         /\ Atomic!Update(old, UpdatedUnread(old))
<1>1. ASSUME NEW d \in Nat, NEW state \in State
      PROVE  Atomic!Update(old, StoreUpdatedConfig(old, d, state))
  <2>1. StoreUpdatedConfig(old, d, state).cfg = [doc |-> d, by |-> "update"]
    BY UpdatedFields
  <2>2. StoreUpdatedConfig(old, d, state).cfg.doc = d
    BY <2>1
  <2>3. /\ state \in Atomic!State
        /\ Atomic!StoreUpdatedConfig(old, d, state) = StoreUpdatedConfig(old, d, state)
    BY SameOperators
  <2> QED BY <2>2, <2>3 DEF Atomic!Update
<1>2. Atomic!Update(old, UpdatedUnread(old))
  BY SameOperators DEF Atomic!Update
<1> QED BY <1>1, <1>2

-----------------------------------------------------------------------------
(* One lemma for each way a request changes.                               *)

LEMMA EffectUpdate ==
  ASSUME TypeOK, EffectInv, NEW w \in Worker, NEW r, req' = [req EXCEPT ![w] = r],
         \A s \in Slicer : Effect(r, s)
  PROVE  EffectInv'
<1>1. \A v \in Worker : req'[v] = req[v] \/ req'[v] = r
  BY DEF TypeOK
<1>2. \A v \in Worker, s \in Slicer : Effect(req'[v], s)
  BY <1>1 DEF EffectInv
<1> QED BY <1>2 DEF EffectInv

LEMMA EffectOpened ==
  ASSUME NEW kind, NEW at, NEW targets, NEW s \in Slicer,
         at = "patch" => kind \in {"start", "stop"}, at = "work" => kind # "poll"
  PROVE  Effect(Opened(kind, at, targets), s) /\ Effect(Idle, s)
<1>1. /\ Opened(kind, at, targets).at = at /\ Opened(kind, at, targets).kind = kind
      /\ Opened(kind, at, targets).base = row /\ Opened(kind, at, targets).work = row
      /\ Idle.at = "idle"
  BY DEF Opened, Idle
<1> QED BY <1>1 DEF Effect, Step

\* A call for one slicer leaves the others as they were.
LEMMA EffectDone ==
  ASSUME NEW r \in Request, NEW s \in Slicer, NEW new \in Row, r.at = "work",
         \A t \in Slicer : Effect(r, t),
         \/ new = r.base[s]
         \/ r.kind = "poll" /\ Atomic!Poll(r.base[s], new)
         \/ r.kind = "refresh" /\ Atomic!Refresh(r.base[s], new)
         \/ r.kind = "update" /\ Atomic!Update(r.base[s], new)
  PROVE  \A t \in Slicer : Effect(Done(r, s, new), t) /\ Effect(Stored(r, s, new), t)
<1>1. r.work \in [Slicer -> Row]
  BY DEF Request
<1>2. ASSUME NEW q, q = Done(r, s, new) \/ q = Stored(r, s, new)
      PROVE  /\ q.at = "work" /\ q.kind = r.kind /\ q.base = r.base /\ q.fresh = r.fresh
             /\ q.todo = r.todo \ {s} /\ q.work = [r.work EXCEPT ![s] = new]
  BY <1>2 DEF Done, Stored, Request
<1>3. ASSUME NEW q, q = Done(r, s, new) \/ q = Stored(r, s, new), NEW t \in Slicer
      PROVE  Effect(q, t)
  <2>1. /\ q.at = "work" /\ q.kind = r.kind /\ q.base = r.base /\ q.fresh = r.fresh
        /\ q.todo = r.todo \ {s} /\ q.work = [r.work EXCEPT ![s] = new]
    BY <1>2, <1>3
  <2>2. CASE t = s
    <3>1. q.work[s] = new /\ s \notin q.todo
      BY <1>1, <2>1
    <3> QED BY <2>1, <2>2, <3>1 DEF Effect, Step
  <2>3. CASE t # s
    <3>1. q.work[t] = r.work[t] /\ (t \in q.todo <=> t \in r.todo)
      BY <1>1, <2>1, <2>3
    <3> QED BY <2>1, <3>1 DEF Effect, Step, Halfway
  <2> QED BY <2>2, <2>3
<1> QED BY <1>3

LEMMA EffectPollAnswer ==
  ASSUME TypeOK, EffectInv, NEW w \in Worker, PollAnswer(w)
  PROVE  EffectInv'
<1>1. PICK answer \in Answers(req[w].todo) :
        req' = [req EXCEPT ![w] = PollAnswered(@, answer)]
  BY DEF PollAnswer
<1> DEFINE r == PollAnswered(req[w], answer)
           listed == {s \in Slicer : answer[s] # NoAnswer}
           polledRow(s) == [req[w].base[s] EXCEPT !.lastState = answer[s]]
<1>2. /\ req[w] \in Request /\ req[w].base \in [Slicer -> Row]
      /\ req[w].kind = "poll" /\ req[w].at = "fetch"
      /\ \A s \in Slicer : req[w].work[s] = req[w].base[s]
  BY RequestFields DEF PollAnswer, EffectInv, Effect
<1>3. /\ r.at = "work" /\ r.kind = "poll" /\ r.base = req[w].base
      /\ \A s \in Slicer : s \in listed =>
           /\ r.work[s] = polledRow(s) /\ r.fresh[s] = answer[s]
           /\ s \in r.todo <=> NeedsConfigCapture(polledRow(s), req[w].base[s].lastState)
      /\ \A s \in Slicer : s \notin listed => r.work[s] = r.base[s] /\ s \notin r.todo
  BY <1>2 DEF PollAnswered, Request
<1>4. ASSUME NEW s \in Slicer PROVE Effect(r, s)
  <2>1. CASE s \notin listed
    BY <1>3, <2>1 DEF Effect, Step
  <2>2. CASE s \in listed
    <3>1. answer[s] \in State /\ req[w].base[s] \in Row
      BY <1>2, <2>2, RequestFields, AnswersType
    <3>2. CASE s \in r.todo
      BY <1>3, <2>2, <3>1, <3>2 DEF Effect, Halfway
    <3>3. CASE s \notin r.todo
      <4>1. Atomic!Poll(req[w].base[s], polledRow(s))
        BY <1>3, <2>2, <3>1, <3>3, PollStep
      <4> QED BY <1>3, <2>2, <3>3, <4>1 DEF Effect, Step
    <3> QED BY <3>2, <3>3
  <2> QED BY <2>1, <2>2
<1>5. req' = [req EXCEPT ![w] = r]
  BY <1>1
<1> HIDE DEF r
<1> QED BY <1>4, <1>5, EffectUpdate

LEMMA EffectTargetAnswer ==
  ASSUME TypeOK, EffectInv, NEW w \in Worker, TargetAnswer(w)
  PROVE  EffectInv'
<1>1. PICK r \in {TargetSet(req[w]), [req[w] EXCEPT !.at = "work", !.todo = {}]} :
        req' = [req EXCEPT ![w] = r]
  BY DEF TargetAnswer
<1>2. /\ req[w] \in Request /\ req[w].base \in [Slicer -> Row]
      /\ \A s \in Slicer : req[w].work[s] = req[w].base[s]
      /\ req[w].kind \in Kind \cup {"none"}
  BY RequestFields DEF TargetAnswer, EffectInv, Effect
<1>3. /\ r.at = "work" /\ r.kind = req[w].kind /\ r.base = req[w].base /\ r.todo = {}
      /\ \A s \in Slicer :
           \/ r.work[s] = req[w].base[s]
           \/ r.kind = "start" /\ r.work[s] = [req[w].base[s] EXCEPT !.pending = TRUE]
  <2>1. CASE r = TargetSet(req[w])
    <3> DEFINE owes == IF req[w].kind = "start" THEN {s \in req[w].todo : ~IsRunning(live[s])} ELSE {}
               work == [s \in Slicer |->
                         IF req[w].kind = "start" /\ s \in req[w].todo
                         THEN [req[w].work[s] EXCEPT !.pending = TRUE] ELSE req[w].work[s]]
    <3>1. r = [req[w] EXCEPT !.at = "work", !.todo = {}, !.owes = owes, !.work = work]
      BY <2>1 DEF TargetSet
    <3>2. \A s \in Slicer :
            work[s] = IF req[w].kind = "start" /\ s \in req[w].todo
                      THEN [req[w].work[s] EXCEPT !.pending = TRUE] ELSE req[w].work[s]
      OBVIOUS
    <3> HIDE DEF owes, work
    <3>3. /\ r.at = "work" /\ r.kind = req[w].kind /\ r.base = req[w].base /\ r.todo = {}
          /\ r.work = work
      BY <1>2, <3>1 DEF Request
    <3> QED BY <1>2, <3>2, <3>3
  <2>2. CASE r = [req[w] EXCEPT !.at = "work", !.todo = {}]
    BY <1>2, <2>2 DEF Request
  <2> QED BY <1>1, <2>1, <2>2
<1>4. ASSUME NEW s \in Slicer PROVE Effect(r, s)
  BY <1>3 DEF Effect, Step, Atomic!Start
<1> QED BY <1>1, <1>4, EffectUpdate

\* The retrieve call of a poll or a Refresh, whether or not it captured.
LEMMA EffectCapture ==
  ASSUME TypeOK, EffectInv, NEW w \in Worker, NEW s \in Slicer,
         Capture(w, s) \/ CaptureFails(w, s)
  PROVE  EffectInv'
<1> DEFINE r == req[w]
           old == r.work[s]
<1>1. /\ r \in Request /\ r.base[s] \in Row /\ old \in Row /\ doc[s] \in Nat
      /\ r.at = "work" /\ s \in r.todo /\ r.kind \in {"poll", "refresh"}
      /\ \A t \in Slicer : Effect(r, t)
  BY RequestFields DEF TypeOK, EffectInv, Capture, CaptureFails, CaptureDue
<1>2. CaptureSource(r, s) \in Source
  BY DEF CaptureSource, Source
<1> HIDE DEF r
<1>3. CASE r.kind = "poll"
  <2>1. Halfway(r, s) /\ CaptureSource(r, s) = "start"
    BY <1>1, <1>3 DEF Effect, CaptureSource
  <2>2. /\ \A d \in Nat : Atomic!Poll(r.base[s], Captured(old, d, "start"))
        /\ \A e \in Error : Atomic!Poll(r.base[s], CaptureFailed(old, e))
    BY <1>1, <2>1, PollStep DEF Halfway
  <2>3. CASE Capture(w, s)
    <3>1. req' = [req EXCEPT ![w] = Stored(r, s, Captured(old, doc[s], "start"))]
      BY <2>1, <2>3 DEF Capture, r
    <3>2. Captured(old, doc[s], "start") \in Row
      BY <1>1, <1>2, <2>1, CapturedType
    <3>3. \A t \in Slicer : Effect(Stored(r, s, Captured(old, doc[s], "start")), t)
      BY <1>1, <1>3, <2>2, <3>2, EffectDone
    <3> QED BY <3>1, <3>3, EffectUpdate
  <2>4. CASE CaptureFails(w, s)
    <3>1. PICK e \in Error : req' = [req EXCEPT ![w] = Done(r, s, CaptureFailed(old, e))]
      BY <2>4 DEF CaptureFails, r
    <3>2. CaptureFailed(old, e) \in Row
      BY <1>1, CaptureFailedType
    <3>3. \A t \in Slicer : Effect(Done(r, s, CaptureFailed(old, e)), t)
      BY <1>1, <1>3, <2>2, <3>2, EffectDone
    <3> QED BY <3>1, <3>3, EffectUpdate
  <2> QED BY <2>3, <2>4
<1>4. CASE r.kind = "refresh"
  <2>1. old = r.base[s]
    BY <1>1, <1>4 DEF Effect
  <2>2. CaptureSource(r, s) = IF IsRunning(r.base[s].lastState) THEN "refresh" ELSE "refresh_stopped"
    BY <1>4 DEF CaptureSource
  <2>3. /\ \A d \in Nat : Atomic!Refresh(r.base[s], Captured(old, d, CaptureSource(r, s)))
        /\ \A e \in Error : Atomic!Refresh(r.base[s], CaptureFailed(old, e))
    BY <1>1, <2>1, <2>2, RefreshStep
  <2>4. CASE Capture(w, s)
    <3>1. req' = [req EXCEPT ![w] = Stored(r, s, Captured(old, doc[s], CaptureSource(r, s)))]
      BY <2>4 DEF Capture, r
    <3>2. Captured(old, doc[s], CaptureSource(r, s)) \in Row
      BY <1>1, <1>2, CapturedType
    <3>3. \A t \in Slicer : Effect(Stored(r, s, Captured(old, doc[s], CaptureSource(r, s))), t)
      BY <1>1, <1>4, <2>3, <3>2, EffectDone
    <3> QED BY <3>1, <3>3, EffectUpdate
  <2>5. CASE CaptureFails(w, s)
    <3>1. PICK e \in Error : req' = [req EXCEPT ![w] = Done(r, s, CaptureFailed(old, e))]
      BY <2>5 DEF CaptureFails, r
    <3>2. CaptureFailed(old, e) \in Row
      BY <1>1, CaptureFailedType
    <3>3. \A t \in Slicer : Effect(Done(r, s, CaptureFailed(old, e)), t)
      BY <1>1, <1>4, <2>3, <3>2, EffectDone
    <3> QED BY <3>1, <3>3, EffectUpdate
  <2> QED BY <2>4, <2>5
<1> QED BY <1>1, <1>3, <1>4

LEMMA EffectUpdateCall ==
  ASSUME TypeOK, EffectInv, NEW w \in Worker, NEW s \in Slicer,
         UpdateNotSent(w, s) \/ UpdatePatch(w, s)
  PROVE  EffectInv'
<1> DEFINE r == req[w]
           old == r.work[s]
<1>1. /\ r \in Request /\ old \in Row /\ r.at = "work" /\ s \in r.todo /\ r.kind = "update"
      /\ \A t \in Slicer : Effect(r, t)
  BY RequestFields DEF EffectInv, UpdateNotSent, UpdatePatch, UpdateDue
<1> HIDE DEF r
<1>2. old = r.base[s]
  BY <1>1 DEF Effect
<1>3. CASE UpdateNotSent(w, s)
  <2>1. req' = [req EXCEPT ![w] = Done(r, s, old)]
    BY <1>3 DEF UpdateNotSent, r
  <2>2. \A t \in Slicer : Effect(Done(r, s, old), t)
    BY <1>1, <1>2, EffectDone
  <2> QED BY <2>1, <2>2, EffectUpdate
<1>4. CASE UpdatePatch(w, s)
  <2>1. r.fresh[s] \in State /\ doc'[s] \in Nat
    BY <1>4, RequestFields DEF UpdatePatch, Reconfigured, TypeOK, r
  <2> DEFINE stored == StoreUpdatedConfig(old, doc'[s], r.fresh[s])
  <2>2. PICK q \in UpdateAnswered(r, s, doc'[s]) : req' = [req EXCEPT ![w] = q]
    BY <1>4 DEF UpdatePatch, r
  <2>3. \/ q = Stored(r, s, stored)
        \/ q = Done(r, s, UpdatedUnread(old))
        \/ q = Done(r, s, old)
    BY <2>2 DEF UpdateAnswered
  <2>4. stored \in Row /\ UpdatedUnread(old) \in Row
    BY <1>1, <2>1, UpdatedType, PendingSet
  <2>5. Atomic!Update(r.base[s], stored) /\ Atomic!Update(r.base[s], UpdatedUnread(old))
    BY <1>1, <1>2, <2>1, UpdateStep
  <2> HIDE DEF stored
  <2>6. /\ \A t \in Slicer : Effect(Stored(r, s, stored), t)
        /\ \A t \in Slicer : Effect(Done(r, s, UpdatedUnread(old)), t)
        /\ \A t \in Slicer : Effect(Done(r, s, old), t)
    BY <1>1, <1>2, <2>4, <2>5, EffectDone
  <2> QED BY <2>2, <2>3, <2>6, EffectUpdate
<1> QED BY <1>3, <1>4

LEMMA EffectSyncApply ==
  ASSUME TypeOK, EffectInv, NEW w \in Worker, SyncApply(w)
  PROVE  EffectInv'
<1> DEFINE r == [Opened("sync", "work", {}) EXCEPT !.work = [s \in Slicer |-> Synced(req[w], s)]]
<1>1. /\ r.at = "work" /\ r.kind = "sync" /\ r.base = row /\ r.todo = {}
      /\ r.work = [s \in Slicer |-> Synced(req[w], s)]
  BY DEF Opened, Idle
<1>2. req' = [req EXCEPT ![w] = r]
  BY DEF SyncApply
<1> HIDE DEF r
<1>3. ASSUME NEW s \in Slicer PROVE Effect(r, s)
  <2>1. row[s] \in Row /\ req[w].fresh[s] \in State \cup {NoAnswer}
    BY RequestFields DEF TypeOK
  <2>2. CASE req[w].fresh[s] # NoAnswer
    <3>1. r.work[s] = [row[s] EXCEPT !.lastState = req[w].fresh[s], !.active = TRUE]
      BY <1>1, <2>2 DEF Synced
    <3>2. req[w].fresh[s] \in Atomic!State
      BY <2>1, <2>2, SameOperators
    <3>3. Atomic!Sync(row[s], r.work[s])
      BY <3>1, <3>2 DEF Atomic!Sync
    <3> QED BY <1>1, <3>3 DEF Effect, Step
  <2>3. CASE req[w].fresh[s] = NoAnswer
    <3>1. r.work[s] = [row[s] EXCEPT !.active = @ /\ s \in Manual]
      BY <1>1, <2>3 DEF Synced
    <3>2. \/ r.work[s] = row[s]
          \/ r.work[s] = [row[s] EXCEPT !.active = FALSE]
      <4>1. row[s].active \in BOOLEAN /\ (s \notin Manual => r.work[s] = [row[s] EXCEPT !.active = FALSE])
        BY <2>1, <3>1 DEF Row
      <4>2. CASE s \in Manual
        BY <2>1, <3>1, <4>2 DEF Row
      <4> QED BY <4>1, <4>2
    <3> QED BY <1>1, <3>2 DEF Effect, Step, Atomic!Sync
  <2> QED BY <2>1, <2>2, <2>3
<1> QED BY <1>2, <1>3, EffectUpdate

LEMMA EffectStep == ASSUME TypeOK, EffectInv, [Next]_vars PROVE EffectInv'
<1>1. ASSUME req' = req PROVE EffectInv'
  BY <1>1 DEF EffectInv
<1>2. ASSUME NEW s \in Slicer, UplynkMoves(s) \/ UplynkEdited(s) PROVE EffectInv'
  BY <1>1, <1>2 DEF UplynkMoves, UplynkEdited
<1>3. ASSUME NEW w \in Worker, NEW kind, NEW at, NEW targets, Begin(w, kind, at, targets),
             at = "patch" => kind \in {"start", "stop"}, at = "work" => kind # "poll"
      PROVE  EffectInv'
  <2>1. \A s \in Slicer : Effect(Opened(kind, at, targets), s)
    BY <1>3, EffectOpened
  <2> QED BY <1>3, <2>1, EffectUpdate DEF Begin
<1>4. ASSUME NEW w \in Worker, Abandon(w) \/ Commit(w) PROVE EffectInv'
  <2>1. \A s \in Slicer : Effect(Idle, s)
    BY DEF Effect, Idle
  <2> QED BY <1>4, <2>1, EffectUpdate DEF Abandon, Commit
<1>5. ASSUME NEW w \in Worker, SyncAnswer(w) PROVE EffectInv'
  <2>1. PICK fresh : req' = [req EXCEPT ![w].at = "listing", ![w].fresh = fresh]
    BY <1>5 DEF SyncAnswer
  <2> DEFINE r == [req[w] EXCEPT !.at = "listing", !.fresh = fresh]
  <2>2. req' = [req EXCEPT ![w] = r]
    BY <2>1 DEF TypeOK
  <2>3. r.at = "listing"
    BY RequestFields DEF Request
  <2> HIDE DEF r
  <2>4. \A s \in Slicer : Effect(r, s)
    BY <2>3 DEF Effect
  <2> QED BY <2>2, <2>4, EffectUpdate
<1>6. ASSUME NEW w \in Worker, NEW s \in Slicer, UpdateRead(w, s) PROVE EffectInv'
  <2>0. PICK state : req' = [req EXCEPT ![w] = Read(req[w], s, state)]
    BY <1>6 DEF UpdateRead
  <2> DEFINE r == Read(req[w], s, state)
  <2>1. /\ req[w] \in Request /\ req[w].kind = "update" /\ \A t \in Slicer : Effect(req[w], t)
    BY <1>6, RequestFields DEF UpdateRead, UpdateDue, EffectInv
  <2>2. /\ r.at = req[w].at /\ r.kind = req[w].kind /\ r.todo = req[w].todo
        /\ r.work = req[w].work /\ r.base = req[w].base
    BY <2>1 DEF Read, Request
  <2>3. req' = [req EXCEPT ![w] = r]
    BY <2>0
  <2> HIDE DEF r
  <2>4. \A t \in Slicer : Effect(r, t)
    BY <2>1, <2>2 DEF Effect, Step
  <2> QED BY <2>3, <2>4, EffectUpdate
<1>7. CASE UNCHANGED vars
  BY <1>1, <1>7 DEF vars
<1>8. ASSUME NEW w \in Worker, BeginPoll(w) \/ BeginSync(w) PROVE EffectInv'
  BY <1>3, <1>8 DEF BeginPoll, BeginSync
<1>9. ASSUME NEW w \in Worker, BeginTarget(w) PROVE EffectInv'
  BY <1>3, <1>9 DEF BeginTarget
<1>10. ASSUME NEW w \in Worker, BeginRefresh(w) \/ BeginUpdate(w) PROVE EffectInv'
  BY <1>3, <1>10 DEF BeginRefresh, BeginUpdate
<1> QED BY <1>2, <1>4, <1>5, <1>6, <1>7, <1>8, <1>9, <1>10, EffectPollAnswer, EffectTargetAnswer,
       EffectSyncApply, EffectCapture, EffectUpdateCall DEF Next

-----------------------------------------------------------------------------
(* The refinement.                                                         *)

LEMMA AtomicInit == Init => Atomic!Init
<1> SUFFICES ASSUME Init PROVE Atomic!Init
  OBVIOUS
<1>1. PICK synced \in SUBSET Slicer :
        row = [s \in Slicer |-> [NewRow EXCEPT !.lastState = IF s \in synced THEN live[s] ELSE @]]
  BY DEF Init
<1>2. Atomic!NewRow = NewRow
  BY DEF Atomic!NewRow, NewRow, Atomic!NoState, NoState, Atomic!NoConfig, NoConfig,
     Atomic!NoError, NoError
<1>3. \A s \in Slicer : live[s] \in Atomic!State
  BY CaptureAssumption DEF Init, Atomic!State, Atomic!RetrieveState, RetrieveState
<1>4. NewRow.lastState \in Atomic!State
  BY DEF NewRow, NoState, Atomic!State, Atomic!NoState
<1> QED BY <1>1, <1>2, <1>3, <1>4 DEF Atomic!Init

LEMMA AtomicCommit ==
  ASSUME TypeOK, SerialInv, EffectInv, Serial, NEW w \in Worker, Commit(w)
  PROVE  [Atomic!Next]_row
<1>1. /\ row' = req[w].work /\ req[w].base = row /\ req[w].at = "work" /\ req[w].todo = {}
      /\ \A s \in Slicer : row[s].cfg.doc =< req[w].work[s].cfg.doc
  BY CommitAlone DEF Commit, SerialInv, RequestKept
<1>2. \A s \in Slicer : Step(req[w], s)
  BY <1>1 DEF EffectInv, Effect
<1>3. \A s \in Slicer : row[s].cfg.doc =< row'[s].cfg.doc
  BY <1>1
<1>4. CASE \A s \in Slicer : row'[s] = row[s]
  BY <1>1, <1>4, RequestFields DEF TypeOK
<1>5. CASE \E s \in Slicer : row'[s] # row[s]
  <2>1. /\ \/ req[w].kind = "poll" /\ \A s \in Slicer : Atomic!Same(s) \/ Atomic!Poll(row[s], row'[s])
           \/ req[w].kind = "start" /\ \A s \in Slicer : Atomic!Same(s) \/ Atomic!Start(row[s], row'[s])
           \/ req[w].kind = "refresh" /\ \A s \in Slicer : Atomic!Same(s) \/ Atomic!Refresh(row[s], row'[s])
           \/ req[w].kind = "update" /\ \A s \in Slicer : Atomic!Same(s) \/ Atomic!Update(row[s], row'[s])
           \/ req[w].kind = "sync" /\ \A s \in Slicer : Atomic!Same(s) \/ Atomic!Sync(row[s], row'[s])
        /\ req[w].kind # "none"
    BY <1>1, <1>2, <1>5 DEF Step, Atomic!Same
  <2>2. req[w].kind \in Kind
    BY <2>1, RequestFields
  <2> QED BY <1>3, <2>1, <2>2 DEF Atomic!Next
<1> QED BY <1>4, <1>5

\* With one worker every request, whatever it waits for and whatever fails,
\* takes effect as a whole and at once, for any slicers and kinds of request.
THEOREM SerialAtomic == ASSUME Serial PROVE Spec => RequestsAtomic
<1>1. Init => EffectInv
  <2>1. \A s \in Slicer : Effect(Idle, s)
    BY DEF Effect, Idle
  <2> QED BY <2>1 DEF Init, EffectInv
<1>2. TypeOK /\ EffectInv /\ [Next]_vars => EffectInv'
  BY EffectStep
<1>3. TypeOK /\ SerialInv /\ EffectInv /\ [Next]_vars => [Atomic!Next]_row
  BY RowByCommit, AtomicCommit
<1> QED BY <1>1, <1>2, <1>3, AtomicInit, SerialInvariant, PTL DEF Spec, RequestsAtomic, Atomic!Spec
=============================================================================
