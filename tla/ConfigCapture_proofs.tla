----------------------- MODULE ConfigCapture_proofs -----------------------
(***************************************************************************)
(* What TLAPS proves of ConfigCapture, for every set of slicers, workers,  *)
(* kinds of request and error texts, and any number of settings versions.  *)
(*                                                                         *)
(* Two results hold however many workers there are; the promises about the *)
(* captured configuration itself need the requests to come one at a time   *)
(* (Serial), and the central one needs that no Sync runs (NoSync): the     *)
(* violation runs show that neither condition can be dropped.              *)
(***************************************************************************)
EXTENDS ConfigCapture, TLAPS

-----------------------------------------------------------------------------
(* Rows and the operators on them.                                         *)

LEMMA NewRowType == NewRow \in Row
  BY DEF NewRow, Row, NoState, NoConfig, Config, NoError

LEMMA StateApplied ==
  ASSUME NEW r \in Row, NEW st \in State
  PROVE  [r EXCEPT !.lastState = st] \in Row
  BY DEF Row, State

LEMMA PendingSet ==
  ASSUME NEW r \in Row
  PROVE  [r EXCEPT !.pending = TRUE] \in Row /\ UpdatedUnread(r) \in Row
  BY DEF UpdatedUnread, Row

LEMMA CapturedType ==
  ASSUME NEW r \in Row, NEW d \in Nat, NEW src \in Source
  PROVE  Captured(r, d, src) \in Row
  BY DEF Captured, Row, Config

LEMMA UpdatedType ==
  ASSUME NEW r \in Row, NEW d \in Nat, NEW st \in State
  PROVE  StoreUpdatedConfig(r, d, st) \in Row
  BY CapturedType DEF StoreUpdatedConfig, Row, IsRunning, Source

LEMMA CaptureFailedType ==
  ASSUME NEW r \in Row, NEW e \in Error
  PROVE  CaptureFailed(r, e) \in Row
  BY DEF CaptureFailed, Row

\* A request whose row nobody else has written since it read it stores its own
\* copy: the merge only shows when requests overlap.
LEMMA FlushAlone ==
  ASSUME NEW a \in Row, NEW c \in Row, NEW k
  PROVE  Flush(a, a, c, k) = c
  BY DEF Flush, Merge, Row

-----------------------------------------------------------------------------
(* Types.                                                                  *)

LEMMA IdleType == Idle \in Request
  BY NewRowType DEF Idle, Request, State

LEMMA OpenedType ==
  ASSUME TypeOK, NEW kind \in Kind, NEW at \in {"fetch", "patch", "work"},
         NEW targets \in SUBSET Slicer
  PROVE  Opened(kind, at, targets) \in Request
  BY IdleType DEF Opened, Request, TypeOK

\* The fields of a request.
LEMMA RequestFields ==
  ASSUME TypeOK, NEW w \in Worker
  PROVE  /\ req[w] \in Request
         /\ req[w].todo \subseteq Slicer /\ req[w].wrote \subseteq Slicer
         /\ req[w].owes \subseteq Slicer /\ req[w].kind \in Kind \cup {"none"}
         /\ req[w].base \in [Slicer -> Row] /\ req[w].work \in [Slicer -> Row]
         /\ req[w].fresh \in [Slicer -> State \cup {NoAnswer}] /\ req[w].at_doc \in [Slicer -> Nat]
  BY DEF TypeOK, Request

\* What Uplynk answers of a slicer: the state it is in, or none.
LEMMA AnswersType ==
  ASSUME NEW targets \in SUBSET Slicer, NEW answer \in Answers(targets)
  PROVE  /\ answer \in [Slicer -> State \cup {NoAnswer}]
         /\ \A s \in Slicer : answer[s] # NoAnswer =>
              s \in targets /\ answer[s] \in State /\ answer[s] \in {live[s], NoState}
  BY DEF Answers

LEMMA CallDone ==
  ASSUME NEW r \in Request, NEW s \in Slicer, NEW new \in Row
  PROVE  Done(r, s, new) \in Request /\ Stored(r, s, new) \in Request
<1> DEFINE work == [r.work EXCEPT ![s] = new]
<1>1. work \in [Slicer -> Row]
  BY DEF Request
<1>2. Done(r, s, new) = [r EXCEPT !.todo = @ \ {s}, !.work = work]
  BY DEF Done
<1> HIDE DEF work
<1>3. Done(r, s, new) \in Request
  BY <1>1, <1>2 DEF Request
<1>4. Stored(r, s, new) \in Request
  BY <1>3 DEF Stored, Request
<1> QED BY <1>3, <1>4

LEMMA TypeInit == Init => TypeOK
<1> SUFFICES ASSUME Init PROVE TypeOK
  OBVIOUS
<1>1. live \in [Slicer -> RetrieveState]
  BY CaptureAssumption DEF Init, RetrieveState
<1>2. row \in [Slicer -> Row]
  <2>1. ASSUME NEW st \in RetrieveState \cup {NoState}
        PROVE  [NewRow EXCEPT !.lastState = st] \in Row
    BY NewRowType DEF Row
  <2>2. NewRow.lastState = NoState
    BY DEF NewRow
  <2> QED BY <1>1, <2>1, <2>2 DEF Init
<1> QED BY <1>1, <1>2, IdleType DEF Init, TypeOK, State

LEMMA TypeStep == TypeOK /\ [Next]_vars => TypeOK'
<1> SUFFICES ASSUME TypeOK, [Next]_vars PROVE TypeOK'
  OBVIOUS
<1>1. ASSUME NEW s \in Slicer, UplynkMoves(s) PROVE TypeOK'
  BY <1>1 DEF UplynkMoves, TypeOK, history
<1>2. ASSUME NEW s \in Slicer, UplynkEdited(s) PROVE TypeOK'
  BY <1>2 DEF UplynkEdited, Reconfigured, TypeOK, history, RetrieveState
<1>3. ASSUME NEW w \in Worker, NEW kind \in Kind, NEW at \in {"fetch", "patch", "work"},
             NEW targets \in SUBSET Slicer, Begin(w, kind, at, targets)
      PROVE  TypeOK'
  <2>1. Opened(kind, at, targets) \in Request
    BY OpenedType
  <2> QED BY <1>3, <2>1 DEF Begin, TypeOK, history
<1>4. ASSUME NEW w \in Worker, Abandon(w) PROVE TypeOK'
  BY <1>4, IdleType DEF Abandon, TypeOK, history
<1>5. ASSUME NEW w \in Worker, PollAnswer(w) PROVE TypeOK'
  <2>1. PICK answer \in Answers(req[w].todo) :
          req' = [req EXCEPT ![w] = PollAnswered(@, answer)]
    BY <1>5 DEF PollAnswer
  <2>2. /\ answer \in [Slicer -> State \cup {NoAnswer}]
        /\ \A s \in Slicer : answer[s] # NoAnswer => answer[s] \in State
    BY RequestFields, AnswersType
  <2> DEFINE listed == {s \in Slicer : answer[s] # NoAnswer}
             work == [s \in Slicer |-> IF s \in listed
                   THEN [req[w].work[s] EXCEPT !.lastState = answer[s]] ELSE req[w].work[s]]
             todo == {s \in listed : NeedsConfigCapture(work[s], req[w].base[s].lastState)}
             at_doc == [s \in Slicer |-> IF s \in listed THEN doc[s] ELSE 0]
  <2>3. work \in [Slicer -> Row]
    BY <2>2, RequestFields, StateApplied
  <2>4. PollAnswered(req[w], answer) \in Request
    <3>1. todo \subseteq Slicer /\ at_doc \in [Slicer -> Nat]
      BY DEF TypeOK
    <3>2. PollAnswered(req[w], answer) =
            [req[w] EXCEPT !.at = "work", !.work = work, !.todo = todo, !.fresh = answer,
                           !.at_doc = at_doc]
      BY DEF PollAnswered
    <3> HIDE DEF work, todo, at_doc, listed
    <3>3. req[w] \in Request
      BY RequestFields
    <3> QED BY <2>2, <2>3, <3>1, <3>2, <3>3 DEF Request
  <2> QED BY <1>5, <2>1, <2>4 DEF PollAnswer, TypeOK, history
<1>6. ASSUME NEW w \in Worker, TargetAnswer(w) PROVE TypeOK'
  <2>1. [s \in Slicer |-> IF req[w].kind = "start" /\ s \in req[w].todo
             THEN [req[w].work[s] EXCEPT !.pending = TRUE] ELSE req[w].work[s]]
          \in [Slicer -> Row]
    BY RequestFields, PendingSet
  <2>2. TargetSet(req[w]) \in Request
    BY RequestFields, <2>1 DEF TargetSet, Request
  <2>3. [req[w] EXCEPT !.at = "work", !.todo = {}] \in Request
    BY RequestFields DEF Request
  <2> QED BY <1>6, <2>2, <2>3 DEF TargetAnswer, TypeOK, history
<1>7. ASSUME NEW w \in Worker, SyncAnswer(w) PROVE TypeOK'
  <2>1. PICK answer \in Answers(Slicer) :
          req' = [req EXCEPT ![w].at = "listing", ![w].fresh = answer]
    BY <1>7 DEF SyncAnswer
  <2>2. answer \in [Slicer -> State \cup {NoAnswer}]
    BY AnswersType
  <2>3. [req[w] EXCEPT !.at = "listing", !.fresh = answer] \in Request
    <3>1. req[w] \in Request
      BY RequestFields
    <3> QED BY <2>2, <3>1 DEF Request
  <2>4. req' = [req EXCEPT ![w] = [req[w] EXCEPT !.at = "listing", !.fresh = answer]]
    BY <2>1
  <2> QED BY <1>7, <2>3, <2>4 DEF SyncAnswer, TypeOK, history
<1>8. ASSUME NEW w \in Worker, SyncApply(w) PROVE TypeOK'
  <2>1. req[w] \in Request /\ "sync" \in Kind
    BY <1>8, RequestFields DEF SyncApply
  <2>2. ASSUME NEW s \in Slicer PROVE Synced(req[w], s) \in Row
    <3>1. row[s] \in Row /\ req[w].fresh[s] \in State \cup {NoAnswer}
      BY RequestFields DEF TypeOK
    <3> QED BY <3>1 DEF Synced, Row, State
  <2>3. [s \in Slicer |-> Synced(req[w], s)] \in [Slicer -> Row]
    BY <2>2
  <2>4. Opened("sync", "work", {}) \in Request
    BY <2>1, OpenedType
  <2>5. [Opened("sync", "work", {}) EXCEPT !.work = [s \in Slicer |-> Synced(req[w], s)]]
          \in Request
    BY <2>3, <2>4 DEF Request
  <2> QED BY <1>8, <2>5 DEF SyncApply, TypeOK, history
<1>9. ASSUME NEW w \in Worker, Commit(w) PROVE TypeOK'
  <2>1. row' \in [Slicer -> Row]
    <3>1. ASSUME NEW s \in Slicer
          PROVE  Flush(row[s], req[w].base[s], req[w].work[s], s \in req[w].wrote) \in Row
      <4>1. row[s] \in Row /\ req[w].base[s] \in Row /\ req[w].work[s] \in Row
        BY RequestFields DEF TypeOK
      <4> QED BY <4>1 DEF Flush, Merge, Row
    <3> QED BY <1>9, <3>1 DEF Commit
  <2>2. seen' \in [Slicer -> State] /\ noticed' \in [Slicer -> Nat]
    BY <1>9, RequestFields DEF Commit, Record, Polled, TypeOK
  <2>3. started' \in [Slicer -> {"no", "owed", "covered"}]
    BY <1>9 DEF Commit, Record, TypeOK
  <2> QED BY <1>9, <2>1, <2>2, <2>3, IdleType DEF Commit, TypeOK
<1>10. ASSUME NEW w \in Worker, NEW s \in Slicer, Capture(w, s) PROVE TypeOK'
  <2>1. CaptureSource(req[w], s) \in Source
    BY DEF CaptureSource, Source
  <2>2. Captured(req[w].work[s], doc[s], CaptureSource(req[w], s)) \in Row
    BY <2>1, RequestFields, CapturedType DEF TypeOK
  <2>3. Stored(req[w], s, Captured(req[w].work[s], doc[s], CaptureSource(req[w], s)))
          \in Request
    BY <2>2, RequestFields, CallDone
  <2> QED BY <1>10, <2>3 DEF Capture, TypeOK, history
<1>11. ASSUME NEW w \in Worker, NEW s \in Slicer, CaptureFails(w, s) PROVE TypeOK'
  <2>1. PICK e \in Error :
          req' = [req EXCEPT ![w] = Done(@, s, CaptureFailed(@.work[s], e))]
    BY <1>11 DEF CaptureFails
  <2>2. Done(req[w], s, CaptureFailed(req[w].work[s], e)) \in Request
    BY RequestFields, CaptureFailedType, CallDone
  <2> QED BY <1>11, <2>1, <2>2 DEF CaptureFails, TypeOK, history
<1>12. ASSUME NEW w \in Worker, NEW s \in Slicer, UpdateRead(w, s) PROVE TypeOK'
  <2>0. PICK state \in {live[s], NoState} :
          req' = [req EXCEPT ![w] = Read(@, s, state)]
    BY <1>12 DEF UpdateRead
  <2> DEFINE fresh == [req[w].fresh EXCEPT ![s] = state]
  <2>1. fresh \in [Slicer -> State \cup {NoAnswer}]
    BY RequestFields DEF TypeOK, State
  <2>2. Read(req[w], s, state) = [req[w] EXCEPT !.fresh = fresh]
    BY DEF Read
  <2> HIDE DEF fresh
  <2>3. Read(req[w], s, state) \in Request
    <3>1. req[w] \in Request
      BY RequestFields
    <3> QED BY <2>1, <2>2, <3>1 DEF Request
  <2> QED BY <1>12, <2>0, <2>3 DEF UpdateRead, TypeOK, history
<1>13. ASSUME NEW w \in Worker, NEW s \in Slicer, UpdateNotSent(w, s) PROVE TypeOK'
  <2>1. Done(req[w], s, req[w].work[s]) \in Request
    BY RequestFields, CallDone
  <2> QED BY <1>13, <2>1 DEF UpdateNotSent, TypeOK, history
<1>14. ASSUME NEW w \in Worker, NEW s \in Slicer, UpdatePatch(w, s) PROVE TypeOK'
  <2>1. live' \in [Slicer -> RetrieveState] /\ doc' \in [Slicer -> Nat]
    BY <1>14 DEF UpdatePatch, Reconfigured, TypeOK, RetrieveState
  <2>2. /\ StoreUpdatedConfig(req[w].work[s], doc'[s], req[w].fresh[s]) \in Row
        /\ UpdatedUnread(req[w].work[s]) \in Row
        /\ req[w].work[s] \in Row
    <3>1. req[w].fresh[s] \in State
      BY <1>14, RequestFields DEF UpdatePatch
    <3> QED BY <2>1, <3>1, RequestFields, UpdatedType, PendingSet
  <2>3. UpdateAnswered(req[w], s, doc'[s]) \subseteq Request
    BY <2>2, RequestFields, CallDone DEF UpdateAnswered
  <2> QED BY <1>14, <2>1, <2>3 DEF UpdatePatch, TypeOK, history
<1>15. CASE UNCHANGED vars
  BY <1>15 DEF vars, TypeOK
<1>16. ASSUME NEW w \in Worker,
              \/ BeginPoll(w) \/ BeginTarget(w) \/ BeginRefresh(w)
              \/ BeginUpdate(w) \/ BeginSync(w)
       PROVE  TypeOK'
  <2>1. ASSUME BeginPoll(w) PROVE TypeOK'
    <3>1. PICK targets \in (SUBSET Active) \ {{}} : Begin(w, "poll", "fetch", targets)
      BY <2>1 DEF BeginPoll
    <3> QED BY <1>3, <3>1 DEF Begin, Active
  <2>2. ASSUME BeginTarget(w) PROVE TypeOK'
    <3>1. PICK s \in Active, kind \in {"start", "stop"} : Begin(w, kind, "patch", {s})
      BY <2>2 DEF BeginTarget
    <3>2. kind \in Kind /\ {s} \in SUBSET Slicer
      BY <3>1 DEF Begin, Active
    <3> QED BY <1>3, <3>1, <3>2
  <2>3. ASSUME BeginRefresh(w) PROVE TypeOK'
    <3>1. PICK s \in Active : Begin(w, "refresh", "work", {s})
      BY <2>3 DEF BeginRefresh
    <3> QED BY <1>3, <3>1 DEF Begin, Active
  <2>4. ASSUME BeginUpdate(w) PROVE TypeOK'
    <3>1. PICK targets \in (SUBSET Active) \ {{}} : Begin(w, "update", "work", targets)
      BY <2>4 DEF BeginUpdate
    <3> QED BY <1>3, <3>1 DEF Begin, Active
  <2>5. ASSUME BeginSync(w) PROVE TypeOK'
    <3>1. "sync" \in Kind /\ Begin(w, "sync", "fetch", {})
      BY <2>5 DEF BeginSync, Begin
    <3> QED BY <1>3, <3>1
  <2> QED BY <1>16, <2>1, <2>2, <2>3, <2>4, <2>5
<1> QED
  BY <1>1, <1>2, <1>4, <1>5, <1>6, <1>7, <1>8, <1>9, <1>10, <1>11, <1>12, <1>13,
     <1>14, <1>15, <1>16 DEF Next

\* Every value the model reaches has its type.
THEOREM TypeCorrect == Spec => []TypeOK
  BY TypeInit, TypeStep, PTL DEF Spec

-----------------------------------------------------------------------------
(* Any number of workers.  A request's own copy of a row differs from the  *)
(* row it read in the two columns that matter only where it captured.      *)

CopiesFromCapture(r) ==
    \A s \in Slicer :
      /\ r.base[s].pending /\ ~r.work[s].pending => s \in r.wrote
      /\ r.work[s].cfg # r.base[s].cfg => s \in r.wrote
      /\ s \in r.wrote => r.work[s].cfg # NoConfig

WorkInv == \A w \in Worker : CopiesFromCapture(req[w])

LEMMA OpenedCopies ==
  ASSUME NEW kind, NEW at, NEW targets
  PROVE  CopiesFromCapture(Opened(kind, at, targets)) /\ CopiesFromCapture(Idle)
  BY DEF CopiesFromCapture, Opened, Idle

\* A finished call that stored nothing leaves a pending flag set, and the copy.
LEMMA DoneCopies ==
  ASSUME NEW r \in Request, NEW s \in Slicer, NEW new \in Row, CopiesFromCapture(r),
         r.work[s].pending => new.pending, new.cfg = r.work[s].cfg
  PROVE  CopiesFromCapture(Done(r, s, new))
<1>1. r.work \in [Slicer -> Row] /\ r.base \in [Slicer -> Row]
  BY DEF Request
<1>2. /\ Done(r, s, new).work = [r.work EXCEPT ![s] = new]
      /\ Done(r, s, new).base = r.base /\ Done(r, s, new).wrote = r.wrote
  BY DEF Done, Request
<1>3. r.work[s].pending \in BOOLEAN /\ new.pending \in BOOLEAN
  BY <1>1 DEF Row
<1> QED BY <1>1, <1>2, <1>3 DEF CopiesFromCapture

LEMMA StoredCopies ==
  ASSUME NEW r \in Request, NEW s \in Slicer, NEW new \in Row, CopiesFromCapture(r),
         new.cfg # NoConfig
  PROVE  CopiesFromCapture(Stored(r, s, new))
<1>1. r.work \in [Slicer -> Row] /\ r.base \in [Slicer -> Row] /\ r.wrote \subseteq Slicer
  BY DEF Request
<1>2. /\ Stored(r, s, new).work = [r.work EXCEPT ![s] = new]
      /\ Stored(r, s, new).base = r.base /\ Stored(r, s, new).wrote = r.wrote \cup {s}
  BY DEF Stored, Done, Request
<1> QED BY <1>1, <1>2 DEF CopiesFromCapture

\* What a capture stores is a configuration.
LEMMA CapturedSome ==
  ASSUME NEW r \in Row, NEW d \in Nat, NEW src \in Source
  PROVE  Captured(r, d, src).cfg # NoConfig
  BY DEF Captured, NoConfig, Source, Row

LEMMA UpdatedSome ==
  ASSUME NEW r \in Row, NEW d \in Nat, NEW st \in State
  PROVE  StoreUpdatedConfig(r, d, st).cfg # NoConfig
<1>1. Captured(r, d, "update") \in Row /\ Captured(r, d, "update").cfg # NoConfig
  BY CapturedType, CapturedSome DEF Source
<1> QED BY <1>1 DEF StoreUpdatedConfig, Row

\* One worker's request changes, to one that keeps the invariant.
LEMMA WorkInvUpdate ==
  ASSUME TypeOK, WorkInv, NEW w \in Worker, NEW r, CopiesFromCapture(r),
         req' = [req EXCEPT ![w] = r]
  PROVE  WorkInv'
<1>1. \A v \in Worker : req'[v] = req[v] \/ req'[v] = r
  BY DEF TypeOK
<1>2. \A v \in Worker : CopiesFromCapture(req'[v])
  BY <1>1 DEF WorkInv
<1> QED BY <1>2 DEF WorkInv, CopiesFromCapture

LEMMA WorkInit == Init => WorkInv
  BY OpenedCopies DEF Init, WorkInv

LEMMA WorkStep == TypeOK /\ WorkInv /\ [Next]_vars => WorkInv'
<1> SUFFICES ASSUME TypeOK, WorkInv, [Next]_vars PROVE WorkInv'
  OBVIOUS
<1>0. ASSUME UNCHANGED req PROVE WorkInv'
  BY <1>0 DEF WorkInv, CopiesFromCapture
<1>1. ASSUME NEW s \in Slicer, UplynkMoves(s) \/ UplynkEdited(s) PROVE WorkInv'
  BY <1>0, <1>1 DEF UplynkMoves, UplynkEdited
<1>2. ASSUME NEW w \in Worker,
             \/ BeginPoll(w) \/ BeginTarget(w) \/ BeginRefresh(w)
             \/ BeginUpdate(w) \/ BeginSync(w)
      PROVE  WorkInv'
  <2>1. PICK kind, at, targets : req' = [req EXCEPT ![w] = Opened(kind, at, targets)]
    BY <1>2 DEF BeginPoll, BeginTarget, BeginRefresh, BeginUpdate, BeginSync, Begin
  <2>2. CopiesFromCapture(Opened(kind, at, targets))
    BY OpenedCopies
  <2> QED BY <2>1, <2>2, WorkInvUpdate
<1>3. ASSUME NEW w \in Worker, Abandon(w) \/ Commit(w) PROVE WorkInv'
  <2>1. req' = [req EXCEPT ![w] = Idle]
    BY <1>3 DEF Abandon, Commit
  <2> QED BY <2>1, OpenedCopies, WorkInvUpdate
<1>4. ASSUME NEW w \in Worker, PollAnswer(w) PROVE WorkInv'
  <2>1. PICK answer \in Answers(req[w].todo) :
          req' = [req EXCEPT ![w] = PollAnswered(@, answer)]
    BY <1>4 DEF PollAnswer
  <2>2. CopiesFromCapture(req[w]) /\ req[w] \in Request /\ req[w].work \in [Slicer -> Row]
    BY RequestFields DEF WorkInv
  <2> DEFINE r == PollAnswered(req[w], answer)
  <2>3. /\ r.base = req[w].base /\ r.wrote = req[w].wrote
        /\ r.work = [s \in Slicer |-> IF s \in {q \in Slicer : answer[q] # NoAnswer}
             THEN [req[w].work[s] EXCEPT !.lastState = answer[s]] ELSE req[w].work[s]]
    BY <2>2 DEF PollAnswered, Request
  <2>4. \A s \in Slicer : /\ r.work[s].pending = req[w].work[s].pending
                          /\ r.work[s].cfg = req[w].work[s].cfg
    BY <2>2, <2>3 DEF Row
  <2>5. CopiesFromCapture(r)
    BY <2>2, <2>3, <2>4 DEF CopiesFromCapture
  <2> HIDE DEF r
  <2>6. req' = [req EXCEPT ![w] = r]
    BY <2>1 DEF r
  <2> QED BY <2>5, <2>6, WorkInvUpdate
<1>5. ASSUME NEW w \in Worker, TargetAnswer(w) PROVE WorkInv'
  <2>1. CopiesFromCapture(req[w]) /\ req[w] \in Request /\ req[w].work \in [Slicer -> Row]
    BY RequestFields DEF WorkInv
  <2>2. CopiesFromCapture(TargetSet(req[w]))
    <3>1. /\ TargetSet(req[w]).base = req[w].base /\ TargetSet(req[w]).wrote = req[w].wrote
          /\ TargetSet(req[w]).work = [s \in Slicer |->
               IF req[w].kind = "start" /\ s \in req[w].todo
               THEN [req[w].work[s] EXCEPT !.pending = TRUE] ELSE req[w].work[s]]
      BY <2>1 DEF TargetSet, Request
    <3>2. \A s \in Slicer : /\ req[w].work[s].pending => TargetSet(req[w]).work[s].pending
                            /\ TargetSet(req[w]).work[s].cfg = req[w].work[s].cfg
      BY <2>1, <3>1 DEF Row
    <3> QED BY <2>1, <3>1, <3>2 DEF CopiesFromCapture
  <2>3. CopiesFromCapture([req[w] EXCEPT !.at = "work", !.todo = {}])
    BY <2>1 DEF CopiesFromCapture, Request
  <2>4. PICK r : CopiesFromCapture(r) /\ req' = [req EXCEPT ![w] = r]
    BY <1>5, <2>2, <2>3 DEF TargetAnswer
  <2> QED BY <2>4, WorkInvUpdate
<1>6. ASSUME NEW w \in Worker, SyncAnswer(w) PROVE WorkInv'
  <2>1. PICK fresh : req' = [req EXCEPT ![w].at = "listing", ![w].fresh = fresh]
    BY <1>6 DEF SyncAnswer
  <2>2. req' = [req EXCEPT ![w] = [req[w] EXCEPT !.at = "listing", !.fresh = fresh]]
    BY <2>1
  <2>3. CopiesFromCapture([req[w] EXCEPT !.at = "listing", !.fresh = fresh])
    BY RequestFields DEF WorkInv, CopiesFromCapture, Request
  <2> QED BY <2>2, <2>3, WorkInvUpdate
<1>7. ASSUME NEW w \in Worker, SyncApply(w) PROVE WorkInv'
  <2> DEFINE r == [Opened("sync", "work", {}) EXCEPT
                     !.work = [s \in Slicer |-> Synced(req[w], s)]]
  <2>1. /\ r.base = row /\ r.wrote = {}
        /\ r.work = [s \in Slicer |-> Synced(req[w], s)]
    BY DEF Opened, Idle
  <2>2. \A s \in Slicer : /\ Synced(req[w], s).pending = row[s].pending
                          /\ Synced(req[w], s).cfg = row[s].cfg
    <3>1. \A s \in Slicer : row[s] \in Row
      BY DEF TypeOK
    <3> QED BY <3>1 DEF Synced, Row
  <2>3. CopiesFromCapture(r)
    BY <2>1, <2>2 DEF CopiesFromCapture
  <2>4. req' = [req EXCEPT ![w] = r]
    BY <1>7 DEF SyncApply
  <2> HIDE DEF r
  <2> QED BY <2>3, <2>4, WorkInvUpdate
<1>8. ASSUME NEW w \in Worker, NEW s \in Slicer,
             \/ Capture(w, s) \/ CaptureFails(w, s)
             \/ UpdateRead(w, s) \/ UpdateNotSent(w, s) \/ UpdatePatch(w, s)
      PROVE  WorkInv'
  <2>1. /\ CopiesFromCapture(req[w]) /\ req[w] \in Request
        /\ req[w].work \in [Slicer -> Row] /\ req[w].work[s] \in Row
        /\ req[w].fresh[s] \in State \cup {NoAnswer}
    BY RequestFields DEF WorkInv
  <2>2. CASE Capture(w, s)
    <3> DEFINE new == Captured(req[w].work[s], doc[s], CaptureSource(req[w], s))
    <3>1. CaptureSource(req[w], s) \in Source /\ doc[s] \in Nat
      BY DEF CaptureSource, Source, TypeOK
    <3>2. new \in Row /\ new.cfg # NoConfig
      BY <2>1, <3>1, CapturedType, CapturedSome
    <3>3. req' = [req EXCEPT ![w] = Stored(req[w], s, new)]
      BY <2>2 DEF Capture
    <3> HIDE DEF new
    <3> QED BY <2>1, <3>2, <3>3, StoredCopies, WorkInvUpdate
  <2>3. CASE CaptureFails(w, s)
    <3>1. PICK e \in Error :
            req' = [req EXCEPT ![w] = Done(@, s, CaptureFailed(@.work[s], e))]
      BY <2>3 DEF CaptureFails
    <3>2. /\ CaptureFailed(req[w].work[s], e) \in Row
          /\ CaptureFailed(req[w].work[s], e).pending
          /\ CaptureFailed(req[w].work[s], e).cfg = req[w].work[s].cfg
      BY <2>1, CaptureFailedType DEF CaptureFailed, Row
    <3> QED BY <2>1, <3>1, <3>2, DoneCopies, WorkInvUpdate
  <2>4. CASE UpdateRead(w, s)
    <3>1. PICK state : req' = [req EXCEPT ![w] = Read(req[w], s, state)]
      BY <2>4 DEF UpdateRead
    <3>2. CopiesFromCapture(Read(req[w], s, state))
      BY <2>1 DEF CopiesFromCapture, Read, Request
    <3> QED BY <3>1, <3>2, WorkInvUpdate
  <2>5. CopiesFromCapture(Done(req[w], s, req[w].work[s]))
    BY <2>1, DoneCopies
  <2>6. CASE UpdateNotSent(w, s)
    BY <2>5, <2>6, WorkInvUpdate DEF UpdateNotSent
  <2>7. CASE UpdatePatch(w, s)
    <3>1. doc'[s] \in Nat /\ req[w].fresh[s] \in State
      BY <2>1, <2>7, TypeStep DEF TypeOK, UpdatePatch
    <3>2. CopiesFromCapture(Stored(req[w], s,
            StoreUpdatedConfig(req[w].work[s], doc'[s], req[w].fresh[s])))
      BY <2>1, <3>1, UpdatedType, UpdatedSome, StoredCopies
    <3>3. CopiesFromCapture(Done(req[w], s, UpdatedUnread(req[w].work[s])))
      <4>1. /\ UpdatedUnread(req[w].work[s]) \in Row
            /\ UpdatedUnread(req[w].work[s]).pending
            /\ UpdatedUnread(req[w].work[s]).cfg = req[w].work[s].cfg
        BY <2>1, PendingSet DEF UpdatedUnread, Row
      <4> QED BY <2>1, <4>1, DoneCopies
    <3>4. PICK r \in UpdateAnswered(req[w], s, doc'[s]) : req' = [req EXCEPT ![w] = r]
      BY <2>7 DEF UpdatePatch
    <3>5. CopiesFromCapture(r)
      BY <2>5, <3>2, <3>3, <3>4 DEF UpdateAnswered
    <3> QED BY <3>4, <3>5, WorkInvUpdate
  <2> QED BY <1>8, <2>2, <2>3, <2>4, <2>6, <2>7
<1>9. CASE UNCHANGED vars
  BY <1>0, <1>9 DEF vars
<1> QED
  BY <1>1, <1>2, <1>3, <1>4, <1>5, <1>6, <1>7, <1>8, <1>9 DEF Next

\* Only a commit writes the table.
LEMMA RowByCommit ==
  ASSUME [Next]_vars, row' # row
  PROVE  \E w \in Worker : Commit(w)
  BY DEF Next, vars, UplynkMoves, UplynkEdited, BeginPoll, BeginTarget, BeginRefresh,
         BeginUpdate, BeginSync, Begin, PollAnswer, TargetAnswer, SyncAnswer, SyncApply,
         Abandon, Capture, CaptureFails, UpdateRead, UpdateNotSent, UpdatePatch

\* However requests overlap, a pending capture is only cleared by a request
\* that stored a configuration.
THEOREM PendingKept == Spec => PendingClearedByCapture
<1>1. TypeOK /\ WorkInv /\ [Next]_vars =>
        [\A s \in Slicer : row[s].pending /\ ~row'[s].pending =>
           \E w \in Worker : s \in req[w].wrote /\ req'[w].at = "idle"]_vars
  <2> SUFFICES ASSUME TypeOK, WorkInv, [Next]_vars, NEW s \in Slicer,
                      row[s].pending, ~row'[s].pending
               PROVE  \E w \in Worker : s \in req[w].wrote /\ req'[w].at = "idle"
    OBVIOUS
  <2>1. PICK w \in Worker : Commit(w)
    BY RowByCommit
  <2>2. /\ row'[s] = Flush(row[s], req[w].base[s], req[w].work[s], s \in req[w].wrote)
        /\ req'[w].at = "idle"
    BY <2>1 DEF Commit, TypeOK, Idle
  <2>3. req[w].base[s].pending /\ ~req[w].work[s].pending
    <3>1. req[w].base[s].pending \in BOOLEAN /\ req[w].work[s].pending \in BOOLEAN
      BY RequestFields DEF Row
    <3> QED BY <2>2, <3>1 DEF Flush, Merge
  <2> QED BY <2>2, <2>3 DEF WorkInv, CopiesFromCapture
<1> QED BY <1>1, TypeInit, TypeStep, WorkInit, WorkStep, PTL DEF Spec, PendingClearedByCapture

\* However requests overlap, nothing but a fresh capture changes the stored
\* copy, and none of them empties it.
THEOREM CopyOnlyReplaced == Spec => CopyKept
<1>1. TypeOK /\ WorkInv /\ [Next]_vars =>
        [\A s \in Slicer : row'[s].cfg # row[s].cfg =>
           /\ row'[s].cfg # NoConfig
           /\ \E w \in Worker : s \in req[w].wrote /\ req'[w].at = "idle"]_vars
  <2> SUFFICES ASSUME TypeOK, WorkInv, [Next]_vars, NEW s \in Slicer,
                      row'[s].cfg # row[s].cfg
               PROVE  /\ row'[s].cfg # NoConfig
                      /\ \E w \in Worker : s \in req[w].wrote /\ req'[w].at = "idle"
    OBVIOUS
  <2>1. PICK w \in Worker : Commit(w)
    BY RowByCommit
  <2>2. /\ row'[s] = Flush(row[s], req[w].base[s], req[w].work[s], s \in req[w].wrote)
        /\ req'[w].at = "idle"
    BY <2>1 DEF Commit, TypeOK, Idle
  <2>3. CopiesFromCapture(req[w])
    BY DEF WorkInv
  <2>4. s \in req[w].wrote
    BY <2>2, <2>3 DEF Flush, Merge, CopiesFromCapture
  <2>5. row'[s].cfg = req[w].work[s].cfg
    BY <2>2, <2>4 DEF Flush
  <2> QED BY <2>2, <2>3, <2>4, <2>5 DEF CopiesFromCapture
<1> QED BY <1>1, TypeInit, TypeStep, WorkInit, WorkStep, PTL DEF Spec, CopyKept
=============================================================================
