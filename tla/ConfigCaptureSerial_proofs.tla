-------------------- MODULE ConfigCaptureSerial_proofs --------------------
(***************************************************************************)
(* What TLAPS proves of ConfigCapture when requests come one at a time.    *)
(*                                                                         *)
(* With one worker a request's base is the table's row until it commits,   *)
(* so a commit stores the session's copy as it is (FlushAlone), and what   *)
(* holds of the copy at its last call holds of the row.  SerialInv says so *)
(* for the error, the caption and the age of the stored copy.  CurrentInv  *)
(* adds what makes the stored copy that of the last start a poll saw: the  *)
(* row's last_state is the last state a poll was given, so a poll that     *)
(* sees a start has the slicer to do, and then captured or left pending.   *)
(***************************************************************************)
EXTENDS ConfigCapture_proofs

Serial == \A v, w \in Worker : v = w

NoSync == "sync" \notin Kind

RequestKept(r) ==
    /\ r.at \in {"fetch", "patch", "work"} => r.base = row
    /\ r.at \in {"fetch", "patch"} => r.work = r.base
    /\ r.at # "work" => r.owes = {}
    /\ r.owes = {} \/ r.todo = {}
    /\ r.at = "work" =>
         \A s \in Slicer :
           /\ r.work[s].error # NoError => r.work[s].pending
           /\ r.work[s].source = r.work[s].cfg.by
           /\ row[s].cfg.doc =< r.work[s].cfg.doc /\ r.work[s].cfg.doc =< doc[s]
           /\ s \in r.owes => r.work[s].pending

RowsKept ==
    /\ ErrorRetried /\ SourceTruthful
    /\ \A s \in Slicer : row[s].cfg.doc =< doc[s]

OwedPending == \A s \in Slicer : started[s] = "owed" => row[s].pending

SerialInv == RowsKept /\ OwedPending /\ \A w \in Worker : RequestKept(req[w])

-----------------------------------------------------------------------------
(* One lemma for each way a request changes.                               *)

LEMMA IdleKept == RequestKept(Idle)
  BY DEF RequestKept, Idle

LEMMA OpenedKept ==
  ASSUME RowsKept, TypeOK, NEW kind, NEW at \in {"fetch", "patch", "work"}, NEW targets
  PROVE  RequestKept(Opened(kind, at, targets))
<1>1. /\ Opened(kind, at, targets).base = row /\ Opened(kind, at, targets).work = row
      /\ Opened(kind, at, targets).owes = {}
  BY DEF Opened, Idle
<1>2. \A s \in Slicer : row[s].cfg.doc \in Nat
  BY DEF TypeOK, Row, Config
<1> QED BY <1>1, <1>2 DEF RequestKept, RowsKept, ErrorRetried, SourceTruthful

\* A call leaves the slicer's row with what RequestKept asks of it.
LEMMA DoneKept ==
  ASSUME NEW r \in Request, NEW s \in Slicer, NEW new \in Row, RequestKept(r),
         r.at = "work", s \in r.todo,
         new.error # NoError => new.pending,
         new.source = new.cfg.by,
         row[s].cfg.doc =< new.cfg.doc, new.cfg.doc =< doc[s]
  PROVE  RequestKept(Done(r, s, new)) /\ RequestKept(Stored(r, s, new))
<1>1. r.work \in [Slicer -> Row] /\ r.wrote \subseteq Slicer
  BY DEF Request
<1>2. ASSUME NEW d, d = Done(r, s, new) \/ d = Stored(r, s, new)
      PROVE  /\ d.work = [r.work EXCEPT ![s] = new] /\ d.todo = r.todo \ {s}
             /\ d.base = r.base /\ d.at = "work" /\ d.owes = {}
  BY <1>2 DEF Stored, Done, Request, RequestKept
<1>3. ASSUME NEW d, d = Done(r, s, new) \/ d = Stored(r, s, new) PROVE RequestKept(d)
  BY <1>1, <1>2, <1>3 DEF RequestKept
<1> QED BY <1>3

LEMMA CapturedFields ==
  ASSUME NEW r \in Row, NEW d \in Nat, NEW src \in Source
  PROVE  /\ Captured(r, d, src).error = NoError
         /\ Captured(r, d, src).source = src
         /\ Captured(r, d, src).cfg = [doc |-> d, by |-> src]
         /\ Captured(r, d, src).pending = FALSE
         /\ Captured(r, d, src).lastState = r.lastState
  BY DEF Captured, Row

LEMMA UpdatedFields ==
  ASSUME NEW r \in Row, NEW d \in Nat, NEW st \in State
  PROVE  /\ StoreUpdatedConfig(r, d, st).error = NoError
         /\ StoreUpdatedConfig(r, d, st).source = "update"
         /\ StoreUpdatedConfig(r, d, st).cfg = [doc |-> d, by |-> "update"]
         /\ StoreUpdatedConfig(r, d, st).lastState = r.lastState
<1>1. Captured(r, d, "update") \in Row
  BY CapturedType DEF Source
<1> QED BY <1>1, CapturedFields DEF StoreUpdatedConfig, Row, Source

\* A step of one request that leaves the table and the history alone.
LEMMA KeptUpdate ==
  ASSUME TypeOK, SerialInv, NEW w \in Worker, NEW r,
         req' = [req EXCEPT ![w] = r], UNCHANGED <<row, doc, history>>, RequestKept(r)
  PROVE  SerialInv'
<1>1. \A v \in Worker : req'[v] = req[v] \/ req'[v] = r
  BY DEF TypeOK
<1>2. \A v \in Worker : RequestKept(req'[v])
  BY <1>1 DEF SerialInv
<1>3. row' = row /\ doc' = doc /\ started' = started
  BY DEF history
<1> QED
  BY <1>2, <1>3 DEF SerialInv, RequestKept, RowsKept, ErrorRetried, SourceTruthful, OwedPending

\* New settings at Uplynk leave the stored copies older.
LEMMA KeptReconfigured ==
  ASSUME TypeOK, SerialInv, NEW s \in Slicer, Reconfigured(s)
  PROVE  /\ \A t \in Slicer : doc[t] =< doc'[t]
         /\ \A w \in Worker : \A t \in Slicer :
              req[w].at = "work" => req[w].work[t].cfg.doc =< doc'[t]
         /\ \A t \in Slicer : row[t].cfg.doc =< doc'[t]
<1>1. \A t \in Slicer : doc[t] \in Nat /\ doc'[t] \in Nat /\ doc[t] =< doc'[t]
  BY DEF Reconfigured, TypeOK
<1>2. \A t \in Slicer : row[t].cfg.doc \in Nat
  BY DEF TypeOK, Row, Config
<1>3. ASSUME NEW w \in Worker, NEW t \in Slicer PROVE req[w].work[t].cfg.doc \in Nat
  BY RequestFields DEF Row, Config
<1> QED BY <1>1, <1>2, <1>3 DEF SerialInv, RequestKept, RowsKept

-----------------------------------------------------------------------------
(* SerialInv is inductive.                                                 *)

LEMMA SerialInit == Init => SerialInv
<1> SUFFICES ASSUME Init PROVE SerialInv
  OBVIOUS
<1>1. ASSUME NEW s \in Slicer
      PROVE  /\ row[s].error = NoError /\ row[s].source = "none"
             /\ row[s].cfg = NoConfig /\ doc[s] = 1 /\ started[s] = "no"
  BY DEF Init, NewRow
<1> QED
  BY <1>1, IdleKept DEF Init, SerialInv, RowsKept, ErrorRetried, SourceTruthful,
     OwedPending, NoConfig

\* The commit, where the workers have to take turns.
LEMMA CommitAlone ==
  ASSUME TypeOK, SerialInv, Serial, NEW w \in Worker, Commit(w)
  PROVE  row' = req[w].work
<1>1. req[w].base = row /\ req[w].base \in [Slicer -> Row] /\ req[w].work \in [Slicer -> Row]
  BY RequestFields DEF SerialInv, RequestKept, Commit
<1>2. ASSUME NEW s \in Slicer
      PROVE  Flush(row[s], req[w].base[s], req[w].work[s], s \in req[w].wrote) = req[w].work[s]
  BY <1>1, FlushAlone DEF TypeOK
<1>3. row' = [s \in Slicer |-> req[w].work[s]]
  BY <1>2 DEF Commit
<1> QED BY <1>1, <1>3

LEMMA SerialCommit ==
  ASSUME TypeOK, SerialInv, WorkInv, Serial, NEW w \in Worker, Commit(w)
  PROVE  SerialInv'
<1>1. row' = req[w].work /\ doc' = doc
  BY CommitAlone DEF Commit
<1>2. RowsKept'
  BY <1>1 DEF Commit, SerialInv, RequestKept, RowsKept, ErrorRetried, SourceTruthful
<1>3. OwedPending'
  <2> SUFFICES ASSUME NEW s \in Slicer, started'[s] = "owed" PROVE row'[s].pending
    BY DEF OwedPending
  <2>1. CASE s \in req[w].owes
    BY <1>1, <2>1 DEF Commit, SerialInv, RequestKept
  <2>2. CASE s \notin req[w].owes
    <3>1. started[s] = "owed" /\ s \notin req[w].wrote
      BY <2>2 DEF Commit, Record
    <3>2. row[s].pending /\ req[w].base = row
      BY <3>1 DEF SerialInv, OwedPending, RequestKept, Commit
    <3> QED BY <1>1, <3>1, <3>2 DEF WorkInv, CopiesFromCapture
  <2> QED BY <2>1, <2>2
<1>4. \A v \in Worker : req'[v] = Idle
  BY DEF Commit, TypeOK, Serial
<1>5. \A v \in Worker : RequestKept(req[v])'
  BY <1>4 DEF RequestKept, Idle
<1> QED BY <1>2, <1>3, <1>5 DEF SerialInv

\* The PATCH of an update, which changes Uplynk's settings at the same time.
LEMMA SerialPatch ==
  ASSUME TypeOK, SerialInv, NEW w \in Worker, NEW s \in Slicer, UpdatePatch(w, s)
  PROVE  SerialInv'
<1>1. /\ RequestKept(req[w]) /\ req[w] \in Request /\ req[w].work \in [Slicer -> Row]
      /\ req[w].at = "work" /\ s \in req[w].todo /\ req[w].owes = {}
      /\ req[w].fresh[s] \in State /\ req[w].work[s] \in Row
  BY RequestFields DEF SerialInv, UpdatePatch, UpdateDue, RequestKept
<1>2. /\ row' = row /\ started' = started /\ Reconfigured(s)
      /\ row[s] \in Row /\ row[s].cfg.doc \in Nat /\ doc'[s] \in Nat
  BY DEF UpdatePatch, history, TypeOK, Row, Config, Reconfigured
<1>3. PICK r \in UpdateAnswered(req[w], s, doc'[s]) : req' = [req EXCEPT ![w] = r]
  BY DEF UpdatePatch
<1>4. PICK new : /\ r = Stored(req[w], s, new) \/ r = Done(req[w], s, new)
                 /\ \/ new = StoreUpdatedConfig(req[w].work[s], doc'[s], req[w].fresh[s])
                    \/ new = UpdatedUnread(req[w].work[s])
                    \/ new = req[w].work[s]
  BY <1>3 DEF UpdateAnswered
<1>5. /\ new.error # NoError => new.pending
      /\ new.source = new.cfg.by
      /\ row[s].cfg.doc =< new.cfg.doc /\ new.cfg.doc =< doc'[s]
  <2>1. /\ req[w].work[s].error # NoError => req[w].work[s].pending
        /\ req[w].work[s].source = req[w].work[s].cfg.by
        /\ row[s].cfg.doc =< req[w].work[s].cfg.doc
        /\ req[w].work[s].cfg.doc =< doc'[s] /\ row[s].cfg.doc =< doc'[s]
    BY <1>1, <1>2, KeptReconfigured DEF RequestKept
  <2>2. CASE new = StoreUpdatedConfig(req[w].work[s], doc'[s], req[w].fresh[s])
    <3>1. /\ new.error = NoError /\ new.source = "update"
          /\ new.cfg = [doc |-> doc'[s], by |-> "update"]
      BY <1>1, <1>2, <2>2, UpdatedFields
    <3> QED BY <1>2, <2>1, <3>1
  <2>3. CASE new = UpdatedUnread(req[w].work[s])
    BY <1>1, <2>1, <2>3 DEF UpdatedUnread, Row
  <2> QED BY <1>4, <2>1, <2>2, <2>3
<1>6. /\ r.work = [req[w].work EXCEPT ![s] = new] /\ r.base = row
      /\ r.at = "work" /\ r.owes = {}
  BY <1>1, <1>4 DEF Stored, Done, Request, RequestKept
<1>7. RequestKept(r)'
  BY <1>1, <1>2, <1>5, <1>6, KeptReconfigured DEF RequestKept
<1>8. ASSUME NEW v \in Worker PROVE RequestKept(req[v])'
  <2>1. req'[v] = r \/ req'[v] = req[v]
    BY <1>3 DEF TypeOK
  <2>2. CASE req'[v] = req[v]
    BY <1>2, <2>2, KeptReconfigured DEF SerialInv, RequestKept
  <2>3. CASE req'[v] = r
    BY <1>7, <2>3 DEF RequestKept
  <2> QED BY <2>1, <2>2, <2>3
<1> QED
  BY <1>2, <1>8, KeptReconfigured
     DEF SerialInv, RowsKept, ErrorRetried, SourceTruthful, OwedPending

LEMMA SerialStep ==
  ASSUME TypeOK, WorkInv, SerialInv, Serial, [Next]_vars
  PROVE  SerialInv'
<1>1. ASSUME NEW s \in Slicer, UplynkMoves(s) PROVE SerialInv'
  BY <1>1 DEF UplynkMoves, history, SerialInv, RequestKept, RowsKept, ErrorRetried,
     SourceTruthful, OwedPending
<1>2. ASSUME NEW s \in Slicer, UplynkEdited(s) PROVE SerialInv'
  <2>1. row' = row /\ req' = req /\ started' = started /\ Reconfigured(s)
    BY <1>2 DEF UplynkEdited, history
  <2> QED BY <2>1, KeptReconfigured DEF SerialInv, RequestKept, RowsKept, ErrorRetried,
     SourceTruthful, OwedPending
<1>3. ASSUME NEW w \in Worker,
             \/ BeginPoll(w) \/ BeginTarget(w) \/ BeginRefresh(w)
             \/ BeginUpdate(w) \/ BeginSync(w)
      PROVE  SerialInv'
  <2>1. ASSUME NEW kind, NEW at \in {"fetch", "patch", "work"}, NEW targets,
               Begin(w, kind, at, targets)
        PROVE  SerialInv'
    <3>1. RequestKept(Opened(kind, at, targets))
      BY OpenedKept DEF SerialInv
    <3> QED BY <2>1, <3>1, KeptUpdate DEF Begin
  <2> QED BY <1>3, <2>1 DEF BeginPoll, BeginTarget, BeginRefresh, BeginUpdate, BeginSync
<1>4. ASSUME NEW w \in Worker, Abandon(w) PROVE SerialInv'
  BY <1>4, IdleKept, KeptUpdate DEF Abandon
<1>5. ASSUME NEW w \in Worker, PollAnswer(w) PROVE SerialInv'
  <2>1. PICK answer : req' = [req EXCEPT ![w] = PollAnswered(@, answer)]
    BY <1>5 DEF PollAnswer
  <2>2. /\ RequestKept(req[w]) /\ req[w] \in Request /\ req[w].work \in [Slicer -> Row]
        /\ req[w].at = "fetch" /\ req[w].work = row /\ req[w].base = row
    BY <1>5, RequestFields DEF SerialInv, RequestKept, PollAnswer
  <2> DEFINE r == PollAnswered(req[w], answer)
  <2>3. /\ r.base = req[w].base /\ r.at = "work" /\ r.owes = {}
        /\ r.work = [s \in Slicer |-> IF s \in {q \in Slicer : answer[q] # NoAnswer}
             THEN [req[w].work[s] EXCEPT !.lastState = answer[s]] ELSE req[w].work[s]]
    BY <2>2 DEF PollAnswered, Request, RequestKept
  <2>4. \A s \in Slicer : /\ r.work[s].error = row[s].error
                          /\ r.work[s].pending = row[s].pending
                          /\ r.work[s].source = row[s].source
                          /\ r.work[s].cfg = row[s].cfg /\ row[s].cfg.doc \in Nat
    BY <2>2, <2>3 DEF Row, Config
  <2>5. RequestKept(r)
    BY <2>2, <2>3, <2>4 DEF RequestKept, SerialInv, RowsKept, ErrorRetried, SourceTruthful
  <2> HIDE DEF r
  <2>6. req' = [req EXCEPT ![w] = r]
    BY <2>1 DEF r
  <2> QED BY <1>5, <2>5, <2>6, KeptUpdate DEF PollAnswer
<1>6. ASSUME NEW w \in Worker, TargetAnswer(w) PROVE SerialInv'
  <2>1. /\ RequestKept(req[w]) /\ req[w] \in Request /\ req[w].work \in [Slicer -> Row]
        /\ req[w].at = "patch" /\ req[w].work = row /\ req[w].base = row /\ req[w].owes = {}
    BY <1>6, RequestFields DEF SerialInv, RequestKept, TargetAnswer
  <2>2. \A s \in Slicer : row[s].cfg.doc \in Nat
    BY DEF TypeOK, Row, Config
  <2>3. RequestKept(TargetSet(req[w]))
    <3> DEFINE r == TargetSet(req[w])
    <3>1. /\ r.base = row /\ r.todo = {} /\ r.at = "work"
          /\ r.work = [s \in Slicer |->
               IF req[w].kind = "start" /\ s \in req[w].todo
               THEN [req[w].work[s] EXCEPT !.pending = TRUE] ELSE req[w].work[s]]
          /\ \A s \in r.owes : req[w].kind = "start" /\ s \in req[w].todo
      BY <2>1 DEF TargetSet, Request
    <3>2. \A s \in Slicer : /\ row[s].pending => r.work[s].pending
                            /\ r.work[s].error = row[s].error
                            /\ r.work[s].source = row[s].source
                            /\ r.work[s].cfg = row[s].cfg
                            /\ s \in r.owes => r.work[s].pending
      BY <2>1, <3>1 DEF Row
    <3> QED BY <2>1, <2>2, <3>1, <3>2
         DEF RequestKept, SerialInv, RowsKept, ErrorRetried, SourceTruthful
  <2>4. RequestKept([req[w] EXCEPT !.at = "work", !.todo = {}])
    <3> DEFINE r == [req[w] EXCEPT !.at = "work", !.todo = {}]
    <3>1. r.base = row /\ r.work = row /\ r.todo = {} /\ r.owes = {} /\ r.at = "work"
      BY <2>1 DEF Request
    <3> HIDE DEF r
    <3>2. RequestKept(r)
      BY <2>2, <3>1 DEF RequestKept, SerialInv, RowsKept, ErrorRetried, SourceTruthful
    <3> QED BY <3>2 DEF r
  <2>5. PICK r : RequestKept(r) /\ req' = [req EXCEPT ![w] = r]
    BY <1>6, <2>3, <2>4 DEF TargetAnswer
  <2> QED BY <1>6, <2>5, KeptUpdate DEF TargetAnswer
<1>7. ASSUME NEW w \in Worker, SyncAnswer(w) PROVE SerialInv'
  <2>1. PICK fresh : req' = [req EXCEPT ![w].at = "listing", ![w].fresh = fresh]
    BY <1>7 DEF SyncAnswer
  <2>2. req' = [req EXCEPT ![w] = [req[w] EXCEPT !.at = "listing", !.fresh = fresh]]
    BY <2>1
  <2>3. RequestKept([req[w] EXCEPT !.at = "listing", !.fresh = fresh])
    BY <1>7, RequestFields DEF SerialInv, RequestKept, Request, SyncAnswer
  <2> QED BY <1>7, <2>2, <2>3, KeptUpdate DEF SyncAnswer
<1>8. ASSUME NEW w \in Worker, SyncApply(w) PROVE SerialInv'
  <2> DEFINE r == [Opened("sync", "work", {}) EXCEPT
                     !.work = [s \in Slicer |-> Synced(req[w], s)]]
  <2>1. /\ r.base = row /\ r.owes = {} /\ r.at = "work"
        /\ r.work = [s \in Slicer |-> Synced(req[w], s)]
    BY DEF Opened, Idle
  <2>2. \A s \in Slicer : /\ Synced(req[w], s).pending = row[s].pending
                          /\ Synced(req[w], s).error = row[s].error
                          /\ Synced(req[w], s).source = row[s].source
                          /\ Synced(req[w], s).cfg = row[s].cfg /\ row[s].cfg.doc \in Nat
    <3>1. \A s \in Slicer : row[s] \in Row
      BY DEF TypeOK
    <3> QED BY <3>1 DEF Synced, Row, Config
  <2>3. RequestKept(r)
    BY <2>1, <2>2 DEF RequestKept, SerialInv, RowsKept, ErrorRetried, SourceTruthful
  <2>4. req' = [req EXCEPT ![w] = r]
    BY <1>8 DEF SyncApply
  <2> HIDE DEF r
  <2> QED BY <1>8, <2>3, <2>4, KeptUpdate DEF SyncApply
<1>9. ASSUME NEW w \in Worker, Commit(w) PROVE SerialInv'
  BY <1>9, SerialCommit
<1>10. ASSUME NEW w \in Worker, NEW s \in Slicer,
              \/ Capture(w, s) \/ CaptureFails(w, s)
              \/ UpdateRead(w, s) \/ UpdateNotSent(w, s)
       PROVE  SerialInv'
  <2>1. /\ RequestKept(req[w]) /\ req[w] \in Request /\ req[w].work[s] \in Row
        /\ req[w].at = "work" /\ s \in req[w].todo /\ UNCHANGED <<row, doc, history>>
    BY <1>10, RequestFields DEF SerialInv, Capture, CaptureFails, UpdateRead, UpdateNotSent,
       CaptureDue, UpdateDue
  <2>2. /\ req[w].work[s].error # NoError => req[w].work[s].pending
        /\ req[w].work[s].source = req[w].work[s].cfg.by
        /\ row[s].cfg.doc =< req[w].work[s].cfg.doc
        /\ req[w].work[s].cfg.doc =< doc[s]
    BY <2>1 DEF RequestKept
  <2>3. /\ row[s].cfg.doc \in Nat /\ doc[s] \in Nat /\ req[w].work[s].cfg.doc \in Nat
    BY <2>1 DEF TypeOK, Row, Config
  <2>4. CASE Capture(w, s)
    <3> DEFINE src == CaptureSource(req[w], s)
               new == Captured(req[w].work[s], doc[s], src)
    <3>1. src \in Source
      BY DEF CaptureSource, Source
    <3> HIDE DEF src
    <3>2. /\ new \in Row /\ new.error = NoError /\ new.source = src
          /\ new.cfg = [doc |-> doc[s], by |-> src]
      BY <2>1, <2>3, <3>1, CapturedType, CapturedFields
    <3>3. req' = [req EXCEPT ![w] = Stored(req[w], s, new)]
      BY <2>4 DEF Capture, src
    <3> HIDE DEF new
    <3>4. new.source = new.cfg.by /\ row[s].cfg.doc =< new.cfg.doc /\ new.cfg.doc =< doc[s]
      BY <2>2, <2>3, <3>2
    <3>5. RequestKept(Stored(req[w], s, new))
      BY <2>1, <3>2, <3>4, DoneKept
    <3> QED BY <2>1, <3>3, <3>5, KeptUpdate
  <2>5. CASE CaptureFails(w, s)
    <3>1. PICK e \in Error :
            req' = [req EXCEPT ![w] = Done(@, s, CaptureFailed(@.work[s], e))]
      BY <2>5 DEF CaptureFails
    <3> DEFINE new == CaptureFailed(req[w].work[s], e)
    <3>2. /\ new \in Row /\ new.pending /\ new.source = req[w].work[s].source
          /\ new.cfg = req[w].work[s].cfg
      BY <2>1, CaptureFailedType DEF CaptureFailed, Row
    <3> HIDE DEF new
    <3>3. RequestKept(Done(req[w], s, new))
      BY <2>1, <2>2, <3>2, DoneKept
    <3>4. req' = [req EXCEPT ![w] = Done(req[w], s, new)]
      BY <3>1 DEF new
    <3> QED BY <2>1, <3>3, <3>4, KeptUpdate
  <2>6. CASE UpdateRead(w, s)
    <3>1. PICK state : req' = [req EXCEPT ![w] = Read(req[w], s, state)]
      BY <2>6 DEF UpdateRead
    <3>2. RequestKept(Read(req[w], s, state))
      BY <2>1 DEF RequestKept, Read, Request
    <3> QED BY <2>1, <3>1, <3>2, KeptUpdate
  <2>7. CASE UpdateNotSent(w, s)
    <3>1. RequestKept(Done(req[w], s, req[w].work[s]))
      BY <2>1, <2>2, DoneKept
    <3> QED BY <2>1, <2>7, <3>1, KeptUpdate DEF UpdateNotSent
  <2> QED BY <1>10, <2>4, <2>5, <2>6, <2>7
<1>11. ASSUME NEW w \in Worker, NEW s \in Slicer, UpdatePatch(w, s) PROVE SerialInv'
  BY <1>11, SerialPatch
<1>12. CASE UNCHANGED vars
  BY <1>12 DEF vars, SerialInv, RequestKept, RowsKept, ErrorRetried, SourceTruthful, OwedPending
<1> QED
  BY <1>1, <1>2, <1>3, <1>4, <1>5, <1>6, <1>7, <1>8, <1>9, <1>10, <1>11, <1>12 DEF Next

LEMMA SerialInvariant ==
  ASSUME Serial
  PROVE  Spec => [](TypeOK /\ WorkInv /\ SerialInv)
<1>1. Init => TypeOK /\ WorkInv /\ SerialInv
  BY TypeInit, WorkInit, SerialInit
<1>2. TypeOK /\ WorkInv /\ SerialInv /\ [Next]_vars => (TypeOK /\ WorkInv /\ SerialInv)'
  BY TypeStep, WorkStep, SerialStep
<1> QED BY <1>1, <1>2, PTL DEF Spec

\* With one worker the panel never shows an error without a capture pending.
THEOREM SerialErrorRetried == ASSUME Serial PROVE Spec => []ErrorRetried
<1>1. SerialInv => ErrorRetried
  BY DEF SerialInv, RowsKept
<1> QED BY <1>1, SerialInvariant, PTL

\* With one worker the caption names the capture that stored the copy.
THEOREM SerialSourceTruthful == ASSUME Serial PROVE Spec => []SourceTruthful
<1>1. SerialInv => SourceTruthful
  BY DEF SerialInv, RowsKept
<1> QED BY <1>1, SerialInvariant, PTL

\* With one worker the stored copy never goes back to older settings, whatever
\* the polls, refreshes, updates and syncs that take turns.
THEOREM SerialNeverOlder == ASSUME Serial PROVE Spec => NeverOlder
<1>1. TypeOK /\ SerialInv /\ [Next]_vars =>
        [\A s \in Slicer : row'[s].cfg.doc >= row[s].cfg.doc]_row
  <2> SUFFICES ASSUME TypeOK, SerialInv, [Next]_vars, row' # row, NEW s \in Slicer
               PROVE  row'[s].cfg.doc >= row[s].cfg.doc
    OBVIOUS
  <2>1. PICK w \in Worker : Commit(w)
    BY RowByCommit
  <2>2. row'[s] = req[w].work[s] /\ row[s].cfg.doc =< req[w].work[s].cfg.doc
    BY <2>1, CommitAlone DEF Commit, SerialInv, RequestKept
  <2>3. row[s].cfg.doc \in Nat /\ req[w].work[s].cfg.doc \in Nat
    BY RequestFields DEF TypeOK, Row, Config
  <2> QED BY <2>2, <2>3
<1> QED BY <1>1, SerialInvariant, PTL DEF Spec, NeverOlder

\* With one worker the first poll that sees a console-started slicer running
\* captures it, or leaves the capture pending.
THEOREM SerialStartCaptured == ASSUME Serial PROVE Spec => StartCaptured
<1>1. TypeOK /\ WorkInv /\ SerialInv /\ [Next]_vars =>
        [\A s \in Slicer : started[s] = "owed" /\ started'[s] = "no" =>
           \/ row'[s].pending
           \/ \E w \in Worker : s \in req[w].wrote /\ req'[w].at = "idle"]_vars
  <2> SUFFICES ASSUME TypeOK, WorkInv, SerialInv, [Next]_vars, NEW s \in Slicer,
                      started[s] = "owed", started'[s] = "no", ~row'[s].pending
               PROVE  \E w \in Worker : s \in req[w].wrote /\ req'[w].at = "idle"
    OBVIOUS
  <2>1. row[s].pending
    BY DEF SerialInv, OwedPending
  <2>2. PICK w \in Worker : Commit(w)
    BY <2>1, RowByCommit
  <2>3. /\ row' = req[w].work /\ req[w].base = row /\ req'[w].at = "idle"
    BY <2>2, CommitAlone DEF Commit, SerialInv, RequestKept, TypeOK, Idle
  <2>4. s \in req[w].wrote
    BY <2>1, <2>3 DEF WorkInv, CopiesFromCapture
  <2> QED BY <2>3, <2>4
<1> QED BY <1>1, SerialInvariant, PTL DEF Spec, StartCaptured

-----------------------------------------------------------------------------
(* Without Sync: the stored copy is that of the last start a poll saw.     *)

RequestCurrent(r) ==
    /\ r.at = "patch" => r.kind # "poll"
    /\ \A s \in Slicer : r.at_doc[s] =< doc[s]
    /\ r.at = "work" =>
         \A s \in Slicer :
           /\ ~r.work[s].pending => r.work[s].cfg.doc >= noticed[s]
           /\ ~Polled(r, s) => r.work[s].lastState = row[s].lastState
           /\ Polled(r, s) => r.work[s].lastState = r.fresh[s]
           /\ Polled(r, s) /\ NoticesStart(seen[s], r.fresh[s]) /\ s \notin r.todo =>
                r.work[s].pending \/ r.work[s].cfg.doc >= r.at_doc[s]

RowsCurrent ==
    /\ PanelCurrent
    /\ \A s \in Slicer : noticed[s] =< doc[s]
    /\ \A s \in Slicer : seen[s] = row[s].lastState

CurrentInv == RowsCurrent /\ \A w \in Worker : RequestCurrent(req[w])

LEMMA IdleCurrent == TypeOK => RequestCurrent(Idle)
  BY DEF RequestCurrent, Idle, TypeOK

LEMMA CurrentInit == NoSync /\ Init => CurrentInv
<1> SUFFICES ASSUME NoSync, Init PROVE CurrentInv
  OBVIOUS
<1>1. ASSUME NEW s \in Slicer
      PROVE  /\ row[s].lastState = NoState /\ row[s].cfg = NoConfig
             /\ seen[s] = NoState /\ noticed[s] = 0 /\ doc[s] = 1
  BY DEF Init, NewRow, NoSync
<1>2. RowsCurrent
  BY <1>1 DEF RowsCurrent, PanelCurrent, NoConfig
<1>3. \A w \in Worker : RequestCurrent(req[w])
  <2>1. req = [w \in Worker |-> Idle]
    BY DEF Init
  <2> QED BY <2>1, TypeInit, IdleCurrent
<1> QED BY <1>2, <1>3 DEF CurrentInv

LEMMA CurrentUpdate ==
  ASSUME TypeOK, CurrentInv, NEW w \in Worker, NEW r,
         req' = [req EXCEPT ![w] = r], UNCHANGED <<row, doc, history>>, RequestCurrent(r)
  PROVE  CurrentInv'
<1>1. \A v \in Worker : req'[v] = req[v] \/ req'[v] = r
  BY DEF TypeOK
<1>2. \A v \in Worker : RequestCurrent(req'[v])
  BY <1>1 DEF CurrentInv
<1>3. row' = row /\ doc' = doc /\ seen' = seen /\ noticed' = noticed
  BY DEF history
<1> QED BY <1>2, <1>3 DEF CurrentInv, RequestCurrent, RowsCurrent, PanelCurrent, Polled

LEMMA OpenedCurrent ==
  ASSUME RowsCurrent, TypeOK, NEW kind, NEW at, NEW targets, at = "patch" => kind # "poll"
  PROVE  RequestCurrent(Opened(kind, at, targets))
<1>1. /\ Opened(kind, at, targets).at = at /\ Opened(kind, at, targets).kind = kind
      /\ Opened(kind, at, targets).work = row
      /\ Opened(kind, at, targets).at_doc = [s \in Slicer |-> 0]
      /\ Opened(kind, at, targets).fresh = [s \in Slicer |-> NoAnswer]
  BY DEF Opened, Idle
<1> HIDE DEF Opened
<1> QED BY <1>1 DEF RequestCurrent, RowsCurrent, PanelCurrent, Polled, TypeOK

\* What a finished call leaves in the slicer's row.
LEMMA DoneCurrent ==
  ASSUME NEW r \in Request, NEW s \in Slicer, NEW new \in Row, RequestCurrent(r),
         r.at = "work", s \in r.todo, r.at_doc[s] \in Nat,
         ~new.pending => new.cfg.doc >= noticed[s],
         new.lastState = r.work[s].lastState,
         r.kind = "poll" => new.pending \/ new.cfg.doc >= r.at_doc[s]
  PROVE  RequestCurrent(Done(r, s, new)) /\ RequestCurrent(Stored(r, s, new))
<1>1. r.work \in [Slicer -> Row] /\ r.wrote \subseteq Slicer
  BY DEF Request
<1>2. ASSUME NEW d, d = Done(r, s, new) \/ d = Stored(r, s, new)
      PROVE  /\ d.work = [r.work EXCEPT ![s] = new] /\ d.todo = r.todo \ {s}
             /\ d.kind = r.kind /\ d.at = r.at /\ d.fresh = r.fresh /\ d.at_doc = r.at_doc
  BY <1>2 DEF Stored, Done, Request
<1>3. ASSUME NEW d, d = Done(r, s, new) \/ d = Stored(r, s, new) PROVE RequestCurrent(d)
  BY <1>1, <1>2, <1>3 DEF RequestCurrent, Polled
<1> QED BY <1>3

LEMMA CurrentPollAnswer ==
  ASSUME TypeOK, SerialInv, CurrentInv, NEW w \in Worker, PollAnswer(w)
  PROVE  CurrentInv'
<1>1. PICK answer \in Answers(req[w].todo) :
        req' = [req EXCEPT ![w] = PollAnswered(@, answer)]
  BY DEF PollAnswer
<1>2. /\ req[w] \in Request /\ req[w].work \in [Slicer -> Row]
      /\ req[w].kind = "poll" /\ req[w].work = row /\ req[w].base = row
  BY RequestFields DEF SerialInv, RequestKept, PollAnswer
<1> DEFINE r == PollAnswered(req[w], answer)
           listed == {s \in Slicer : answer[s] # NoAnswer}
           work == [s \in Slicer |-> IF s \in listed
                     THEN [req[w].work[s] EXCEPT !.lastState = answer[s]] ELSE req[w].work[s]]
<1>3. /\ r.work = work /\ r.kind = "poll" /\ r.at = "work"
      /\ r.todo = {s \in listed : NeedsConfigCapture(work[s], req[w].base[s].lastState)}
      /\ r.fresh = answer
      /\ r.at_doc = [s \in Slicer |-> IF s \in listed THEN doc[s] ELSE 0]
  BY <1>2 DEF PollAnswered, Request
<1> HIDE DEF r
<1>4. ASSUME NEW s \in Slicer
      PROVE  /\ r.work[s].pending = row[s].pending /\ r.work[s].cfg = row[s].cfg
             /\ r.work[s].lastState = IF s \in listed THEN answer[s] ELSE row[s].lastState
             /\ Polled(r, s) <=> s \in listed
  <2>1. row[s] \in Row
    BY DEF TypeOK
  <2> QED BY <1>2, <1>3, <2>1 DEF Polled, Row
<1>5. ASSUME NEW s \in Slicer, s \in listed, NoticesStart(seen[s], answer[s])
      PROVE  s \in r.todo
  <2>1. req[w].base[s].lastState = seen[s]
    BY <1>2 DEF CurrentInv, RowsCurrent
  <2> HIDE DEF work
  <2>2. work[s].lastState = answer[s]
    BY <1>3, <1>4, <1>5
  <2> QED BY <1>3, <1>5, <2>1, <2>2 DEF NoticesStart, NeedsConfigCapture
<1>6. RequestCurrent(r)
  <2>1. \A s \in Slicer : r.at_doc[s] =< doc[s]
    BY <1>3 DEF TypeOK
  <2>2. ASSUME NEW s \in Slicer
        PROVE  /\ ~r.work[s].pending => r.work[s].cfg.doc >= noticed[s]
               /\ ~Polled(r, s) => r.work[s].lastState = row[s].lastState
               /\ Polled(r, s) => r.work[s].lastState = r.fresh[s]
    BY <1>3, <1>4 DEF CurrentInv, RowsCurrent, PanelCurrent, Polled
  <2>3. ASSUME NEW s \in Slicer, Polled(r, s), NoticesStart(seen[s], r.fresh[s])
        PROVE  s \in r.todo
    BY <1>3, <1>4, <1>5, <2>3
  <2>4. r.at = "work"
    BY <1>3
  <2> QED BY <2>1, <2>2, <2>3, <2>4 DEF RequestCurrent
<1>7. req' = [req EXCEPT ![w] = r]
  BY <1>1 DEF r
<1> QED BY <1>6, <1>7, CurrentUpdate DEF PollAnswer

LEMMA CurrentTargetAnswer ==
  ASSUME TypeOK, SerialInv, CurrentInv, NEW w \in Worker, TargetAnswer(w)
  PROVE  CurrentInv'
<1>1. /\ req[w] \in Request /\ req[w].work \in [Slicer -> Row] /\ req[w].work = row
      /\ RequestCurrent(req[w]) /\ req[w].kind # "poll"
  BY RequestFields DEF SerialInv, RequestKept, TargetAnswer, CurrentInv, RequestCurrent
<1>2. ASSUME NEW r, r = TargetSet(req[w]) \/ r = [req[w] EXCEPT !.at = "work", !.todo = {}]
      PROVE  RequestCurrent(r)
  <2>1. r.kind = req[w].kind /\ r.at_doc = req[w].at_doc /\ r.at = "work"
    BY <1>1, <1>2 DEF TargetSet, Request
  <2>2. \A s \in Slicer : /\ row[s].pending => r.work[s].pending
                          /\ r.work[s].lastState = row[s].lastState
                          /\ r.work[s].cfg = row[s].cfg
    <3>1. \/ r.work = row
          \/ r.work = [s \in Slicer |->
               IF req[w].kind = "start" /\ s \in req[w].todo
               THEN [req[w].work[s] EXCEPT !.pending = TRUE] ELSE req[w].work[s]]
      BY <1>1, <1>2 DEF TargetSet, Request
    <3> QED BY <1>1, <3>1 DEF Row
  <2> QED BY <1>1, <2>1, <2>2
       DEF RequestCurrent, CurrentInv, RowsCurrent, PanelCurrent, Polled
<1>3. PICK r : RequestCurrent(r) /\ req' = [req EXCEPT ![w] = r]
  BY <1>2 DEF TargetAnswer
<1> QED BY <1>3, CurrentUpdate DEF TargetAnswer

LEMMA CurrentCommit ==
  ASSUME TypeOK, SerialInv, CurrentInv, Serial, NEW w \in Worker, Commit(w)
  PROVE  CurrentInv'
<1>1. /\ row' = req[w].work /\ doc' = doc /\ RequestCurrent(req[w])
      /\ req[w].at = "work" /\ req[w].todo = {} /\ Record(req[w])
  BY CommitAlone DEF Commit, CurrentInv
<1>2. ASSUME NEW s \in Slicer
      PROVE  /\ seen'[s] = row'[s].lastState
             /\ noticed'[s] =< doc'[s]
             /\ ~row'[s].pending => row'[s].cfg.doc >= noticed'[s]
  <2>1. /\ seen'[s] = IF Polled(req[w], s) THEN req[w].fresh[s] ELSE seen[s]
        /\ noticed'[s] = IF Polled(req[w], s) /\ NoticesStart(seen[s], req[w].fresh[s])
                         THEN req[w].at_doc[s] ELSE noticed[s]
    BY <1>1 DEF Record
  <2> QED BY <1>1, <2>1 DEF RequestCurrent, CurrentInv, RowsCurrent
<1>3. \A v \in Worker : req'[v] = Idle
  BY DEF Commit, TypeOK, Serial
<1>4. \A v \in Worker : RequestCurrent(req[v])'
  BY <1>1, <1>3 DEF RequestCurrent, Idle, TypeOK
<1> QED BY <1>2, <1>4 DEF CurrentInv, RowsCurrent, PanelCurrent

LEMMA CurrentPatch ==
  ASSUME TypeOK, SerialInv, CurrentInv, NEW w \in Worker, NEW s \in Slicer, UpdatePatch(w, s)
  PROVE  CurrentInv'
<1>1. /\ RequestCurrent(req[w]) /\ req[w] \in Request /\ req[w].work \in [Slicer -> Row]
      /\ req[w].at = "work" /\ s \in req[w].todo /\ req[w].kind = "update"
      /\ req[w].fresh[s] \in State /\ req[w].work[s] \in Row
  BY RequestFields DEF CurrentInv, UpdatePatch, UpdateDue
<1>2. /\ row' = row /\ seen' = seen /\ noticed' = noticed /\ doc'[s] = doc[s] + 1
      /\ \A t \in Slicer : doc[t] \in Nat /\ doc'[t] \in Nat /\ doc[t] =< doc'[t]
  BY DEF UpdatePatch, history, TypeOK, Reconfigured
<1>3. PICK r \in UpdateAnswered(req[w], s, doc'[s]) : req' = [req EXCEPT ![w] = r]
  BY DEF UpdatePatch
<1>4. PICK new : /\ r = Stored(req[w], s, new) \/ r = Done(req[w], s, new)
                 /\ \/ new = StoreUpdatedConfig(req[w].work[s], doc'[s], req[w].fresh[s])
                    \/ new = UpdatedUnread(req[w].work[s])
                    \/ new = req[w].work[s]
  BY <1>3 DEF UpdateAnswered
<1>5. /\ new \in Row
      /\ ~new.pending => new.cfg.doc >= noticed[s]
      /\ new.lastState = req[w].work[s].lastState
  <2>1. /\ ~req[w].work[s].pending => req[w].work[s].cfg.doc >= noticed[s]
        /\ noticed[s] =< doc[s] /\ noticed[s] \in Nat
    BY <1>1 DEF RequestCurrent, CurrentInv, RowsCurrent, TypeOK
  <2>2. CASE new = StoreUpdatedConfig(req[w].work[s], doc'[s], req[w].fresh[s])
    <3>1. /\ new.cfg = [doc |-> doc'[s], by |-> "update"]
          /\ new.lastState = req[w].work[s].lastState /\ new \in Row
      BY <1>1, <1>2, <2>2, UpdatedFields, UpdatedType
    <3> QED BY <1>2, <2>1, <3>1
  <2>3. CASE new = UpdatedUnread(req[w].work[s])
    <3>1. new \in Row /\ new.pending /\ new.lastState = req[w].work[s].lastState
      BY <1>1, <2>3, PendingSet DEF UpdatedUnread, Row
    <3> QED BY <3>1
  <2> QED BY <1>1, <1>4, <2>1, <2>2, <2>3
<1>6. req[w].at_doc[s] \in Nat
  BY RequestFields
<1>7. RequestCurrent(r)
  BY <1>1, <1>4, <1>5, <1>6, DoneCurrent
<1>8. ASSUME NEW v \in Worker PROVE RequestCurrent(req[v])'
  <2>1. /\ RequestCurrent(req'[v]) /\ req'[v].at_doc \in [Slicer -> Nat]
    <3>1. req'[v] = r \/ req'[v] = req[v]
      BY <1>3 DEF TypeOK
    <3>2. r.at_doc = req[w].at_doc
      BY <1>1, <1>4 DEF Stored, Done, Request
    <3> QED BY <1>7, <3>1, <3>2, RequestFields DEF CurrentInv
  <2> QED BY <1>2, <2>1 DEF RequestCurrent, Polled
<1>9. ASSUME NEW t \in Slicer PROVE noticed[t] =< doc'[t]
  BY <1>2 DEF CurrentInv, RowsCurrent, TypeOK
<1> QED BY <1>2, <1>8, <1>9 DEF CurrentInv, RowsCurrent, PanelCurrent

LEMMA CurrentStep ==
  ASSUME TypeOK, WorkInv, SerialInv, CurrentInv, Serial, NoSync, [Next]_vars
  PROVE  CurrentInv'
<1>1. ASSUME NEW s \in Slicer, UplynkMoves(s) PROVE CurrentInv'
  BY <1>1 DEF UplynkMoves, history, CurrentInv, RowsCurrent, PanelCurrent, RequestCurrent, Polled
<1>2. ASSUME NEW s \in Slicer, UplynkEdited(s) PROVE CurrentInv'
  <2>1. /\ row' = row /\ req' = req /\ seen' = seen /\ noticed' = noticed
        /\ \A t \in Slicer : doc[t] \in Nat /\ doc'[t] \in Nat /\ doc[t] =< doc'[t]
    BY <1>2 DEF UplynkEdited, history, Reconfigured, TypeOK
  <2>2. \A t \in Slicer : noticed[t] =< doc'[t]
    BY <2>1 DEF CurrentInv, RowsCurrent, TypeOK
  <2>3. \A w \in Worker : \A t \in Slicer : req[w].at_doc[t] =< doc'[t]
    BY <2>1, RequestFields DEF CurrentInv, RequestCurrent
  <2> QED BY <2>1, <2>2, <2>3 DEF CurrentInv, RowsCurrent, PanelCurrent, RequestCurrent, Polled
<1>3. ASSUME NEW w \in Worker,
             \/ BeginPoll(w) \/ BeginTarget(w) \/ BeginRefresh(w)
             \/ BeginUpdate(w) \/ BeginSync(w)
      PROVE  CurrentInv'
  <2>1. ASSUME NEW kind, NEW at, NEW targets, Begin(w, kind, at, targets),
               at = "patch" => kind # "poll"
        PROVE  CurrentInv'
    <3>1. RequestCurrent(Opened(kind, at, targets))
      BY <2>1, OpenedCurrent DEF CurrentInv
    <3> QED BY <2>1, <3>1, CurrentUpdate DEF Begin
  <2> QED BY <1>3, <2>1 DEF BeginPoll, BeginTarget, BeginRefresh, BeginUpdate, BeginSync
<1>4. ASSUME NEW w \in Worker, Abandon(w) PROVE CurrentInv'
  BY <1>4, IdleCurrent, CurrentUpdate DEF Abandon
<1>5. ASSUME NEW w \in Worker, PollAnswer(w) PROVE CurrentInv'
  BY <1>5, CurrentPollAnswer
<1>6. ASSUME NEW w \in Worker, TargetAnswer(w) PROVE CurrentInv'
  BY <1>6, CurrentTargetAnswer
<1>7. ASSUME NEW w \in Worker, SyncAnswer(w) \/ SyncApply(w) PROVE FALSE
  BY <1>7, RequestFields DEF SyncAnswer, SyncApply, NoSync
<1>8. ASSUME NEW w \in Worker, Commit(w) PROVE CurrentInv'
  BY <1>8, CurrentCommit
<1>9. ASSUME NEW w \in Worker, NEW s \in Slicer,
             \/ Capture(w, s) \/ CaptureFails(w, s)
             \/ UpdateRead(w, s) \/ UpdateNotSent(w, s)
      PROVE  CurrentInv'
  <2>1. /\ RequestCurrent(req[w]) /\ req[w] \in Request /\ req[w].work[s] \in Row
        /\ req[w].at = "work" /\ s \in req[w].todo /\ UNCHANGED <<row, doc, history>>
        /\ req[w].at_doc[s] \in Nat
    BY <1>9, RequestFields DEF CurrentInv, Capture, CaptureFails, UpdateRead, UpdateNotSent,
       CaptureDue, UpdateDue
  <2>2. /\ ~req[w].work[s].pending => req[w].work[s].cfg.doc >= noticed[s]
        /\ req[w].at_doc[s] =< doc[s] /\ noticed[s] =< doc[s]
        /\ noticed[s] \in Nat /\ doc[s] \in Nat
    BY <2>1 DEF RequestCurrent, CurrentInv, RowsCurrent, TypeOK
  <2>3. CASE Capture(w, s)
    <3> DEFINE src == CaptureSource(req[w], s)
               new == Captured(req[w].work[s], doc[s], src)
    <3>1. src \in Source
      BY DEF CaptureSource, Source
    <3> HIDE DEF src
    <3>2. /\ new \in Row /\ new.lastState = req[w].work[s].lastState
          /\ new.cfg = [doc |-> doc[s], by |-> src]
      <4>1. req[w].work[s] \in Row /\ doc[s] \in Nat
        BY <2>1, <2>2
      <4> HIDE DEF new
      <4>2. new = Captured(req[w].work[s], doc[s], src)
        BY DEF new
      <4> QED BY <3>1, <4>1, <4>2, CapturedType, CapturedFields
    <3>3. req' = [req EXCEPT ![w] = Stored(req[w], s, new)]
      BY <2>3 DEF Capture, src
    <3> HIDE DEF new
    <3>4. new.cfg.doc >= noticed[s] /\ new.cfg.doc >= req[w].at_doc[s]
      BY <2>1, <2>2, <3>2
    <3>5. RequestCurrent(Stored(req[w], s, new))
      BY <2>1, <3>2, <3>4, DoneCurrent
    <3> QED BY <2>1, <3>3, <3>5, CurrentUpdate
  <2>4. CASE CaptureFails(w, s)
    <3>1. PICK e \in Error :
            req' = [req EXCEPT ![w] = Done(@, s, CaptureFailed(@.work[s], e))]
      BY <2>4 DEF CaptureFails
    <3> DEFINE new == CaptureFailed(req[w].work[s], e)
    <3>2. new \in Row /\ new.pending /\ new.lastState = req[w].work[s].lastState
      BY <2>1, CaptureFailedType DEF CaptureFailed, Row
    <3> HIDE DEF new
    <3>3. RequestCurrent(Done(req[w], s, new))
      BY <2>1, <3>2, DoneCurrent
    <3>4. req' = [req EXCEPT ![w] = Done(req[w], s, new)]
      BY <3>1 DEF new
    <3> QED BY <2>1, <3>3, <3>4, CurrentUpdate
  <2>5. CASE UpdateRead(w, s)
    <3>1. PICK state : req' = [req EXCEPT ![w] = Read(req[w], s, state)]
      BY <2>5 DEF UpdateRead
    <3>0. req[w].kind = "update"
      BY <2>5 DEF UpdateRead, UpdateDue
    <3>2. RequestCurrent(Read(req[w], s, state))
      BY <2>1, <3>0 DEF RequestCurrent, Read, Request, Polled
    <3> QED BY <2>1, <3>1, <3>2, CurrentUpdate
  <2>6. CASE UpdateNotSent(w, s)
    <3>1. req[w].kind # "poll"
      BY <2>6 DEF UpdateNotSent, UpdateDue
    <3>2. RequestCurrent(Done(req[w], s, req[w].work[s]))
      BY <2>1, <2>2, <3>1, DoneCurrent
    <3> QED BY <2>1, <2>6, <3>2, CurrentUpdate DEF UpdateNotSent
  <2> QED BY <1>9, <2>3, <2>4, <2>5, <2>6
<1>10. ASSUME NEW w \in Worker, NEW s \in Slicer, UpdatePatch(w, s) PROVE CurrentInv'
  BY <1>10, CurrentPatch
<1>11. CASE UNCHANGED vars
  BY <1>11 DEF vars, CurrentInv, RowsCurrent, PanelCurrent, RequestCurrent, Polled
<1> QED
  BY <1>1, <1>2, <1>3, <1>4, <1>5, <1>6, <1>7, <1>8, <1>9, <1>10, <1>11 DEF Next

\* With one worker and no Sync, once a poll has seen a slicer start, the stored
\* copy is at least as new as the settings of that start, or a capture is
\* pending.
THEOREM SerialPanelCurrent == ASSUME Serial, NoSync PROVE Spec => []PanelCurrent
<1>1. Init => CurrentInv
  BY CurrentInit
<1>2. TypeOK /\ WorkInv /\ SerialInv /\ CurrentInv /\ [Next]_vars => CurrentInv'
  BY CurrentStep
<1>3. CurrentInv => PanelCurrent
  BY DEF CurrentInv, RowsCurrent
<1> QED BY <1>1, <1>2, <1>3, SerialInvariant, PTL DEF Spec
=============================================================================
