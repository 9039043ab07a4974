--------------------------- MODULE AtomicCapture ---------------------------
(***************************************************************************)
(* What the requests on a slicer's row do, each as a single step: the      *)
(* service functions of app/slicers/service.py, updates.py and sync.py as  *)
(* they read, without the calls they wait for, their sessions and what     *)
(* other requests do meanwhile.  ConfigCapture with one worker implements  *)
(* it; with more it does not.                                              *)
(*                                                                         *)
(* One request may do its step to several slicers, in one commit.          *)
(***************************************************************************)
EXTENDS SlicerRow

CONSTANTS Slicer,
          Kind          \* the kinds of request that arrive

VARIABLE row

State == RetrieveState \cup {NoState}

Init ==
    row \in [Slicer -> {[NewRow EXCEPT !.lastState = st] : st \in State}]

Failed(old, new) == \E e \in Error : new = CaptureFailed(old, e)

\* The settings captured are whatever Uplynk answered.
CapturedAs(old, new, source) == new = Captured(old, new.cfg.doc, source)

\* A state, and the capture where the state and the one before it call for it.
Poll(old, new) ==
    \E state \in State :
      LET seen == [old EXCEPT !.lastState = state]
      IN  IF NeedsConfigCapture(seen, old.lastState)
          THEN CapturedAs(seen, new, "start") \/ Failed(seen, new)
          ELSE new = seen

Start(old, new) == new = [old EXCEPT !.pending = TRUE]

Refresh(old, new) ==
    \/ CapturedAs(old, new, IF IsRunning(old.lastState) THEN "refresh" ELSE "refresh_stopped")
    \/ Failed(old, new)

Update(old, new) ==
    \/ \E state \in State : new = StoreUpdatedConfig(old, new.cfg.doc, state)
    \/ new = UpdatedUnread(old)

Sync(old, new) ==
    \/ \E state \in State : new = [old EXCEPT !.lastState = state, !.active = TRUE]
    \/ new = [old EXCEPT !.active = FALSE]

Same(s) == row'[s] = row[s]

Next ==
    /\ \A s \in Slicer : row[s].cfg.doc =< row'[s].cfg.doc
    /\ \/ "poll" \in Kind /\ \A s \in Slicer : Same(s) \/ Poll(row[s], row'[s])
       \/ "start" \in Kind /\ \A s \in Slicer : Same(s) \/ Start(row[s], row'[s])
       \/ "refresh" \in Kind /\ \A s \in Slicer : Same(s) \/ Refresh(row[s], row'[s])
       \/ "update" \in Kind /\ \A s \in Slicer : Same(s) \/ Update(row[s], row'[s])
       \/ "sync" \in Kind /\ \A s \in Slicer : Same(s) \/ Sync(row[s], row'[s])

Spec == Init /\ [][Next]_row
=============================================================================
