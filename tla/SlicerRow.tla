----------------------------- MODULE SlicerRow -----------------------------
(***************************************************************************)
(* One row of the console's "slicers" table (app/models.py, class Slicer), *)
(* what the service does to it in a session, and what a commit writes.     *)
(*                                                                         *)
(* A session reads the row once and works on that copy.  The commit then   *)
(* writes only the columns whose value differs from the one that was read  *)
(* (SQLAlchemy's unit of work), so two requests that overlap are merged    *)
(* column by column; Flush is that merge.                                  *)
(*                                                                         *)
(* A stored configuration is a record: which version of the slicer's       *)
(* settings it is (doc) and which kind of capture really stored it (by).   *)
(* config_encrypted and config_captured_at are always written together,    *)
(* and always with a new value (a fresh Fernet token, a fresh time).       *)
(***************************************************************************)
EXTENDS Naturals

CONSTANT Error                  \* texts a failed capture can leave behind

NoState == "none"               \* last_state is NULL
NoError == "none"               \* config_error is NULL

RetrieveState == {"Stopped", "Initializing", "Ready", "Slicing", "Blackout",
                  "ReplacingContent", "AdBreak", "Stopping"}

NotRunningState == {"Stopped", "Stopping"}

\* From Initializing until Stopping, that is within one run of the slicer.
IsRunning(state) == state # NoState /\ state \notin NotRunningState

Source == {"start", "refresh", "refresh_stopped", "update"}

NoConfig == [doc |-> 0, by |-> "none"]      \* nothing was ever captured

Config == [doc : Nat, by : Source \cup {"none"}]

Row == [lastState : RetrieveState \cup {NoState},
        cfg       : Config,
        source    : Source \cup {"none"},
        pending   : BOOLEAN,
        error     : Error \cup {NoError},
        active    : BOOLEAN]

NewRow == [lastState |-> NoState, cfg |-> NoConfig, source |-> "none",
           pending |-> FALSE, error |-> NoError, active |-> TRUE]

-----------------------------------------------------------------------------
(* When a poll fetches the configuration, and what a capture stores.       *)

\* Mutant: a pending capture is not looked at.
NeedsConfigCaptureNoPending(row, prev) ==
    /\ IsRunning(row.lastState)
    /\ \/ row.cfg = NoConfig
       \/ row.lastState = "Initializing" /\ prev # "Initializing"
       \/ ~IsRunning(prev)

NeedsConfigCapture(row, prev) ==
    /\ IsRunning(row.lastState)
    /\ \/ row.pending
       \/ row.cfg = NoConfig
       \/ row.lastState = "Initializing" /\ prev # "Initializing"
       \/ ~IsRunning(prev)

\* Mutant: the source is only filled in the first time.
CapturedKeepingSource(row, doc, source) ==
    [row EXCEPT !.cfg = [doc |-> doc, by |-> source], !.pending = FALSE,
                !.source = IF @ = "none" THEN source ELSE @, !.error = NoError]

Captured(row, doc, source) ==
    [row EXCEPT !.cfg = [doc |-> doc, by |-> source], !.source = source,
                !.pending = FALSE, !.error = NoError]

\* Mutant: the failure is recorded, and never retried.
CaptureFailedNotPending(row, error) == [row EXCEPT !.error = error]

\* Mutant: the failure drops the previous capture.
CaptureFailedDropping(row, error) ==
    [row EXCEPT !.error = error, !.pending = TRUE, !.cfg = NoConfig]

CaptureFailed(row, error) == [row EXCEPT !.error = error, !.pending = TRUE]

\* Mutant: the state is stored where the source belongs.
StoreUpdatedConfigState(row, doc, state) ==
    [Captured(row, doc, "update") EXCEPT !.source = state, !.pending = IsRunning(state)]

\* A Slicer Updates PATCH that Uplynk accepted, with the new settings in its
\* body: they replace the stored copy, and a slicer that ran when its settings
\* were read is captured again.
StoreUpdatedConfig(row, doc, state) ==
    [Captured(row, doc, "update") EXCEPT !.pending = IsRunning(state)]

\* The same, with no configuration in the body.
UpdatedUnread(row) == [row EXCEPT !.pending = TRUE]

-----------------------------------------------------------------------------
(* What a commit writes: a column the session changed, else what is there. *)

Merge(stored, read, new) == IF new # read THEN new ELSE stored

\* Mutant: every column is written back as the session has it.
FlushEverything(stored, read, new, recaptured) == new

Flush(stored, read, new, recaptured) ==
    [lastState |-> Merge(stored.lastState, read.lastState, new.lastState),
     cfg       |-> IF recaptured THEN new.cfg
                  ELSE Merge(stored.cfg, read.cfg, new.cfg),
     source    |-> Merge(stored.source, read.source, new.source),
     pending   |-> Merge(stored.pending, read.pending, new.pending),
     error     |-> Merge(stored.error, read.error, new.error),
     active    |-> Merge(stored.active, read.active, new.active)]
=============================================================================
