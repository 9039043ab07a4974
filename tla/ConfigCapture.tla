--------------------------- MODULE ConfigCapture ---------------------------
(***************************************************************************)
(* The console keeps a copy of every slicer's configuration, captured once *)
(* per run of the slicer (app/slicers/service.py).  This module is that    *)
(* capture: the polls that watch for a start, the console's Start and      *)
(* Stop, the Refresh button, Slicer Updates and account Sync, all writing  *)
(* the same rows.                                                          *)
(*                                                                         *)
(* A gunicorn sync worker serves one request at a time, and the workers    *)
(* are processes that share nothing but the database.  A request runs in   *)
(* the phases between which others can step:                               *)
(*    "fetch"    the rows are read, the call that reads states is out;     *)
(*    "patch"    the rows are read, the call that sets a target is out;    *)
(*    "listing"  Sync has the listing, and has not read the rows yet;      *)
(*    "work"     calls for the slicers in todo are still to be made, and   *)
(*               once there are none the session is committed.             *)
(* A worker killed by gunicorn's 30 s timeout loses its session, not what  *)
(* it has sent to Uplynk.                                                  *)
(*                                                                         *)
(* Access rules, audit rows and the creation of rows are not part of this  *)
(* module; is_active is, since Sync and the polls share it.                *)
(***************************************************************************)
EXTENDS SlicerRow, FiniteSets

CONSTANTS Slicer,       \* the slicers of one account
          Manual,       \* those an admin added by hand
          Worker,       \* gunicorn workers
          Kind,         \* the kinds of request that arrive
          Operating,    \* the operating states Uplynk moves a slicer through
          MaxDoc        \* bound: versions of a slicer's settings

ASSUME CaptureAssumption ==
    /\ Manual \subseteq Slicer
    /\ Kind \subseteq {"poll", "start", "stop", "refresh", "update", "sync"}
    /\ Operating \subseteq RetrieveState \ {"Stopped", "Initializing", "Stopping"}
    /\ MaxDoc \in Nat \ {0}
    /\ NoError \notin Error

VARIABLES live,         \* Uplynk: each slicer's state
          doc,          \* Uplynk: the version of its settings
          row,          \* the slicers table
          req,          \* what each worker is doing
          seen,         \* history: the last state a completed poll was given
          noticed,      \* history: settings version of the last start a poll saw
          started       \* history: console Starts no poll has seen running yet

vars == <<live, doc, row, req, seen, noticed, started>>
history == <<seen, noticed, started>>

State == RetrieveState \cup {NoState}

NoAnswer == "unanswered"        \* of Uplynk, about a slicer

Idle == [at |-> "idle", kind |-> "none", todo |-> {}, wrote |-> {}, owes |-> {},
         base |-> [s \in Slicer |-> NewRow], work |-> [s \in Slicer |-> NewRow],
         fresh |-> [s \in Slicer |-> NoAnswer], at_doc |-> [s \in Slicer |-> 0]]

Request == [at : {"idle", "fetch", "patch", "listing", "work"},
            kind : Kind \cup {"none"},
            todo : SUBSET Slicer,       \* slicers a call is still to be made for
            wrote : SUBSET Slicer,      \* slicers whose stored copy it replaced
            owes : SUBSET Slicer,       \* stopped slicers it has started
            base : [Slicer -> Row],     \* the rows as they were read
            work : [Slicer -> Row],     \* the rows as the session has them
            fresh : [Slicer -> State \cup {NoAnswer}], \* the states Uplynk has answered
            at_doc : [Slicer -> Nat]]   \* history: the settings at that answer

TypeOK ==
    /\ live \in [Slicer -> RetrieveState]
    /\ doc \in [Slicer -> Nat]
    /\ row \in [Slicer -> Row]
    /\ req \in [Worker -> Request]
    /\ seen \in [Slicer -> State]
    /\ noticed \in [Slicer -> Nat]
    /\ started \in [Slicer -> {"no", "owed", "covered"}]

\* Rows come from the Add form, without a state, or from an earlier Sync,
\* with the state that was listed; nothing is captured yet.
Init ==
    /\ live \in [Slicer -> {"Stopped"} \cup Operating]
    /\ doc = [s \in Slicer |-> 1]
    /\ \E synced \in SUBSET (IF "sync" \in Kind THEN Slicer ELSE {}) :
         row = [s \in Slicer |->
                  [NewRow EXCEPT !.lastState = IF s \in synced THEN live[s] ELSE @]]
    /\ req = [w \in Worker |-> Idle]
    /\ seen = [s \in Slicer |-> NoState]
    /\ noticed = [s \in Slicer |-> 0]
    /\ started = [s \in Slicer |-> "no"]

-----------------------------------------------------------------------------
(* Uplynk and its other users: starts, stops and re-initializes happen     *)
(* without the console, and settings are edited elsewhere too.             *)

Moves == {<<"Stopped", "Initializing">>, <<"Stopping", "Stopped">>,
          <<"Initializing", "Stopping">>}
         \cup ({"Initializing"} \X Operating)
         \cup (Operating \X (Operating \cup {"Initializing", "Stopping"}))

UplynkMoves(s) ==
    /\ \E next \in RetrieveState :
         /\ <<live[s], next>> \in Moves
         /\ live' = [live EXCEPT ![s] = next]
    /\ UNCHANGED <<doc, row, req, history>>

\* New settings; a running slicer restarts to load them.
Reconfigured(s) ==
    /\ doc[s] < MaxDoc
    /\ doc' = [doc EXCEPT ![s] = @ + 1]
    /\ live' = [live EXCEPT ![s] = IF IsRunning(@) THEN "Initializing" ELSE @]

UplynkEdited(s) ==
    /\ Reconfigured(s)
    /\ UNCHANGED <<row, req, history>>

-----------------------------------------------------------------------------
(* Requests.                                                               *)

Opened(kind, at, targets) ==
    [Idle EXCEPT !.kind = kind, !.at = at, !.base = row, !.work = row, !.todo = targets]

Begin(w, kind, at, targets) ==
    /\ kind \in Kind
    /\ req[w].at = "idle"
    /\ req' = [req EXCEPT ![w] = Opened(kind, at, targets)]
    /\ UNCHANGED <<live, doc, row, history>>

Active == {s \in Slicer : row[s].active}

\* One slicer's badge, or every slicer of the account the user can see.
BeginPoll(w) ==
    \E targets \in (SUBSET Active) \ {{}} : Begin(w, "poll", "fetch", targets)

BeginTarget(w) ==
    \E s \in Active, kind \in {"start", "stop"} : Begin(w, kind, "patch", {s})

BeginRefresh(w) == \E s \in Active : Begin(w, "refresh", "work", {s})

BeginUpdate(w) ==
    \E targets \in (SUBSET Active) \ {{}} : Begin(w, "update", "work", targets)

BeginSync(w) == Begin(w, "sync", "fetch", {})

\* The calls raised an error before anything was changed, or the worker was
\* killed, or the commit failed: the session is gone.
Abandon(w) ==
    /\ req[w].at # "idle"
    /\ req' = [req EXCEPT ![w] = Idle]
    /\ UNCHANGED <<live, doc, row, history>>

\* What Uplynk can answer about some of the targets: it can leave a slicer out, and
\* list one without a state.
Answers(targets) ==
    {answer \in [Slicer -> State \cup {NoAnswer}] :
       \A s \in Slicer : answer[s] \in IF s \in targets THEN {live[s], NoState, NoAnswer}
                                        ELSE {NoAnswer}}

\* Mutant: captures are decided on the row after the new state is applied.
PollAnsweredLatePrev(r, answer) ==
    LET listed == {s \in Slicer : answer[s] # NoAnswer}
        work == [s \in Slicer |-> IF s \in listed
                   THEN [r.work[s] EXCEPT !.lastState = answer[s]] ELSE r.work[s]]
    IN  [r EXCEPT !.at = "work", !.work = work, !.fresh = answer,
           !.todo = {s \in listed : NeedsConfigCapture(work[s], work[s].lastState)},
           !.at_doc = [s \in Slicer |-> IF s \in listed THEN doc[s] ELSE 0]]

\* The states of the listed slicers are applied to the session's rows, and a
\* capture is due where the row read before says so.
PollAnswered(r, answer) ==
    LET listed == {s \in Slicer : answer[s] # NoAnswer}
        work == [s \in Slicer |-> IF s \in listed
                   THEN [r.work[s] EXCEPT !.lastState = answer[s]] ELSE r.work[s]]
    IN  [r EXCEPT !.at = "work", !.work = work, !.fresh = answer,
           !.todo = {s \in listed : NeedsConfigCapture(work[s], r.base[s].lastState)},
           !.at_doc = [s \in Slicer |-> IF s \in listed THEN doc[s] ELSE 0]]

\* A slicer Uplynk leaves out keeps its row as it is.
PollAnswer(w) ==
    /\ req[w].kind = "poll" /\ req[w].at = "fetch"
    /\ \E answer \in Answers(req[w].todo) :
         req' = [req EXCEPT ![w] = PollAnswered(@, answer)]
    /\ UNCHANGED <<live, doc, row, history>>

\* The call a request made for one slicer is over, and leaves its row so...
Done(r, s, new) == [r EXCEPT !.todo = @ \ {s}, !.work = [@ EXCEPT ![s] = new]]

\* ... with a new stored copy.
Stored(r, s, new) == [Done(r, s, new) EXCEPT !.wrote = @ \cup {s}]

\* The retrieve call for one slicer's configuration, for a poll or a Refresh.
CaptureSource(r, s) ==
    IF r.kind = "poll" THEN "start"
    ELSE IF IsRunning(r.base[s].lastState) THEN "refresh" ELSE "refresh_stopped"

CaptureDue(r, s) == r.at = "work" /\ r.kind \in {"poll", "refresh"} /\ s \in r.todo

Capture(w, s) ==
    /\ CaptureDue(req[w], s)
    /\ req' = [req EXCEPT ![w] =
         Stored(@, s, Captured(@.work[s], doc[s], CaptureSource(@, s)))]
    /\ UNCHANGED <<live, doc, row, history>>

CaptureFails(w, s) ==
    /\ CaptureDue(req[w], s)
    /\ \E e \in Error :
         req' = [req EXCEPT ![w] = Done(@, s, CaptureFailed(@.work[s], e))]
    /\ UNCHANGED <<live, doc, row, history>>

\* Mutant: Start leaves the capture to the polls.
TargetSetOnly(r) ==
    LET stopped == IF r.kind = "start" THEN {s \in r.todo : ~IsRunning(live[s])} ELSE {}
    IN  [r EXCEPT !.at = "work", !.todo = {}, !.owes = stopped]

\* Uplynk accepted the target.  A Start leaves a capture pending.
TargetSet(r) ==
    LET stopped == IF r.kind = "start" THEN {s \in r.todo : ~IsRunning(live[s])} ELSE {}
    IN  [r EXCEPT !.at = "work", !.todo = {}, !.owes = stopped,
           !.work = [s \in Slicer |->
             IF r.kind = "start" /\ s \in r.todo
             THEN [r.work[s] EXCEPT !.pending = TRUE] ELSE r.work[s]]]

\* When the slicer reacts is up to Uplynk (UplynkMoves).  A refusal or a
\* network error is only audited.
TargetAnswer(w) ==
    /\ req[w].at = "patch"
    /\ \E r \in {TargetSet(req[w]), [req[w] EXCEPT !.at = "work", !.todo = {}]} :
         req' = [req EXCEPT ![w] = r]
    /\ UNCHANGED <<live, doc, row, history>>

\* One thread of a Slicer Updates batch reads its slicer's current settings...
UpdateDue(r, s) == r.at = "work" /\ r.kind = "update" /\ s \in r.todo

Read(r, s, state) == [r EXCEPT !.fresh = [@ EXCEPT ![s] = state]]

UpdateRead(w, s) ==
    /\ UpdateDue(req[w], s) /\ req[w].fresh[s] = NoAnswer
    /\ \E state \in {live[s], NoState} : req' = [req EXCEPT ![w] = Read(@, s, state)]
    /\ UNCHANGED <<live, doc, row, history>>

\* ... and changes nothing: the settings were not read, there is nothing to do,
\* the restart is not confirmed, the time is used up, or Uplynk refused; ...
UpdateNotSent(w, s) ==
    /\ UpdateDue(req[w], s)
    /\ req' = [req EXCEPT ![w] = Done(@, s, @.work[s])]
    /\ UNCHANGED <<live, doc, row, history>>

\* ... or its PATCH is applied.  The answer carries the new settings, or no
\* configuration at all, or is lost on the way back.
UpdateAnswered(r, s, newDoc) ==
    {Stored(r, s, StoreUpdatedConfig(r.work[s], newDoc, r.fresh[s])),
     Done(r, s, UpdatedUnread(r.work[s])),
     Done(r, s, r.work[s])}

UpdatePatch(w, s) ==
    /\ UpdateDue(req[w], s) /\ req[w].fresh[s] # NoAnswer
    /\ Reconfigured(s)
    /\ \E r \in UpdateAnswered(req[w], s, doc'[s]) : req' = [req EXCEPT ![w] = r]
    /\ UNCHANGED <<row, history>>

SyncAnswer(w) ==
    /\ req[w].kind = "sync" /\ req[w].at = "fetch"
    /\ \E answer \in Answers(Slicer) :
         req' = [req EXCEPT ![w].at = "listing", ![w].fresh = answer]
    /\ UNCHANGED <<live, doc, row, history>>

\* Sync reads the rows only now.  A listed slicer's row takes the listed state
\* and is active again; the others are deactivated, unless added by hand.
Synced(r, s) ==
    IF r.fresh[s] # NoAnswer
    THEN [row[s] EXCEPT !.lastState = r.fresh[s], !.active = TRUE]
    ELSE [row[s] EXCEPT !.active = @ /\ s \in Manual]

SyncApply(w) ==
    /\ req[w].kind = "sync" /\ req[w].at = "listing"
    /\ req' = [req EXCEPT ![w] =
         [Opened("sync", "work", {}) EXCEPT !.work = [s \in Slicer |-> Synced(req[w], s)]]]
    /\ UNCHANGED <<live, doc, row, history>>

\* What polls have seen: a poll notices a start when it is given a running
\* state after one that is not, or Initializing after anything else.
Polled(r, s) == r.kind = "poll" /\ r.fresh[s] # NoAnswer

NoticesStart(prev, fresh) ==
    /\ IsRunning(fresh)
    /\ ~IsRunning(prev) \/ (fresh = "Initializing" /\ prev # "Initializing")

Record(r) ==
    /\ seen' = [s \in Slicer |-> IF Polled(r, s) THEN r.fresh[s] ELSE seen[s]]
    /\ noticed' = [s \in Slicer |->
         IF Polled(r, s) /\ NoticesStart(seen[s], r.fresh[s])
         THEN r.at_doc[s] ELSE noticed[s]]
    /\ started' = [s \in Slicer |->
         IF s \in r.owes THEN "owed"
         ELSE IF Polled(r, s) /\ IsRunning(r.fresh[s]) THEN "no"
         ELSE IF s \in r.wrote /\ started[s] = "owed" THEN "covered"
         ELSE started[s]]

\* One commit for the whole request.
Commit(w) ==
    /\ req[w].at = "work"
    /\ req[w].todo = {}
    /\ row' = [s \in Slicer |->
         Flush(row[s], req[w].base[s], req[w].work[s], s \in req[w].wrote)]
    /\ Record(req[w])
    /\ req' = [req EXCEPT ![w] = Idle]
    /\ UNCHANGED <<live, doc>>

Next ==
    \/ \E s \in Slicer : UplynkMoves(s) \/ UplynkEdited(s)
    \/ \E w \in Worker :
         \/ BeginPoll(w) \/ BeginTarget(w) \/ BeginRefresh(w)
         \/ BeginUpdate(w) \/ BeginSync(w)
         \/ PollAnswer(w) \/ TargetAnswer(w) \/ SyncAnswer(w) \/ SyncApply(w)
         \/ Commit(w) \/ Abandon(w)
    \/ \E w \in Worker, s \in Slicer :
         \/ Capture(w, s) \/ CaptureFails(w, s)
         \/ UpdateRead(w, s) \/ UpdateNotSent(w, s) \/ UpdatePatch(w, s)

Spec == Init /\ [][Next]_vars

-----------------------------------------------------------------------------
(* Fairness.  The dashboard polls its account every 30 s while it is open, *)
(* so polls are served again and again (SF: other requests come between).  *)
(* A worker never holds a request forever: gunicorn kills it after 30 s.   *)
(* Uplynk does not fail every retrieve call of a slicer forever, nor does  *)
(* the 30 s limit strike every poll that has captured something.           *)

Fairness ==
    \A w \in Worker :
       /\ SF_vars(Active # {} /\ Begin(w, "poll", "fetch", Active))
       /\ WF_vars(Abandon(w))
       /\ SF_vars(PollAnswer(w) /\ \A s \in req[w].todo : req'[w].fresh[s] = live[s])
       /\ \A s \in Slicer : SF_vars(req[w].kind = "poll" /\ Capture(w, s))
       /\ SF_vars(req[w].kind = "poll" /\ req[w].wrote # {} /\ Commit(w))

FairSpec == Spec /\ Fairness

-----------------------------------------------------------------------------
(* Properties.                                                             *)

\* Once a poll has seen the slicer start or re-initialize, the stored copy is
\* at least as new as the settings of that start, or a capture is pending: the
\* promise "captured once per run" of service.py and the 1.12.0 changelog.
PanelCurrent ==
    \A s \in Slicer : ~row[s].pending => row[s].cfg.doc >= noticed[s]

\* A failed capture "stays pending so the next poll retries" (_capture_config):
\* whenever the panel shows an error, a capture is pending.
ErrorRetried == \A s \in Slicer : row[s].error # NoError => row[s].pending

\* The panel's caption names the capture that really stored the copy it heads
\* (config_source, #59).
SourceTruthful == \A s \in Slicer : row[s].source = row[s].cfg.by

\* The stored copy never goes back to older settings: "the fresh copy replaces
\* the stored one" (refresh_config).
NeverOlder == [][\A s \in Slicer : row'[s].cfg.doc >= row[s].cfg.doc]_row

\* The first completed poll that sees a console-started slicer running has
\* captured it, or left the capture pending, unless another request's capture
\* came first (set_target_state and the comment on config_capture_pending).
StartCaptured ==
    [][\A s \in Slicer : started[s] = "owed" /\ started'[s] = "no" =>
         \/ row'[s].pending
         \/ \E w \in Worker : s \in req[w].wrote /\ req'[w].at = "idle"]_vars

\* However requests overlap, a pending capture is only cleared by a request
\* that stored a configuration ("cleared once a capture succeeds").
PendingClearedByCapture ==
    [][\A s \in Slicer : row[s].pending /\ ~row'[s].pending =>
         \E w \in Worker : s \in req[w].wrote /\ req'[w].at = "idle"]_vars

\* However requests overlap, nothing but a fresh capture changes the stored
\* copy: a failure, a Sync or a state change keeps it.
CopyKept ==
    [][\A s \in Slicer : row'[s].cfg # row[s].cfg =>
         /\ row'[s].cfg # NoConfig
         /\ \E w \in Worker : s \in req[w].wrote /\ req'[w].at = "idle"]_vars

\* A slicer that stays up is in the end captured: failures and lost workers
\* delay the capture, they do not end it.
EventuallyCaptured ==
    \A s \in Slicer :
      <>[](IsRunning(live[s]) /\ row[s].active) => []<>(row[s].cfg # NoConfig /\ ~row[s].pending)

\* With one worker every request takes effect as a whole and at once: polls,
\* Starts, Refreshes, updates and Syncs do to the rows what service.py, updates.py
\* and sync.py read like, though each holds a session over its calls to Uplynk.
Atomic == INSTANCE AtomicCapture WITH row <- row

RequestsAtomic == Atomic!Spec
=============================================================================
