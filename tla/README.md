# Verification of csl-slicer-console

TLA+ models of the console's own logic, the TLC runs that check them on small
instances, and TLAPS proofs of the properties that hold for every instance.
The code is a Flask application (`src/app`) in front of Uplynk's API: it watches
the state of live cloud slicers, starts, stops and controls them, keeps a copy
of each slicer's configuration, and lets an admin change the settings of many
slicers at once. It has one SQLite database and several gunicorn worker
processes, each serving one request at a time and killed after 30 s.

## 1. Inventory

| Component | State it keeps | Operations | What is hard about it |
| --- | --- | --- | --- |
| Configuration capture and polling (`slicers/service.py`) | `slicers` row: last_state, config_encrypted, config_captured_at, config_source, config_capture_pending, config_error | poll one slicer, poll an account, Refresh, what Start leaves behind | a start is only seen as a difference between two polls; every route writes the same row; workers overlap; captures fail; a request is killed before its single commit |
| Slicer control (`slicers/service.py`, `uplynk/csl.py`, `uplynk/target_state.py`) | audit row | content_start, blackout, state, status (SHA1); start, stop (target_state) | the action happens before it is recorded; a Start is answered before the slicer reacts |
| Account sync (`uplynk/sync.py`) | rows, is_active, last_synced_at | list, then create, refresh, deactivate | reads the rows after the listing; writes last_state beside the polls; pause is checked before the call |
| Slicer Updates (`slicers/updates.py`, `admin/routes.py`, templates) | nothing on the server: the request travels in hidden fields | select, edit, review, apply, retry | stale pages, threads per slicer with read-compare-PATCH, lost and late answers, restarts, one time budget |
| Line edits (`uplynk/slicer_config.py`) | none | shared lines, line edits, overrides | repeated keys, order, blank lines; must be repeatable |
| Accounts and slicers (`admin/routes.py`, `models.py`) | accounts, rows | create, edit, pause, resume, delete | pause and delete against requests under way; unique key; row numbers reused; what the ORM's cascades reach and what only the (unenforced) foreign keys would |
| Users, assignments, stars, access | users, user_slicers, slicer_stars | create, edit, delete, assign, star; `_user_can_control` at each entry | whole-list saves against pause, sync and another admin; last admin |
| Audit logs | audit_events, admin_events | appended after each action | committed separately from the action |
| Dashboard scripts | watch tokens, open panels | 30 s account poll, watch after an action, panel reload | answers in flight of superseded actions |
| Caches (thumbnails, player health) | per process, time to live | get, fetch, store | expiry only: nothing in a worker is concurrent |
| Discovery client, JWT, key files, state words, start-up, API, deployment | none of their own | parsing, queries, set-up | bootstrap race of two workers |

**How they interact.** Every component reads and writes the database through
its request's own SQLAlchemy session: rows are read, calls to Uplynk are made,
and one commit writes the columns that changed. Nothing else is shared between
workers. The polls, Refresh, Start, Slicer Updates and Sync all meet in one
`slicers` row; Uplynk is shared with people who do not use the console.

**What makes each correct.** Capture: once a poll has seen a start, that run's
configuration is stored or a capture is pending; a failure is retried, keeps
the old copy and is shown; the caption tells the truth; the copy never gets
older. Slicer Updates: a batch changes only what was edited, switches nothing
on, does not get around a locked setting, restarts only what was confirmed, a
retry repeats nothing, and each attempt is recorded (two of these the code does
not fully keep: see the runs). Line edits: order, other
lines and the result of a second application. Sync, Accounts, Access: no lost
assignments, one row per slicer, a paused account stays as it is, an admin is
left. `PROJECT.json` lists the hazards behind these, line by line.

## 2. Modules

| Family | Modules | Proofs |
| --- | --- | --- |
| Capture and polling | `SlicerRow`, `ConfigCapture`, `AtomicCapture` | `ConfigCapture_proofs`, `ConfigCaptureSerial_proofs`, `ConfigCaptureAtomic_proofs` |
| Slicer Updates | `ConfigLines`, `LineEdits`, `SlicerUpdates` | `LineEdits_proofs`, `SlicerUpdates_proofs` |
| Time of a request | `RequestBudget` | `RequestBudget_proofs` |
| Console administration | `Tables`, `Accounts`, `Access`, `Console` | `Console_proofs`, `ConsoleSerial_proofs` |

`MC*` modules declare model values and symmetry for TLC.

**Capture and polling.**

- `SlicerRow` (pure, about `models.Slicer`): one row; when a poll captures
  (`NeedsConfigCapture`), what a capture, a failed capture and an update store;
  `Flush`, the merge a commit makes. A configuration is abstracted to the
  version of the settings it holds and the kind of capture that stored it.
- `ConfigCapture`: Uplynk's slicers, the table, and a record per worker with the
  rows it read (`base`), the rows its session has (`work`) and the calls it still
  has to make (`todo`). One action per step between which another process can
  run: `Begin*`, the answer (`PollAnswer`, `TargetAnswer`, `SyncAnswer`; Uplynk may
  leave a slicer out or list it without a state, `Answers`), each
  `Capture` or `CaptureFails`, each update thread's `UpdateRead`, `UpdateNotSent`
  or `UpdatePatch`, `SyncApply`, `Commit`, and `Abandon` for the worker that is
  killed or whose call raised. `seen`, `noticed` and `started` are history: what
  completed polls were told, used only by properties.
- `AtomicCapture`: what a poll, Start, Refresh, update or Sync does to a row, in
  one step. `ConfigCapture` maps to it with `row` as it is (`Atomic`), and
  `RequestsAtomic` is that refinement: with one worker, every commit is one of
  these steps and everything else is a stutter.

**Slicer Updates.**

- `ConfigLines` (pure): a configuration as the value of each setting, and what
  the box, the line edits and the overrides do to it.
- `LineEdits`: the same functions on text, translated from `slicer_config.py`, and a
  batch that uses them: the box is made line by line of the selected slicers' texts
  (`ShareLine`, `NextText`, the loops of `shared_lines`), shown (`ShowBox`), and a
  slicer is sent what `build_plan` makes of the edits (`Plan`). Its run compares
  them with `ConfigLines`, and its proofs do so for texts of any length, which is
  what allows `SlicerUpdates` to work on settings instead of text.
- `SlicerUpdates`: the page in the admin's browser with its hidden fields, the
  apply request's threads, the slicers at Uplynk, other people's edits, late
  PATCHes and lost workers. `Submit` is the apply route, for Apply and Retry;
  `ReadAgain` is a thread's read, comparison and restart check; `Patch`,
  `PatchRefused`, `PatchTimedOut` and `LateApplied` are the ways a PATCH ends.
  `has`, `ours`, `attempted`, the page's `differed` and the thread's `had` are
  history: `has` holds the slicers that have the whole request and were not edited
  since, `attempted` those any try of it sent a PATCH to. The Edit page's typed text
  is not carried over a re-render: the next Review chooses any text.

**Time of a request.** `RequestBudget`: a request of Slicer Updates, or Sync all,
as the passes it makes over its items (`Passes`, by kind of request), each with
`_run_all`'s pool of threads and its own deadline. `Take`, `Connect`, `Answer`,
`Tick`, `EndPass` and `Kill`; time passes only in `Tick`. The requests library
applies a timeout to connecting and again to waiting for the answer, so a call can
last twice its timeout, and a slicer of an apply four (read, then PATCH).

**Console administration.**

- `Tables`: the rows of accounts, slicers, users, assignments, stars and the two
  logs; row numbers as SQLite hands them out (one more than the highest in use,
  so a deleted newest row's number is used again); what the ORM's relationships
  do when a row goes (`DeleteSlicers`, `DeleteUser`).
- `Accounts`: the account and slicer forms, Pause and Resume, and Sync. A request
  is a `Begin*` step that reads and checks, and a commit that writes; Sync has the
  listing and the reading of the rows between (`SyncListed`, `SyncRead`). The
  admin event is a second commit (`Log`). A commit that breaks a unique key or
  updates a row that is gone is not enabled, and `Abandon` ends the request.
- `Access`: the user forms, the assignment form (what was offered, then what is
  loaded, then the difference that is written), stars, control actions and their
  audit row, and each worker's bootstrap admin.
- `Console`: the two together, from the first worker's start on an empty
  database, and the properties.

Operators whose comment starts with "Mutant" are plausible bugs of the
definition they are named after; each property of a passing run is violated when
its mutant takes that definition's place (`mutants` in `PROJECT.json`).

## 3. Runs

| Run | Expected | States | Shows |
| --- | --- | --- | --- |
| `capture_serial` | pass | 144 k | one worker; polls, Start, Stop, Refresh and updates: `PanelCurrent`, `ErrorRetried`, `SourceTruthful`, `NeverOlder`, `StartCaptured`; the refinement `RequestsAtomic`; the liveness `EventuallyCaptured` (a slicer that stays up is captured in the end, whatever failed) |
| `capture_workers` | pass | 1.53 M | two workers, polls and Syncs overlapping: `PendingClearedByCapture`, `CopyKept` |
| `capture_sync` | violation | | a Sync that lists the running state first hides the start; `PanelCurrent` fails and the panel shows the previous run |
| `capture_overlap` | violation | | with two workers a slow poll puts an older state or capture over a newer one (`PanelCurrent`) |
| `updates_retry` | pass | 1.64 M | `OthersKept`, `RetrySendsNothing`, `AttemptsAudited` with an edit elsewhere, starts and stops, a late PATCH, a killed worker and a retry |
| `updates_restart` | violation | | a slicer that starts between the apply's read and its PATCH is restarted without confirmation (`ConfirmedOnly`) |
| `updates_locked` | violation | | with a slicer unreadable at the check, a typed line replaces a locked setting (`LockedKept`) |
| `updates_wipe` | violation | | removing a box line empties the slicer that has only that setting (`NeverEmptied`) |
| `line_edits` | pass | 210 k | `SettingsAgree`, `BoxAgrees`, `AppliedOnce`, `OthersInPlace`, `SetOnce` |
| `budget` | pass | 1.24 M | the code's own times: `PassBounded`, `OutOfTimeLast`, `OnePassAnswered` |
| `console_serial` | pass | 1.69 M | one worker, every kind of request: `References`, `AdminLeft`, `HandAddedKept`, `PausedKept`, `SyncedAsListed` |
| `console_overlap` | pass | 278 k | two workers: `LastAdminRaced`, and the liveness `PauseSettles` |

The violation runs are findings about the code; `findings` quotes the comment or
changelog line each contradicts. `capture_sync` and `capture_overlap` also show
that the hypotheses of the passing runs and proofs (no Sync, one worker) cannot be
dropped. The compose file's default is three workers, so `capture_overlap`
concerns the normal deployment; so do `ErrorRetried`, `SourceTruthful`,
`NeverOlder` and `StartCaptured`, which fail the same way there.

**What a reader of the passing runs should know.**

- `StartCaptured` lets another request's capture come first. A Refresh between a
  console Start and the slicer's reaction does clear the Start's pending flag;
  whether the run is captured then rests on a poll seeing the transition.
- With overlapping requests `HandAddedKept`, `References`, `PausedKept` and
  `SyncedAsListed` do not hold: a request can commit against a row number that
  a new row has taken, and adding or assigning a slicer can race the deletion of
  its account or user. A Sync whose account was deleted while Uplynk was listing
  writes its slicers under the account that has taken the number since; with no such
  account its commit fails. What does hold there is what `console_overlap` checks.
- Stars and `admin_events.actor_id` stay behind when their user or slicer goes, and
  pass to the row that takes the number. Nothing in the repository promises
  otherwise, and `References` leaves them out.
- `OthersKept` counts a setting as kept when it is as it is, or as the apply read it:
  an edit by somebody else between that read and the PATCH is undone, since Uplynk
  replaces the whole configuration. It says that nothing older than that read, above
  all nothing from the page, is sent for a setting the request does not touch.
- `AttemptsAudited` is about results that are shown. A worker killed during an apply
  records nothing of it (`Killed`), which no property promises otherwise.
- `OnePassAnswered` is about requests that only read the slicers once. The others can
  run into gunicorn's 30 s: an apply's one pass takes up to 12 s and the 28 s of one
  slicer's two calls, Sync all 12 s and 30 s, and a request that first checks a typed
  line, or that shows the Edit page again, makes up to five passes, each with a
  budget of its own. `PassBounded` holds of all of them.

**Bounds.** `MaxDoc` counts versions of a slicer's settings: two are enough to have
a copy of the old ones while newer ones run. `Operating` has two states where
moves between operating states matter, and one elsewhere (the code tells them
apart only as different). One slicer is enough for properties that are about one
row, since requests for several share nothing but the commit. `capture_workers` leaves
the history variables, which its properties do not read, out of its `VIEW`. In
`SlicerUpdates` two slicers make a batch in which one has what the other lacks;
`updates_retry` has two settings with one value each (one that is touched and one
that is not, each there or absent), `updates_locked` one with two values. One edit by
others (`MaxElsewhere`) and two applies (`MaxApply`) give a stale page, and a retry
after something changed; one late PATCH at a time (`MaxLate`) comes before, between
or after what the retry does. `Fault` says what may go wrong in a run besides:
`unread` (a slicer cannot be read at a check) and `crash` (the worker is lost). Texts
of `LineEdits` have three lines over two keys and two values: enough for a repeat,
a blank between lines, a line added and one removed at once; two slicers
(`MaxSlicers`) agree, differ, or one has what the other lacks. In `RequestBudget`
five items for two threads make a second and a third, late, turn; the times are the
code's in units of two seconds, with the 15 s of a Sync's call rounded up to 16. In
`Console`, two names and two row numbers (`MaxId`) are enough for a number to be
taken again, one account (`MaxAccount`) to be paused, synced and deleted; `MaxRows` bounds stars and log rows together, and a row past it is not
kept. The proofs have none of these bounds. The runs of `line_edits`, `budget`
and `console_overlap` do not check for deadlock: a batch or a request ends, and
with the last admin gone nobody is left to begin a request.

## 4. Fairness

`FairSpec` of `ConfigCapture` assumes that polls are served again and again (the
dashboard polls each account every 30 s while it is open; other requests come
between, hence strong fairness), that a request does not last forever (gunicorn
kills it), that Uplynk again and again lists a slicer with the state it is in and
answers its retrieve call, and that the 30 s limit does not strike every poll that has captured
something. The last is an assumption about time the code does not guarantee for
large accounts; it is a hazard of its own. Nothing is assumed of Sync, Start,
Refresh, updates, or Uplynk's moves.

`FairSpec` of `Console` assumes only that a request that stays under way is ended
by the 30 s limit (`WF` of `Abandon`). Nobody has to begin or finish anything.

## 5. Proofs

All theorems are for every value of the constants, under the named assumptions
of the modules (`CaptureAssumption`, `UpdatesAssumption`, `BudgetAssumption`,
`LinesAssumption`, `TablesAssumption`; TLC evaluates them in the runs) and the
hypotheses stated.

`ConfigCapture_proofs`, any number of workers, every kind of request:
`TypeCorrect`; `PendingKept` (`PendingClearedByCapture`) and `CopyOnlyReplaced`
(`CopyKept`). `WorkInv` says that a session's row differs from the row it read
in its copy only where the request captured, and that a cleared flag is such a
capture's; `RowByCommit` says only `Commit` writes rows; and `Flush` then keeps
what other workers committed in between. It is needed because the property is
about the table while the decision was taken in a session begun earlier.

`ConfigCaptureSerial_proofs`, under `Serial` (one worker), a hypothesis and not an
assumption of the model: `SerialErrorRetried`, `SerialSourceTruthful`,
`SerialNeverOlder` and `SerialStartCaptured` from `SerialInv`, which says of the rows
what each property needs (an error implies pending, the source is the copy's, a
copy is not newer than the slicer's settings, a Start that is owed is pending) and
the same of the rows in the session of the only request, whose base is the table
itself. `SerialPanelCurrent`, under `NoSync` too, from `CurrentInv`: `last_state` is
what the last completed poll was told, so a start a poll notices is a transition in
the row, and what is not yet captured is due or pending in the session.

`ConfigCaptureAtomic_proofs`, under `Serial`: `SerialAtomic`, the refinement. `Effect`
says that what a session has done to its copy of a row is nothing or one step of
`AtomicCapture`, except a poll with a capture still to be made, which is halfway; at
the commit the row read is still the row there is, so the commit is that step.

`SlicerUpdates_proofs`, for any slicers, settings and faults (those `updates_locked`
alone turns on included): `TypeCorrect`; `OthersKeptAlways`; `NeverSwitchedOn`, which
no run checks (a slicer without a setting only gets it by a line added as new);
`AttemptsAlwaysAudited`, from what each thread tells of what it sent; and
`RetriesSendNothing` for any number of retries, edits and late answers, with
versions as well as settings, where the run has settings only. `ThreadInv` ties
what a thread is about to send to what the page's request wants of the
configuration it read, so that the properties of a PATCH become properties of
`Wanted`; `RetryInv` says that nothing is left to send to a slicer that has the
request or is yet to get it late, from `AppliedTwice` (`Wanted` is idempotent) and
`SizeOK` (a retry of one slicer of a batch still edits as a batch).

`LineEdits_proofs`, for texts and boxes of any length, any keys, values and number of
slicers: `EditsOnSettings` and `OverridesOnSettings` (what the functions on text do to
the settings is what `ConfigLines` says), `WantedAgain` (what was sent is what the same
request wants again), and of the batch `TextsAgree` (`SettingsAgree`), `SentOnce`
(`AppliedOnce`), `OthersStay` (`OthersInPlace`), `TouchedOnce` (`SetOnce`) and
`BoxIsShared` (`BoxAgrees`). `ComparedAsSettings` says that `build_plan`, which compares
texts, and `SlicerUpdates`, which compares settings, decide alike whether to send, where
the slicer has what is set on one line; a slicer that repeats such a setting can be
sent a text with the same settings, once, which `SlicerUpdates` leaves out. No recursion
over a text is needed: `At` lists places of a text in order, there is only one way to
(`OneList`), and so two texts with the same places of a third are equal (`EditsKeep`,
`OverridesKeep`); what is set is followed key by key (`EditsSet`, `OverridesSet`). The
loops of `shared_lines` are steps, so that `BatchInvariant` has their induction:
`SharesSeen` says that the box holds the lines read so far whose keys have one value,
and locks the other keys.

`RequestBudget_proofs`, for any times, threads and numbers of items: `TypeCorrect`,
`PassesBounded`, `LateOnesLast`, and `OnePassInTime` whenever
`NetworkBudget + 2 * FetchTimeout < Limit`, which the code's numbers fulfil.
`CallsInTime` bounds when each call under way ends, which is what keeps
`Tick` from passing the bound; `TakenInOrder` says the late items are the last taken.

`Console_proofs`, any number of workers: `TypeCorrect` (no slicer is left without an
account) and `LastAdminGoesRaced`. `RequestOK` says what each
request under way was checked for and carries; the tables may have changed since.

`ConsoleSerial_proofs`, under `Serial`: `SerialAdminLeft`, `SerialReferences`,
`SerialHandAddedKept`, `SerialPausedKept`, `SerialSyncedAsListed`. `RequestFresh` says
that what a request was checked for still holds of the tables at its commit, which
is exactly what overlapping requests break.

**Only model-checked.** Liveness (`EventuallyCaptured`, `PauseSettles`), which is out
of the prover's reach, and what the violation runs check, which is false. Every other
property of a passing run is stated by a theorem above; `NotSwitchedOn` is only proved.

## 6. Not modelled

The components marked `not_modelled` in `PROJECT.json`, each with its reason. Of
the modelled ones:

- wording, diffs and logging; the thumbnail address and connection mode;
  encryption (a failed decrypt ends the request before anything is changed, as
  `Abandon` does); labels, keys, URLs and regions;
- time, which outside `RequestBudget` appears only as the choice to be killed, not
  reached or late; in particular the time of an account poll that captures many
  slicers, which has no budget, and answers that trickle in (no timeout of the
  requests library ends them), which `RequestBudget` leaves out;
- a slicer whose state Uplynk does not tell at the apply's read counts there as not
  running; `SlicerUpdates` has that case as one that stops before and starts after;
- signing in, passwords, sessions and a user's `is_active`: whoever acts has a row;
- access rules in `ConfigCapture` beyond `is_active` (they are in `Access`), and
  pausing there: each of the two families looks at its own columns of `slicers`;
- the dashboard's scripts: its watches, timelines and panels show what the polls
  answer. Their ordering is listed as a hazard without a property; a model of one
  card (badge, watch tokens, panel reload, answers in flight) would be the next
  module of this project, and what the account poll does within 30 s the one after.
