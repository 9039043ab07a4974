--------------------------- MODULE SlicerUpdates ---------------------------
(***************************************************************************)
(* Slicer Updates: an admin edits the settings of a selection of slicers,  *)
(* reviews what would be sent, applies it and retries what was not done    *)
(* (app/slicers/updates.py and the slicer_updates routes).                 *)
(*                                                                         *)
(* The server keeps nothing between the steps: the request (the box's text *)
(* and what it started from, the overrides, the version, the slicers) is   *)
(* carried in the page's hidden fields, and every step reads the slicers   *)
(* from Uplynk again.  In the apply step one thread per slicer reads it,   *)
(* compares, and sends a PATCH; between these the slicer may be edited,    *)
(* started or stopped by somebody else, and the answer may be lost.        *)
(*                                                                         *)
(* version stands for the fields a request sends where they differ: the    *)
(* slicer version, the encoding profile and the plugin.                    *)
(***************************************************************************)
EXTENDS ConfigLines, Naturals

CONSTANTS Slicer,
          Version,
          MaxElsewhere, \* bound: edits made by others
          MaxApply,     \* bound: applies of one request, retries included
          MaxLate,      \* bound: PATCHes given up on and not applied yet, at a time
          Fault         \* what goes wrong

NoVersion == "none"

ASSUME UpdatesAssumption ==
    /\ IsFiniteSet(Slicer)
    /\ Absent \notin Value /\ NoVersion \notin Version
    /\ {MaxElsewhere, MaxApply, MaxLate} \subseteq Nat
    /\ Fault \subseteq {"unread", "crash"}

VARIABLES conf,         \* Uplynk: each slicer's configuration
          version,      \* Uplynk: its version
          up,           \* Uplynk: whether it runs
          late,         \* Uplynk: PATCHes the console gave up on, yet to be applied
          ours,         \* history: slicers whose late PATCH is of this request
          page,         \* the page in the admin's browser, with its hidden fields
          thread,       \* the threads of the apply request
          audit,        \* slicers with an audit row of this request
          elsewhere,    \* edits made by others
          has,          \* history: slicers with this request applied, untouched since
          attempted     \* history: slicers a PATCH of this request has left for

uplynk == <<conf, version, up, late, elsewhere>>
history == <<ours, has, attempted>>
vars == <<uplynk, page, thread, audit, history>>

NoField == [conf |-> {}, version |-> NoVersion]

\* The fields of a PATCH: a whole configuration or none, a version or none.
Fields == [conf : {{}} \cup {{c} : c \in Conf}, version : Version \cup {NoVersion}]

Page == [at : {"select", "edit", "review", "applying", "results"},
         slicers : SUBSET Slicer,       \* the selection, or what Retry offers
         batch : BOOLEAN,
         base : Conf,                   \* what the box started from
         locked : SUBSET Key,           \* the rows that can be unlocked
         text : Conf,                   \* what the box has
         overrides : Conf,
         version : Version \cup {NoVersion},
         confirmed : SUBSET Slicer,     \* running slicers the admin lets restart
         sending : BOOLEAN,             \* whether the review has anything to send
         differed : SUBSET Key,         \* history: what differed at the apply's check
         tries : 0..MaxApply]

Thread == [at : {"none", "wait", "patch", "updated", "failed", "not_sent", "skipped"},
           fields : Fields,
           seen : Conf,         \* the configuration it read
           had : BOOLEAN]       \* history: the request was applied already

NoPage == [at |-> "select", slicers |-> {}, batch |-> FALSE, base |-> Blank, locked |-> {},
           text |-> Blank, overrides |-> Blank, version |-> NoVersion, confirmed |-> {},
           sending |-> FALSE, differed |-> {}, tries |-> 0]

NoThread == [at |-> "none", fields |-> NoField, seen |-> Blank, had |-> FALSE]

TypeOK ==
    /\ conf \in [Slicer -> Conf]
    /\ version \in [Slicer -> Version \cup {NoVersion}]
    /\ up \in [Slicer -> BOOLEAN]
    /\ late \in [Slicer -> Fields]
    /\ ours \subseteq Slicer
    /\ page \in Page
    /\ thread \in [Slicer -> Thread]
    /\ audit \subseteq Slicer
    /\ elsewhere \in 0..MaxElsewhere
    /\ has \subseteq Slicer
    /\ attempted \subseteq Slicer

Init ==
    /\ conf \in [Slicer -> Conf]
    /\ version \in [Slicer -> Version \cup {NoVersion}]
    /\ up \in [Slicer -> BOOLEAN]
    /\ late = [s \in Slicer |-> NoField]
    /\ ours = {}
    /\ page = NoPage
    /\ thread = [s \in Slicer |-> NoThread]
    /\ audit = {}
    /\ elsewhere = 0
    /\ has = {}
    /\ attempted = {}

-----------------------------------------------------------------------------
(* Uplynk, its other users, and PATCHes that are applied after the console *)
(* stopped waiting for the answer.                                         *)

EditedElsewhere(s) ==
    /\ elsewhere < MaxElsewhere
    /\ elsewhere' = elsewhere + 1
    /\ \E c \in Conf, v \in Version \cup {NoVersion} :
         /\ <<c, v>> # <<conf[s], version[s]>>
         /\ conf' = [conf EXCEPT ![s] = c]
         /\ version' = [version EXCEPT ![s] = v]
    /\ has' = has \ {s}
    /\ UNCHANGED <<up, late, ours, attempted, page, thread, audit>>

StartedOrStopped(s) ==
    /\ up' = [up EXCEPT ![s] = ~@]
    /\ UNCHANGED <<conf, version, late, elsewhere, page, thread, audit, history>>

\* Uplynk replaces the whole configuration.
PatchApplied(s, fields) ==
    /\ conf' = [conf EXCEPT ![s] = IF fields.conf = {} THEN @ ELSE CHOOSE c \in fields.conf : TRUE]
    /\ version' = [version EXCEPT ![s] = IF fields.version = NoVersion THEN @ ELSE fields.version]

-----------------------------------------------------------------------------
(* Reading slicers, and what a request would change.                       *)

\* The slicers of a batch that could be read.
Readings(slicers) ==
    {read \in SUBSET slicers : "unread" \in Fault \/ read = slicers}

Confs(slicers) == {conf[s] : s \in slicers}

Touched(request) ==
    ChangedKeys(request.base, request.text) \cup RemovedKeys(request.base, request.text)
      \cup {k \in Key : request.overrides[k] # Absent}

\* A batch only sends what was edited; for one slicer the text is everything.
Wanted(request, current) ==
    IF request.batch
    THEN ApplyOverrides(ApplyLineEdits(current, request.base, request.text), request.overrides)
    ELSE request.text

\* Mutant: what is sent is not compared with what the slicer has.
PlanUncompared(request, current, has_version) ==
    [conf    |-> IF Touched(request) # {} THEN {Wanted(request, current)} ELSE {},
     version |-> IF request.version = has_version THEN NoVersion ELSE request.version]

Plan(request, current, has_version) ==
    [conf    |-> IF Touched(request) # {} /\ Wanted(request, current) # current
                 THEN {Wanted(request, current)} ELSE {},
     version |-> IF request.version = has_version THEN NoVersion ELSE request.version]

PlanFor(request, s) == Plan(request, conf[s], version[s])

\* History: with this PATCH the slicer has the whole request, unless what the PATCH
\* leaves out was edited since it was read.
HasWith(s, fields) ==
    has' = IF /\ fields.conf = {} => PlanFor(page, s).conf = {}
              /\ fields.version = NoVersion => PlanFor(page, s).version = NoVersion
           THEN has \cup {s} ELSE has \ {s}

LateApplied(s) ==
    /\ late[s] # NoField
    /\ PatchApplied(s, late[s])
    /\ late' = [late EXCEPT ![s] = NoField]
    /\ ours' = ours \ {s}
    /\ IF s \in ours THEN HasWith(s, late[s]) ELSE has' = has \ {s}
    /\ UNCHANGED <<up, attempted, elsewhere, page, thread, audit>>

\* An emptied box is refused, and so is a line typed for a setting that differs.
Refused(request, read) ==
    \/ request.text = Blank /\ request.base # Blank
    \/ /\ request.batch
       /\ AddedKeys(request.base, request.text) \cap Differing(Confs(read)) # {}

\* The Edit page.  It keeps what the box started from, unless that is nothing.
EditPage(request, read) ==
    LET fresh == IF request.batch THEN Shared(Confs(read))
                 ELSE IF read = {} THEN Blank ELSE conf[CHOOSE s \in read : TRUE]
        base  == IF request.base = Blank THEN fresh ELSE request.base
    IN  [NoPage EXCEPT !.at = "edit", !.slicers = request.slicers, !.batch = request.batch,
           !.base = base, !.text = base, !.tries = request.tries,
           !.locked = IF request.batch THEN Differing(Confs(read)) ELSE {}]

ShowEdit(request) == \E read \in Readings(request.slicers) : page' = EditPage(request, read)

-----------------------------------------------------------------------------
(* The steps of the admin.                                                 *)

\* What is applied from now on is of another request.
Forget == ours' = {} /\ has' = {} /\ attempted' = {} /\ audit' = {}

Select ==
    /\ page.at = "select"
    /\ \E slicers \in (SUBSET Slicer) \ {{}} :
         ShowEdit([NoPage EXCEPT !.slicers = slicers, !.batch = Cardinality(slicers) > 1])
    /\ thread' = [s \in Slicer |-> NoThread]
    /\ UNCHANGED <<uplynk, audit, history>>

\* What the form of the Edit page can hold.
Filled(text, overrides, ver) ==
    [page EXCEPT !.text = text, !.overrides = overrides, !.version = ver]

ReviewPage(request, read) ==
    [request EXCEPT !.at = "review", !.locked = {},
       !.confirmed = {s \in read : up[s] /\ PlanFor(request, s) # NoField},
       !.sending = \E s \in read : PlanFor(request, s) # NoField]

\* unfilled: an Override is ticked and has no value, which is refused too.
Review ==
    /\ page.at = "edit"
    /\ \E text, overrides \in Conf, ver \in Version \cup {NoVersion}, unfilled \in BOOLEAN :
         /\ {k \in Key : overrides[k] # Absent} \subseteq page.locked
         /\ unfilled => page.locked # {}
         /\ LET request == Filled(text, overrides, ver)
            IN  \E checked, planned \in Readings(page.slicers) :
                  IF \/ unfilled \/ Refused(request, checked)
                     \/ planned = page.slicers /\ ~ReviewPage(request, planned).sending
                  THEN ShowEdit(request)
                  ELSE page' = ReviewPage(request, planned)
    /\ UNCHANGED <<uplynk, thread, audit, history>>

Back ==
    /\ page.at = "review"
    /\ ShowEdit(page)
    /\ UNCHANGED <<uplynk, thread, audit, history>>

\* Apply, and Retry for the slicers that were not updated, with the restarts
\* confirmed in the review.
Submit(slicers) ==
    /\ page.tries < MaxApply
    /\ LET request == [page EXCEPT !.slicers = slicers, !.batch = @ \/ Cardinality(slicers) > 1]
       IN  \E checked \in Readings(slicers) :
             IF Refused(request, checked)
             THEN /\ ShowEdit(request)
                  /\ thread' = [s \in Slicer |-> NoThread]
                  /\ Forget
             ELSE /\ page' = [request EXCEPT !.at = "applying", !.tries = @ + 1,
                                !.differed = Differing(Confs(slicers))]
                  /\ thread' = [s \in Slicer |->
                       IF s \in slicers THEN [NoThread EXCEPT !.at = "wait"] ELSE NoThread]
                  /\ UNCHANGED <<audit, history>>
    /\ UNCHANGED uplynk

Apply == page.at = "review" /\ page.sending /\ Submit(page.slicers)

Retryable == {s \in Slicer : thread[s].at \in {"failed", "not_sent"}}

Retry == page.at = "results" /\ Retryable # {} /\ Submit(Retryable)

NewUpdate ==
    /\ page.at = "results"
    /\ page' = NoPage
    /\ thread' = [s \in Slicer |-> NoThread]
    /\ Forget
    /\ UNCHANGED uplynk

-----------------------------------------------------------------------------
(* The threads of one apply.                                               *)

\* The slicer could not be read, or its turn did not come within the budget.
NotReached(s) ==
    /\ thread[s].at = "wait"
    /\ thread' = [thread EXCEPT ![s].at = "not_sent"]
    /\ UNCHANGED <<uplynk, page, audit, history>>

Decided(s, fields, confirmed) ==
    IF fields = NoField THEN "skipped"
    ELSE IF up[s] /\ s \notin confirmed THEN "not_sent" ELSE "patch"

\* A state that Uplynk does not tell counts as not running, which is a slicer that
\* stops before this and starts after it (StartedOrStopped).
ReadAgain(s) ==
    /\ thread[s].at = "wait"
    /\ LET fields == PlanFor(page, s)
           decided == Decided(s, fields, page.confirmed)
       IN  thread' = [thread EXCEPT ![s] =
             IF decided = "patch"
             THEN [at |-> decided, fields |-> fields, seen |-> conf[s], had |-> s \in has]
             ELSE [NoThread EXCEPT !.at = decided]]
    /\ UNCHANGED <<uplynk, page, audit, history>>

Sent(s, outcome) ==
    /\ thread' = [thread EXCEPT ![s] = [NoThread EXCEPT !.at = outcome]]
    /\ attempted' = attempted \cup {s}

Patch(s) ==
    /\ thread[s].at = "patch"
    /\ PatchApplied(s, thread[s].fields)
    /\ HasWith(s, thread[s].fields)
    /\ Sent(s, "updated")
    /\ UNCHANGED <<up, late, ours, elsewhere, page, audit>>

PatchRefused(s) ==
    /\ thread[s].at = "patch"
    /\ Sent(s, "failed")
    /\ UNCHANGED <<uplynk, page, audit, ours, has>>

\* No answer in time, or it was lost: Uplynk is yet to apply the PATCH, which can be
\* at once.
PatchTimedOut(s) ==
    /\ thread[s].at = "patch"
    /\ late[s] = NoField /\ Cardinality({t \in Slicer : late[t] # NoField}) < MaxLate
    /\ late' = [late EXCEPT ![s] = thread[s].fields]
    /\ ours' = ours \cup {s}
    /\ Sent(s, "failed")
    /\ UNCHANGED <<conf, version, up, elsewhere, page, audit, has>>

\* Mutant: only what was updated is recorded.
RecordedUpdates(results) == {s \in page.slicers : results[s].at = "updated"}

\* One audit row for each slicer that was attempted.
Recorded(results) == {s \in page.slicers : results[s].at # "skipped"}

Finish ==
    /\ page.at = "applying"
    /\ \A s \in page.slicers : thread[s].at \notin {"wait", "patch"}
    /\ audit' = audit \cup Recorded(thread)
    /\ page' = [page EXCEPT !.at = "results"]
    /\ UNCHANGED <<uplynk, thread, history>>

\* gunicorn kills the worker, or the commit fails: no row of this apply is written,
\* and the admin starts again.
Killed ==
    /\ "crash" \in Fault
    /\ page.at = "applying"
    /\ page' = NoPage
    /\ thread' = [s \in Slicer |-> NoThread]
    /\ Forget
    /\ UNCHANGED uplynk

Next ==
    \/ Select \/ Review \/ Back \/ Apply \/ Retry \/ NewUpdate \/ Finish \/ Killed
    \/ \E s \in Slicer :
         \/ EditedElsewhere(s) \/ StartedOrStopped(s) \/ LateApplied(s)
         \/ NotReached(s) \/ ReadAgain(s) \/ Patch(s) \/ PatchRefused(s) \/ PatchTimedOut(s)

Spec == Init /\ [][Next]_vars

-----------------------------------------------------------------------------
(* Properties.                                                             *)

Sends(s) == thread[s].at = "patch" /\ thread'[s].at \in {"updated", "failed"}

\* A batch "applies only your edits, and each slicer keeps everything else"
\* (1.21.3), also what somebody changed between the Edit page and the apply: a
\* setting the request does not touch is left as it is, or, where it changed since
\* the apply read it, as it was read then; never as the box had it.
OthersKept ==
    [][\A s \in Slicer : Sends(s) /\ page.batch =>
         \A k \in Key \ Touched(page) : conf'[s][k] \in {conf[s][k], thread[s].seen[k]}]_vars

\* "An edit can't switch a setting on by accident": where a slicer does not have
\* a setting, only a line added as new gives it one.
NotSwitchedOn ==
    [][\A s \in Slicer : Sends(s) /\ page.batch =>
         \A k \in Key \ AddedKeys(page.base, page.text) :
           conf[s][k] = Absent /\ thread[s].seen[k] = Absent => conf'[s][k] = Absent]_vars

\* "A typed line can't get around Override" (_update_problem): it replaces no value
\* of a setting that differed between the selected slicers when they were checked.
LockedKept ==
    [][\A s \in Slicer : Sends(s) /\ page.batch =>
         \A k \in page.differed \cap AddedKeys(page.base, page.text) :
           page.overrides[k] = Absent => conf'[s][k] = conf[s][k]]_vars

\* "A retry reads the current settings first, so nothing is sent if the update
\* already applied" (explain_no_response), whichever try of the request applied it,
\* with its answer lost or long after the console gave up on it.
RetrySendsNothing == [][\A s \in Slicer : Sends(s) => ~thread[s].had]_vars

\* Whatever a request sent, in its apply or in a retry, is in the audit log when the
\* results are shown, though the last try found nothing left to send there and
\* recorded nothing (apply_updates: "record what happened").
AttemptsAudited == page.at = "results" => attempted \subseteq audit

\* Uplynk restarts a running slicer whose settings change.
Restarts(s) == Sends(s) /\ up[s] /\ <<conf'[s], version'[s]>> # <<conf[s], version[s]>>

\* "A slicer that started running after the review isn't restarted without
\* confirmation" (apply_updates).
ConfirmedOnly == [][\A s \in Slicer : Restarts(s) => s \in page.confirmed]_vars

\* No update empties a slicer's configuration: "empty would wipe it"
\* (_update_problem).
NeverEmptied ==
    [][\A s \in Slicer : Sends(s) /\ conf[s] # Blank => conf'[s] # Blank]_vars
=============================================================================
