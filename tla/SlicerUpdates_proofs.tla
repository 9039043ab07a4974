----------------------- MODULE SlicerUpdates_proofs -----------------------
(***************************************************************************)
(* What TLAPS proves of SlicerUpdates, for any slicers, settings, values,  *)
(* versions, edits by others and applies.                                  *)
(*                                                                         *)
(* ThreadInv ties a thread to the page's request: what it is about to send *)
(* is what that request wants of the configuration the thread read, so the *)
(* properties of a PATCH are those of Wanted.  RetryInv says of a slicer   *)
(* that has the request, or is yet to get it late, that nothing is left to *)
(* send; it rests on Wanted being idempotent (AppliedTwice) and on every   *)
(* retry of a request wanting the same as the apply (SizeOK).              *)
(***************************************************************************)
EXTENDS SlicerUpdates, FiniteSetTheorems, TLAPS

-----------------------------------------------------------------------------
(* What the edits of a request do to one configuration.                    *)

LEMMA BlankConf == Blank \in Conf
BY DEF Blank, Conf

LEMMA SharedConf ==
  ASSUME NEW confs \in SUBSET Conf
  PROVE  Shared(confs) \in Conf
<1> SUFFICES ASSUME NEW k \in Key, Values(confs, k) # {}
             PROVE  (CHOOSE v \in Values(confs, k) : TRUE) \in Value \cup {Absent}
  BY DEF Shared, Conf
<1>1. \A v \in Values(confs, k) : v \in Value \cup {Absent}
  BY DEF Values, Conf
<1> QED BY <1>1

LEMMA ApplyLineEditsConf ==
  ASSUME NEW current \in Conf, NEW before \in Conf, NEW after \in Conf
  PROVE  ApplyLineEdits(current, before, after) \in Conf
BY DEF ApplyLineEdits, Conf

LEMMA ApplyOverridesConf ==
  ASSUME NEW current \in Conf, NEW overrides \in Conf
  PROVE  ApplyOverrides(current, overrides) \in Conf
BY DEF ApplyOverrides, Conf

LEMMA WantedConf ==
  ASSUME NEW request \in Page, NEW current \in Conf
  PROVE  Wanted(request, current) \in Conf
<1>1. /\ request.base \in Conf /\ request.text \in Conf /\ request.overrides \in Conf
  BY DEF Page
<1> QED BY <1>1, ApplyLineEditsConf, ApplyOverridesConf DEF Wanted

\* A batch leaves alone what the request does not touch.
LEMMA UntouchedKept ==
  ASSUME NEW request \in Page, NEW current \in Conf, request.batch,
         NEW k \in Key \ Touched(request)
  PROVE  Wanted(request, current)[k] = current[k]
<1> DEFINE edited == ApplyLineEdits(current, request.base, request.text)
<1>1. edited[k] = current[k]
  BY DEF ApplyLineEdits, Touched
<1>2. request.overrides[k] = Absent
  BY DEF Touched
<1>3. Wanted(request, current) = ApplyOverrides(edited, request.overrides)
  BY DEF Wanted
<1>4. ApplyOverrides(edited, request.overrides)[k] = edited[k]
  BY <1>2 DEF ApplyOverrides
<1> QED BY <1>1, <1>3, <1>4

\* A batch gives a setting only by a new line.
LEMMA OnlyNewLinesSwitchOn ==
  ASSUME NEW request \in Page, NEW current \in Conf, request.batch,
         NEW k \in Key \ AddedKeys(request.base, request.text), current[k] = Absent
  PROVE  Wanted(request, current)[k] = Absent
<1> DEFINE edited == ApplyLineEdits(current, request.base, request.text)
<1>1. edited[k] = Absent
  BY DEF ApplyLineEdits
<1>2. Wanted(request, current) = ApplyOverrides(edited, request.overrides)
  BY DEF Wanted
<1>3. ApplyOverrides(edited, request.overrides)[k] = Absent
  BY <1>1 DEF ApplyOverrides
<1> QED BY <1>2, <1>3

\* Once applied, a request has nothing left to change.
LEMMA AppliedTwice ==
  ASSUME NEW request \in Page, NEW current \in Conf
  PROVE  Wanted(request, Wanted(request, current)) = Wanted(request, current)
<1>1. CASE ~request.batch
  BY <1>1 DEF Wanted
<1>2. CASE request.batch
  <2> DEFINE before == request.base
             after == request.text
             once == ApplyLineEdits(current, before, after)
             first == ApplyOverrides(once, request.overrides)
             twice == ApplyLineEdits(first, before, after)
             second == ApplyOverrides(twice, request.overrides)
  <2>1. \A k \in Key : second[k] = first[k]
    <3> SUFFICES ASSUME NEW k \in Key PROVE second[k] = first[k]
      OBVIOUS
    <3>1. once[k] = IF k \in RemovedKeys(before, after) THEN Absent
                    ELSE IF k \in ChangedKeys(before, after)
                            /\ (current[k] # Absent \/ k \in AddedKeys(before, after))
                         THEN after[k] ELSE current[k]
      BY DEF ApplyLineEdits
    <3>2. first[k] = IF once[k] # Absent /\ request.overrides[k] # Absent
                     THEN request.overrides[k] ELSE once[k]
      BY DEF ApplyOverrides
    <3>3. twice[k] = IF k \in RemovedKeys(before, after) THEN Absent
                     ELSE IF k \in ChangedKeys(before, after)
                             /\ (first[k] # Absent \/ k \in AddedKeys(before, after))
                          THEN after[k] ELSE first[k]
      BY DEF ApplyLineEdits
    <3>4. second[k] = IF twice[k] # Absent /\ request.overrides[k] # Absent
                      THEN request.overrides[k] ELSE twice[k]
      BY DEF ApplyOverrides
    <3>5. k \in ChangedKeys(before, after) => after[k] # Absent
      BY DEF ChangedKeys
    <3> HIDE DEF once, first, twice, second
    <3> QED BY <3>1, <3>2, <3>3, <3>4, <3>5
  <2>2. first = [k \in Key |-> first[k]] /\ second = [k \in Key |-> second[k]]
    BY DEF ApplyOverrides
  <2>3. first = second
    <3> HIDE DEF first, second
    <3> QED BY <2>1, <2>2
  <2> QED BY <1>2, <2>3 DEF Wanted
<1> QED BY <1>1, <1>2

-----------------------------------------------------------------------------
(* Types.                                                                  *)

LEMMA NoFieldType == NoField \in Fields
BY DEF NoField, Fields

LEMMA PlanType ==
  ASSUME NEW request \in Page, NEW current \in Conf, NEW v
  PROVE  Plan(request, current, v) \in Fields
BY WantedConf DEF Plan, Fields, Page

LEMMA NoPageType == NoPage \in Page
BY BlankConf, UpdatesAssumption DEF NoPage, Page

LEMMA NoThreadType == NoThread \in Thread
BY BlankConf, NoFieldType DEF NoThread, Thread

LEMMA ConfsType ==
  ASSUME TypeOK, NEW slicers \in SUBSET Slicer
  PROVE  Confs(slicers) \in SUBSET Conf
BY DEF Confs, TypeOK

LEMMA EditPageType ==
  ASSUME TypeOK, NEW request \in Page, NEW read \in SUBSET Slicer
  PROVE  EditPage(request, read) \in Page
<1> DEFINE fresh == IF request.batch THEN Shared(Confs(read))
                    ELSE IF read = {} THEN Blank ELSE conf[CHOOSE s \in read : TRUE]
           base  == IF request.base = Blank THEN fresh ELSE request.base
           locked == IF request.batch THEN Differing(Confs(read)) ELSE {}
<1>1. read # {} => (CHOOSE s \in read : TRUE) \in Slicer
  OBVIOUS
<1>2. fresh \in Conf
  BY <1>1, BlankConf, ConfsType, SharedConf DEF TypeOK
<1>3. base \in Conf
  BY <1>2 DEF Page
<1>4. locked \in SUBSET Key
  BY DEF Differing
<1>5. EditPage(request, read) =
        [NoPage EXCEPT !.at = "edit", !.slicers = request.slicers, !.batch = request.batch,
           !.base = base, !.text = base, !.tries = request.tries, !.locked = locked]
  BY DEF EditPage
<1> HIDE DEF fresh, base, locked
<1> QED BY <1>3, <1>4, <1>5, NoPageType DEF Page

LEMMA ShowEditType ==
  ASSUME TypeOK, NEW request \in Page, ShowEdit(request)
  PROVE  page' \in Page
<1>1. Readings(request.slicers) \subseteq SUBSET Slicer
  BY DEF Readings, Page
<1> QED BY <1>1, EditPageType DEF ShowEdit

LEMMA SelectType ==
  ASSUME TypeOK, Select
  PROVE  TypeOK'
<1>1. PICK slicers \in (SUBSET Slicer) \ {{}} :
        ShowEdit([NoPage EXCEPT !.slicers = slicers, !.batch = Cardinality(slicers) > 1])
  BY DEF Select
<1>2. [NoPage EXCEPT !.slicers = slicers, !.batch = Cardinality(slicers) > 1] \in Page
  <2> DEFINE batch == Cardinality(slicers) > 1
  <2>1. batch \in BOOLEAN /\ slicers \in SUBSET Slicer
    OBVIOUS
  <2> HIDE DEF batch
  <2>2. [NoPage EXCEPT !.slicers = slicers, !.batch = batch] \in Page
    BY <2>1, NoPageType DEF Page
  <2> QED BY <2>2 DEF batch
<1>3. page' \in Page
  BY <1>1, <1>2, ShowEditType
<1>4. thread' \in [Slicer -> Thread]
  BY NoThreadType DEF Select
<1> QED BY <1>3, <1>4 DEF TypeOK, Select, uplynk, history

LEMMA ReviewType ==
  ASSUME TypeOK, Review
  PROVE  TypeOK'
<1>1. PICK text \in Conf, overrides \in Conf, ver \in Version \cup {NoVersion} :
        LET request == Filled(text, overrides, ver)
        IN  \E checked, planned \in Readings(page.slicers) :
              ShowEdit(request) \/ page' = ReviewPage(request, planned)
  BY DEF Review
<1> DEFINE request == Filled(text, overrides, ver)
<1>2. request \in Page
  BY DEF Filled, Page, TypeOK
<1>3. CASE ShowEdit(request)
  BY <1>2, <1>3, ShowEditType DEF TypeOK, Review, uplynk, history
<1>4. CASE \E planned \in Readings(page.slicers) : page' = ReviewPage(request, planned)
  <2>1. PICK planned \in Readings(page.slicers) : page' = ReviewPage(request, planned)
    BY <1>4
  <2>2. planned \subseteq Slicer
    BY <2>1 DEF Readings, Page, TypeOK
  <2> HIDE DEF request
  <2>3. ReviewPage(request, planned) \in Page
    BY <1>2, <2>2 DEF ReviewPage, Page
  <2> QED BY <2>1, <2>3 DEF TypeOK, Review, uplynk, history
<1> QED BY <1>1, <1>3, <1>4

LEMMA SubmitType ==
  ASSUME TypeOK, NEW slicers \in SUBSET Slicer, Submit(slicers)
  PROVE  TypeOK'
<1> DEFINE request == [page EXCEPT !.slicers = slicers, !.batch = @ \/ Cardinality(slicers) > 1]
<1>1. request \in Page /\ request.tries = page.tries
  BY DEF Page, TypeOK
<1>2. /\ page.tries < MaxApply /\ UNCHANGED uplynk
      /\ \/ /\ ShowEdit(request)
            /\ thread' = [s \in Slicer |-> NoThread]
            /\ Forget
         \/ /\ page' = [request EXCEPT !.at = "applying", !.tries = @ + 1,
                           !.differed = Differing(Confs(slicers))]
            /\ thread' = [s \in Slicer |->
                  IF s \in slicers THEN [NoThread EXCEPT !.at = "wait"] ELSE NoThread]
            /\ UNCHANGED <<audit, history>>
  BY DEF Submit
<1>3. page' \in Page
  <2> HIDE DEF request
  <2>1. CASE ShowEdit(request)
    BY <1>1, <2>1, ShowEditType
  <2>2. CASE page' = [request EXCEPT !.at = "applying", !.tries = @ + 1,
                        !.differed = Differing(Confs(slicers))]
    <3>1. Differing(Confs(slicers)) \in SUBSET Key
      BY DEF Differing
    <3>2. page.tries + 1 \in 0..MaxApply
      BY <1>2, UpdatesAssumption DEF TypeOK, Page
    <3> QED BY <1>1, <2>2, <3>1, <3>2 DEF Page
  <2> QED BY <1>2, <2>1, <2>2
<1>4. thread' \in [Slicer -> Thread]
  <2>1. [NoThread EXCEPT !.at = "wait"] \in Thread
    BY NoThreadType DEF Thread
  <2> QED BY <1>2, <2>1, NoThreadType
<1> QED BY <1>2, <1>3, <1>4 DEF TypeOK, Forget, uplynk, history

\* A PATCH of a typed thread, or of a late one.
LEMMA PatchAppliedType ==
  ASSUME TypeOK, NEW s \in Slicer, NEW fields \in Fields, PatchApplied(s, fields)
  PROVE  conf' \in [Slicer -> Conf] /\ version' \in [Slicer -> Version \cup {NoVersion}]
<1>1. fields.conf # {} => (CHOOSE c \in fields.conf : TRUE) \in Conf
  BY DEF Fields
<1> QED BY <1>1 DEF PatchApplied, TypeOK, Fields

LEMMA SentType ==
  ASSUME TypeOK, NEW s \in Slicer, NEW outcome \in {"updated", "failed"}, Sent(s, outcome)
  PROVE  /\ thread' \in [Slicer -> Thread]
         /\ attempted' \subseteq Slicer
<1>1. [NoThread EXCEPT !.at = outcome] \in Thread
  BY NoThreadType DEF Thread
<1>2. thread' \in [Slicer -> Thread]
  BY <1>1 DEF Sent, TypeOK
<1>3. attempted' \subseteq Slicer
  BY DEF Sent, TypeOK
<1> QED BY <1>2, <1>3

LEMMA ReadAgainType ==
  ASSUME TypeOK, NEW s \in Slicer, ReadAgain(s)
  PROVE  TypeOK'
<1> DEFINE fields == PlanFor(page, s)
           decided == Decided(s, fields, page.confirmed)
<1>1. fields \in Fields
  BY PlanType DEF PlanFor, TypeOK
<1>2. decided \in {"skipped", "not_sent", "patch"}
  BY DEF Decided
<1>3. /\ thread' = [thread EXCEPT ![s] =
             IF decided = "patch"
             THEN [at |-> decided, fields |-> fields, seen |-> conf[s], had |-> s \in has]
             ELSE [NoThread EXCEPT !.at = decided]]
      /\ UNCHANGED <<uplynk, page, audit, history>>
  BY DEF ReadAgain
<1> HIDE DEF fields, decided
<1>4. thread' \in [Slicer -> Thread]
  <2>1. [NoThread EXCEPT !.at = decided] \in Thread
    BY <1>2, NoThreadType DEF Thread
  <2>2. [at |-> decided, fields |-> fields, seen |-> conf[s], had |-> s \in has] \in Thread
    BY <1>1, <1>2 DEF Thread, TypeOK
  <2> QED BY <1>3, <2>1, <2>2 DEF TypeOK
<1> QED BY <1>3, <1>4 DEF TypeOK, uplynk, history

LEMMA TypeInvariant == TypeOK /\ [Next]_vars => TypeOK'
<1> SUFFICES ASSUME TypeOK, [Next]_vars PROVE TypeOK'
  OBVIOUS
<1>1. CASE Select
  BY <1>1, SelectType
<1>2. CASE Review
  BY <1>2, ReviewType
<1>3. CASE Back
  BY <1>3, ShowEditType DEF Back, TypeOK, uplynk, history
<1>4. CASE Apply
  BY <1>4, SubmitType DEF Apply, TypeOK, Page
<1>5. CASE Retry
  BY <1>5, SubmitType DEF Retry, Retryable
<1>6. CASE NewUpdate
  BY <1>6, NoPageType, NoThreadType DEF NewUpdate, Forget, TypeOK, uplynk
<1>7. CASE Finish
  BY <1>7 DEF Finish, Recorded, TypeOK, Page, uplynk, history
<1>8. CASE Killed
  BY <1>8, NoPageType, NoThreadType DEF Killed, Forget, TypeOK, uplynk
<1>9. ASSUME NEW s \in Slicer, EditedElsewhere(s) PROVE TypeOK'
  BY <1>9, UpdatesAssumption DEF EditedElsewhere, TypeOK
<1>10. ASSUME NEW s \in Slicer, StartedOrStopped(s) PROVE TypeOK'
  BY <1>10 DEF StartedOrStopped, TypeOK, history
<1>11. ASSUME NEW s \in Slicer, LateApplied(s) PROVE TypeOK'
  <2>1. late[s] \in Fields
    BY DEF TypeOK
  <2> QED BY <1>11, <2>1, PatchAppliedType, NoFieldType DEF LateApplied, HasWith, TypeOK
<1>12. ASSUME NEW s \in Slicer, NotReached(s) PROVE TypeOK'
  <2>1. [thread[s] EXCEPT !.at = "not_sent"] \in Thread
    BY DEF TypeOK, Thread
  <2> QED BY <1>12, <2>1 DEF NotReached, TypeOK, uplynk, history
<1>13. ASSUME NEW s \in Slicer, ReadAgain(s) PROVE TypeOK'
  BY <1>13, ReadAgainType
<1>14. ASSUME NEW s \in Slicer, Patch(s) PROVE TypeOK'
  <2>1. thread[s].fields \in Fields
    BY DEF TypeOK, Thread
  <2> QED BY <1>14, <2>1, PatchAppliedType, SentType DEF Patch, HasWith, TypeOK
<1>15. ASSUME NEW s \in Slicer, PatchRefused(s) PROVE TypeOK'
  BY <1>15, SentType DEF PatchRefused, TypeOK, uplynk, history
<1>16. ASSUME NEW s \in Slicer, PatchTimedOut(s) PROVE TypeOK'
  <2>1. thread[s].fields \in Fields
    BY DEF TypeOK, Thread
  <2> QED BY <1>16, <2>1, SentType DEF PatchTimedOut, TypeOK
<1>17. CASE UNCHANGED vars
  BY <1>17 DEF vars, uplynk, history, TypeOK
<1> QED BY <1>1, <1>2, <1>3, <1>4, <1>5, <1>6, <1>7, <1>8, <1>9, <1>10, <1>11, <1>12,
           <1>13, <1>14, <1>15, <1>16, <1>17 DEF Next

LEMMA InitType == Init => TypeOK
BY NoPageType, NoThreadType, NoFieldType, UpdatesAssumption DEF Init, TypeOK

\* Every page, thread and slicer keeps its type, whatever is edited, lost or killed.
THEOREM TypeCorrect == Spec => []TypeOK
BY InitType, TypeInvariant, PTL DEF Spec

-----------------------------------------------------------------------------
(* What a thread that is about to send goes by.                            *)

\* A thread works for the apply on the page: it belongs to one of its slicers, has
\* decided by the page's request and what it read.
ThreadOK(s) ==
    /\ thread[s].at \in {"wait", "patch"} => page.at = "applying"
    /\ thread[s].at # "none" /\ page.at \in {"applying", "results"} => s \in page.slicers
    /\ thread[s].at = "patch" => thread[s].fields.conf \in {{}, {Wanted(page, thread[s].seen)}}

ThreadInv == \A s \in Slicer : ThreadOK(s)

LEMMA ShowEditAt ==
  ASSUME NEW request, ShowEdit(request)
  PROVE  page'.at = "edit"
BY DEF ShowEdit, EditPage, NoPage

LEMMA ReviewAt ==
  ASSUME TypeOK, Review
  PROVE  page'.at \in {"edit", "review"}
<1>1. PICK text \in Conf, overrides \in Conf, ver \in Version \cup {NoVersion} :
        LET request == Filled(text, overrides, ver)
        IN  \E checked, planned \in Readings(page.slicers) :
              ShowEdit(request) \/ page' = ReviewPage(request, planned)
  BY DEF Review
<1> DEFINE request == Filled(text, overrides, ver)
<1>2. request \in Page
  BY DEF Filled, Page, TypeOK
<1> HIDE DEF request
<1>3. \A planned : ReviewPage(request, planned).at = "review"
  BY <1>2 DEF ReviewPage, Page
<1> QED BY <1>1, <1>3, ShowEditAt DEF request

\* The two ways an apply or a retry goes.
LEMMA SubmitCases ==
  ASSUME TypeOK, NEW slicers \in SUBSET Slicer, Submit(slicers)
  PROVE  \/ /\ page'.at = "edit"
            /\ thread' = [s \in Slicer |-> NoThread]
            /\ Forget
         \/ /\ page'.at = "applying" /\ page'.slicers = slicers
            /\ page'.batch = (page.batch \/ Cardinality(slicers) > 1)
            /\ page'.base = page.base /\ page'.text = page.text
            /\ page'.overrides = page.overrides /\ page'.version = page.version
            /\ thread' = [s \in Slicer |->
                 IF s \in slicers THEN [NoThread EXCEPT !.at = "wait"] ELSE NoThread]
            /\ UNCHANGED <<audit, history>>
<1> DEFINE batch == page.batch \/ Cardinality(slicers) > 1
           request == [page EXCEPT !.slicers = slicers, !.batch = @ \/ Cardinality(slicers) > 1]
<1>1. request = [page EXCEPT !.slicers = slicers, !.batch = batch]
  BY DEF TypeOK, Page
<1>2. PICK checked \in Readings(slicers) :
        IF Refused(request, checked)
        THEN /\ ShowEdit(request)
             /\ thread' = [s \in Slicer |-> NoThread]
             /\ Forget
        ELSE /\ page' = [request EXCEPT !.at = "applying", !.tries = @ + 1,
                           !.differed = Differing(Confs(slicers))]
             /\ thread' = [s \in Slicer |->
                  IF s \in slicers THEN [NoThread EXCEPT !.at = "wait"] ELSE NoThread]
             /\ UNCHANGED <<audit, history>>
  BY DEF Submit
<1>3. CASE Refused(request, checked)
  BY <1>2, <1>3, ShowEditAt
<1>4. CASE ~Refused(request, checked)
  <2>1. page' = [request EXCEPT !.at = "applying", !.tries = @ + 1,
                   !.differed = Differing(Confs(slicers))]
    BY <1>2, <1>4
  <2>2. /\ request.batch = batch /\ request.slicers = slicers /\ request.base = page.base
        /\ request.text = page.text /\ request.overrides = page.overrides
        /\ request.version = page.version
    BY <1>1 DEF TypeOK, Page
  <2>3. DOMAIN request = DOMAIN NoPage
    BY <1>1 DEF TypeOK, Page, NoPage
  <2> HIDE DEF request, batch
  <2>4. /\ page'.at = "applying" /\ page'.slicers = slicers /\ page'.batch = batch
        /\ page'.base = page.base /\ page'.text = page.text
        /\ page'.overrides = page.overrides /\ page'.version = page.version
    BY <2>1, <2>2, <2>3 DEF NoPage
  <2> QED BY <1>2, <1>4, <2>4 DEF batch
<1> QED BY <1>3, <1>4

\* A step of one thread leaves the others as they are.
LEMMA OneThread ==
  ASSUME TypeOK, ThreadInv, NEW s \in Slicer, UNCHANGED page,
         NEW x, thread' = [thread EXCEPT ![s] = x], ThreadOK(s)'
  PROVE  ThreadInv'
<1> SUFFICES ASSUME NEW t \in Slicer, t # s PROVE ThreadOK(t)'
  BY DEF ThreadInv
<1>1. thread'[t] = thread[t]
  BY DEF TypeOK
<1> QED BY <1>1 DEF ThreadInv, ThreadOK

LEMMA SentOK ==
  ASSUME TypeOK, ThreadInv, NEW s \in Slicer, thread[s].at = "patch", UNCHANGED page,
         NEW outcome \in {"updated", "failed"}, Sent(s, outcome)
  PROVE  ThreadInv'
<1>1. thread'[s] = [NoThread EXCEPT !.at = outcome]
  BY DEF Sent, TypeOK
<1>2. thread'[s].at = outcome
  BY <1>1 DEF NoThread
<1>3. ThreadOK(s)'
  BY <1>2 DEF ThreadOK, ThreadInv
<1> QED BY <1>3, OneThread DEF Sent

LEMMA ReadAgainOK ==
  ASSUME TypeOK, ThreadInv, NEW s \in Slicer, ReadAgain(s)
  PROVE  ThreadInv'
<1> DEFINE fields == PlanFor(page, s)
           decided == Decided(s, fields, page.confirmed)
           x == IF decided = "patch"
                THEN [at |-> decided, fields |-> fields, seen |-> conf[s], had |-> s \in has]
                ELSE [NoThread EXCEPT !.at = decided]
<1>1. thread' = [thread EXCEPT ![s] = x] /\ UNCHANGED page /\ thread[s].at = "wait"
  BY DEF ReadAgain
<1>2. decided \in {"skipped", "not_sent", "patch"}
  BY DEF Decided
<1>3. fields.conf \in {{}, {Wanted(page, conf[s])}}
  BY DEF PlanFor, Plan
<1>4. page.at = "applying" /\ s \in page.slicers
  BY <1>1 DEF ThreadInv, ThreadOK
<1>5. thread'[s] = x
  BY <1>1 DEF TypeOK
<1> HIDE DEF fields, decided
<1>6. CASE decided = "patch"
  <2>1. thread'[s].at = "patch" /\ thread'[s].fields = fields /\ thread'[s].seen = conf[s]
    BY <1>5, <1>6
  <2>2. ThreadOK(s)'
    BY <1>1, <1>2, <1>3, <1>4, <1>6, <2>1 DEF ThreadOK
  <2> QED BY <1>1, <2>2, OneThread
<1>7. CASE decided # "patch"
  <2>1. thread'[s].at = decided
    BY <1>5, <1>7 DEF NoThread
  <2>2. ThreadOK(s)'
    BY <1>1, <1>2, <1>4, <1>7, <2>1 DEF ThreadOK
  <2> QED BY <1>1, <2>2, OneThread
<1> QED BY <1>6, <1>7

LEMMA NoThreadsOK ==
  ASSUME thread' = [s \in Slicer |-> NoThread]
  PROVE  ThreadInv'
<1>1. \A s \in Slicer : thread'[s].at = "none"
  BY DEF NoThread
<1> QED BY <1>1 DEF ThreadInv, ThreadOK

LEMMA ThreadInvariant == TypeOK /\ ThreadInv /\ [Next]_vars => ThreadInv'
<1> SUFFICES ASSUME TypeOK, ThreadInv, [Next]_vars PROVE ThreadInv'
  OBVIOUS
<1>1. CASE Select \/ NewUpdate
  BY <1>1, NoThreadsOK DEF Select, NewUpdate
<1>2. CASE Review \/ Back
  <2>1. page.at \notin {"applying", "results"} /\ page'.at \in {"edit", "review"} /\ UNCHANGED thread
    BY <1>2, ReviewAt, ShowEditAt DEF Review, Back
  <2> QED BY <2>1 DEF ThreadInv, ThreadOK
<1>3. CASE Apply \/ Retry
  <2>1. PICK slicers \in SUBSET Slicer : Submit(slicers)
    BY <1>3 DEF Apply, Retry, Retryable, TypeOK, Page
  <2>2. CASE thread' = [s \in Slicer |-> NoThread]
    BY <2>2, NoThreadsOK
  <2>3. CASE /\ page'.at = "applying" /\ page'.slicers = slicers
             /\ thread' = [s \in Slicer |->
                  IF s \in slicers THEN [NoThread EXCEPT !.at = "wait"] ELSE NoThread]
    <3>1. \A s \in Slicer : thread'[s].at = IF s \in slicers THEN "wait" ELSE "none"
      BY <2>3 DEF NoThread
    <3> QED BY <2>3, <3>1 DEF ThreadInv, ThreadOK
  <2> QED BY <2>1, <2>2, <2>3, SubmitCases
<1>4. CASE Finish
  <2>1. /\ page'.at = "results" /\ page'.slicers = page.slicers /\ page.at = "applying"
        /\ UNCHANGED thread
        /\ \A s \in page.slicers : thread[s].at \notin {"wait", "patch"}
    BY <1>4 DEF Finish, TypeOK, Page
  <2> QED BY <2>1 DEF ThreadInv, ThreadOK
<1>5. CASE Killed
  BY <1>5, NoThreadsOK DEF Killed
<1>6. ASSUME NEW s \in Slicer, EditedElsewhere(s) \/ StartedOrStopped(s) \/ LateApplied(s)
      PROVE  ThreadInv'
  BY <1>6 DEF EditedElsewhere, StartedOrStopped, LateApplied, ThreadInv, ThreadOK
<1>7. ASSUME NEW s \in Slicer, NotReached(s) PROVE ThreadInv'
  <2>1. thread' = [thread EXCEPT ![s] = [thread[s] EXCEPT !.at = "not_sent"]] /\ UNCHANGED page
    BY <1>7 DEF NotReached
  <2>2. thread'[s].at = "not_sent"
    BY <2>1 DEF TypeOK, Thread
  <2>3. ThreadOK(s)'
    BY <1>7, <2>1, <2>2 DEF NotReached, ThreadInv, ThreadOK
  <2> QED BY <2>1, <2>3, OneThread
<1>8. ASSUME NEW s \in Slicer, ReadAgain(s) PROVE ThreadInv'
  BY <1>8, ReadAgainOK
<1>9. ASSUME NEW s \in Slicer, Patch(s) \/ PatchRefused(s) \/ PatchTimedOut(s) PROVE ThreadInv'
  BY <1>9, SentOK DEF Patch, PatchRefused, PatchTimedOut
<1>10. CASE UNCHANGED vars
  BY <1>10 DEF vars, ThreadInv, ThreadOK
<1> QED BY <1>1, <1>2, <1>3, <1>4, <1>5, <1>6, <1>7, <1>8, <1>9, <1>10 DEF Next

LEMMA InitThreads == Init => ThreadInv
BY DEF Init, ThreadInv, ThreadOK, NoThread

-----------------------------------------------------------------------------
(* What a PATCH does.                                                      *)

LEMMA SendingStep ==
  ASSUME TypeOK, ThreadInv, [Next]_vars, NEW s \in Slicer, Sends(s)
  PROVE  Patch(s) \/ PatchRefused(s) \/ PatchTimedOut(s)
<1>1. thread[s].at = "patch" /\ thread'[s].at \in {"updated", "failed"} /\ page.at = "applying"
  BY DEF Sends, ThreadInv, ThreadOK
<1>2. thread'[s] # thread[s] /\ thread'[s] # NoThread
  BY <1>1 DEF NoThread
<1>3. ~Select /\ ~Review /\ ~Back /\ ~Apply /\ ~Retry /\ ~NewUpdate
  BY <1>1 DEF Select, Review, Back, Apply, Retry, NewUpdate
<1>4. ~Finish /\ ~Killed
  BY <1>1, <1>2 DEF Finish, Killed
<1>5. \A t \in Slicer : ~EditedElsewhere(t) /\ ~StartedOrStopped(t) /\ ~LateApplied(t)
  BY <1>2 DEF EditedElsewhere, StartedOrStopped, LateApplied
<1>6. ASSUME NEW t \in Slicer, NotReached(t) \/ ReadAgain(t) PROVE FALSE
  <2>1. t # s
    BY <1>1, <1>6 DEF NotReached, ReadAgain
  <2> QED BY <1>2, <1>6, <2>1 DEF NotReached, ReadAgain, TypeOK
<1>7. ASSUME NEW t \in Slicer, Patch(t) \/ PatchRefused(t) \/ PatchTimedOut(t) PROVE t = s
  BY <1>2, <1>7 DEF Patch, PatchRefused, PatchTimedOut, Sent, TypeOK
<1>8. ~UNCHANGED vars
  BY <1>2 DEF vars
<1> QED BY <1>3, <1>4, <1>5, <1>6, <1>7, <1>8 DEF Next

\* A PATCH changes nothing, or the slicer has what was wanted of what was read.
LEMMA SendsWanted ==
  ASSUME TypeOK, ThreadInv, [Next]_vars, NEW s \in Slicer, Sends(s)
  PROVE  conf'[s] \in {conf[s], Wanted(page, thread[s].seen)}
<1>1. CASE Patch(s)
  <2>1. thread[s].fields.conf \in {{}, {Wanted(page, thread[s].seen)}}
    BY DEF Sends, ThreadInv, ThreadOK
  <2>2. conf'[s] = IF thread[s].fields.conf = {} THEN conf[s]
                   ELSE CHOOSE c \in thread[s].fields.conf : TRUE
    BY <1>1 DEF Patch, PatchApplied, TypeOK
  <2> QED BY <2>1, <2>2
<1>2. CASE PatchRefused(s) \/ PatchTimedOut(s)
  BY <1>2 DEF PatchRefused, PatchTimedOut, uplynk
<1> QED BY <1>1, <1>2, SendingStep

LEMMA ThreadsAlways == Spec => [](TypeOK /\ ThreadInv)
<1>1. Init => TypeOK /\ ThreadInv
  BY InitType, InitThreads
<1>2. (TypeOK /\ ThreadInv) /\ [Next]_vars => (TypeOK /\ ThreadInv)'
  BY TypeInvariant, ThreadInvariant
<1> QED BY <1>1, <1>2, PTL DEF Spec

\* A batch keeps every setting its request does not touch, for any slicers, settings
\* and lines, whatever others edit between review and apply.
THEOREM OthersKeptAlways == Spec => OthersKept
<1>1. TypeOK /\ ThreadInv /\ [Next]_vars =>
        [\A s \in Slicer : Sends(s) /\ page.batch =>
           \A k \in Key \ Touched(page) : conf'[s][k] \in {conf[s][k], thread[s].seen[k]}]_vars
  <2> SUFFICES ASSUME TypeOK, ThreadInv, [Next]_vars, NEW s \in Slicer, Sends(s), page.batch,
                      NEW k \in Key \ Touched(page)
               PROVE  conf'[s][k] \in {conf[s][k], thread[s].seen[k]}
    OBVIOUS
  <2>1. page \in Page /\ thread[s].seen \in Conf
    BY DEF TypeOK, Thread
  <2> QED BY <2>1, SendsWanted, UntouchedKept
<1> QED BY <1>1, ThreadsAlways, PTL DEF Spec, OthersKept

\* A batch switches a setting on only by a line added as new.
THEOREM NeverSwitchedOn == Spec => NotSwitchedOn
<1>1. TypeOK /\ ThreadInv /\ [Next]_vars =>
        [\A s \in Slicer : Sends(s) /\ page.batch =>
           \A k \in Key \ AddedKeys(page.base, page.text) :
             conf[s][k] = Absent /\ thread[s].seen[k] = Absent => conf'[s][k] = Absent]_vars
  <2> SUFFICES ASSUME TypeOK, ThreadInv, [Next]_vars, NEW s \in Slicer, Sends(s), page.batch,
                      NEW k \in Key \ AddedKeys(page.base, page.text),
                      conf[s][k] = Absent, thread[s].seen[k] = Absent
               PROVE  conf'[s][k] = Absent
    OBVIOUS
  <2>1. page \in Page /\ thread[s].seen \in Conf
    BY DEF TypeOK, Thread
  <2> QED BY <2>1, SendsWanted, OnlyNewLinesSwitchOn
<1> QED BY <1>1, ThreadsAlways, PTL DEF Spec, NotSwitchedOn

-----------------------------------------------------------------------------
(* The audit log.                                                          *)

\* While a request is applied, what it has sent has a row or is yet to get one, as
\* the result of a thread of the current try; after, it has a row.
AuditInv ==
    /\ page.at \notin {"applying", "results"} => attempted = {}
    /\ page.at = "applying" =>
         \A s \in attempted \ audit :
           s \in page.slicers /\ thread[s].at \in {"updated", "failed"}
    /\ AttemptsAudited

LEMMA AuditForgets ==
  ASSUME page'.at \notin {"applying", "results"}, attempted' = {}
  PROVE  AuditInv'
BY DEF AuditInv, AttemptsAudited

LEMMA AuditInvariant == TypeOK /\ ThreadInv /\ AuditInv /\ [Next]_vars => AuditInv'
<1> SUFFICES ASSUME TypeOK, ThreadInv, AuditInv, [Next]_vars PROVE AuditInv'
  OBVIOUS
<1>1. CASE Select \/ Review \/ Back
  <2>1. page.at \notin {"applying", "results"} /\ page'.at \in {"edit", "review"} /\ UNCHANGED history
    BY <1>1, ReviewAt, ShowEditAt DEF Select, Review, Back
  <2> QED BY <2>1, AuditForgets DEF AuditInv, history
<1>2. CASE NewUpdate \/ Killed
  <2>1. page'.at = "select" /\ Forget
    BY <1>2 DEF NewUpdate, Killed, NoPage
  <2> QED BY <2>1, AuditForgets DEF Forget
<1>3. CASE Apply \/ Retry
  <2>1. PICK slicers \in SUBSET Slicer : Submit(slicers)
    BY <1>3 DEF Apply, Retry, Retryable, TypeOK, Page
  <2>2. attempted \subseteq audit
    BY <1>3 DEF Apply, Retry, AuditInv, AttemptsAudited
  <2>3. CASE page'.at = "edit" /\ Forget
    BY <2>3, AuditForgets DEF Forget
  <2>4. CASE page'.at = "applying" /\ UNCHANGED <<audit, history>>
    BY <2>2, <2>4 DEF AuditInv, AttemptsAudited, history
  <2> QED BY <2>1, <2>3, <2>4, SubmitCases
<1>4. CASE Finish
  <2>1. /\ page.at = "applying" /\ page'.at = "results" /\ UNCHANGED history
        /\ audit' = audit \cup Recorded(thread)
    BY <1>4 DEF Finish, TypeOK, Page
  <2>2. attempted \ audit \subseteq Recorded(thread)
    BY <2>1 DEF AuditInv, Recorded
  <2> QED BY <2>1, <2>2 DEF AuditInv, AttemptsAudited, history
<1>5. CASE UNCHANGED <<page, thread, audit, attempted>>
  BY <1>5 DEF AuditInv, AttemptsAudited
<1>6. ASSUME NEW s \in Slicer, NotReached(s) \/ ReadAgain(s) PROVE AuditInv'
  <2>1. /\ thread[s].at = "wait" /\ UNCHANGED <<page, audit, attempted>>
        /\ \A t \in Slicer \ {s} : thread'[t] = thread[t]
    BY <1>6 DEF NotReached, ReadAgain, history, TypeOK
  <2>2. page.at = "applying" /\ attempted \subseteq Slicer
    BY <2>1 DEF ThreadInv, ThreadOK, TypeOK
  <2> QED BY <2>1, <2>2 DEF AuditInv, AttemptsAudited
<1>7. ASSUME NEW s \in Slicer, Patch(s) \/ PatchRefused(s) \/ PatchTimedOut(s) PROVE AuditInv'
  <2>1. PICK outcome \in {"updated", "failed"} : Sent(s, outcome)
    BY <1>7 DEF Patch, PatchRefused, PatchTimedOut
  <2>2. thread[s].at = "patch" /\ UNCHANGED <<page, audit>>
    BY <1>7 DEF Patch, PatchRefused, PatchTimedOut
  <2>3. page.at = "applying" /\ s \in page.slicers /\ attempted \subseteq Slicer
    BY <2>2 DEF ThreadInv, ThreadOK, TypeOK
  <2>4. /\ thread'[s].at = outcome /\ attempted' = attempted \cup {s}
        /\ \A t \in Slicer \ {s} : thread'[t] = thread[t]
    BY <2>1 DEF Sent, NoThread, TypeOK
  <2> QED BY <2>2, <2>3, <2>4 DEF AuditInv, AttemptsAudited
<1> QED BY <1>1, <1>2, <1>3, <1>4, <1>5, <1>6, <1>7
        DEF Next, EditedElsewhere, StartedOrStopped, LateApplied, history, vars

\* When an apply or a retry answers, every slicer the request has sent a PATCH to, in
\* whichever try, is in the audit log, for any slicers, tries and losses.
THEOREM AttemptsAlwaysAudited == Spec => []AttemptsAudited
<1>1. Init => AuditInv
  BY DEF Init, AuditInv, AttemptsAudited, NoPage
<1>2. AuditInv => AttemptsAudited
  BY DEF AuditInv
<1> QED BY <1>1, <1>2, AuditInvariant, ThreadsAlways, PTL DEF Spec

-----------------------------------------------------------------------------
(* What a retry finds.                                                     *)

\* Only a batch has several slicers, so a retry of some of them edits as the apply did.
SizeOK == page.batch \/ ~(Cardinality(page.slicers) > 1)

LEMMA ShowEditKeeps ==
  ASSUME NEW request, ShowEdit(request)
  PROVE  page'.slicers = request.slicers /\ page'.batch = request.batch
BY DEF ShowEdit, EditPage, NoPage

LEMMA SizeInvariant == TypeOK /\ SizeOK /\ [Next]_vars => SizeOK'
<1> SUFFICES ASSUME TypeOK, SizeOK, [Next]_vars PROVE SizeOK'
  OBVIOUS
<1>1. CASE page' = NoPage
  BY <1>1, FS_EmptySet DEF SizeOK, NoPage
<1>2. CASE Select
  <2>1. PICK slicers \in (SUBSET Slicer) \ {{}} :
          ShowEdit([NoPage EXCEPT !.slicers = slicers, !.batch = Cardinality(slicers) > 1])
    BY <1>2 DEF Select
  <2> DEFINE batch == Cardinality(slicers) > 1
             request == [NoPage EXCEPT !.slicers = slicers, !.batch = batch]
  <2>2. request.slicers = slicers /\ request.batch = batch
    BY DEF NoPage
  <2>3. ShowEdit(request)
    BY <2>1
  <2> HIDE DEF request
  <2>4. page'.slicers = slicers /\ page'.batch = batch
    BY <2>2, <2>3, ShowEditKeeps
  <2> QED BY <2>4 DEF SizeOK
<1>3. CASE Review
  <2>1. PICK text \in Conf, overrides \in Conf, ver \in Version \cup {NoVersion} :
          LET request == Filled(text, overrides, ver)
          IN  \E checked, planned \in Readings(page.slicers) :
                ShowEdit(request) \/ page' = ReviewPage(request, planned)
    BY <1>3 DEF Review
  <2> DEFINE request == Filled(text, overrides, ver)
  <2>2. request.slicers = page.slicers /\ request.batch = page.batch /\ request \in Page
    BY DEF Filled, TypeOK, Page
  <2> HIDE DEF request
  <2>3. \A planned : /\ ReviewPage(request, planned).slicers = page.slicers
                     /\ ReviewPage(request, planned).batch = page.batch
    BY <2>2 DEF ReviewPage, Page
  <2> QED BY <2>1, <2>2, <2>3, ShowEditKeeps DEF SizeOK, request
<1>4. CASE Back
  BY <1>4, ShowEditKeeps DEF Back, SizeOK
<1>5. CASE Apply \/ Retry
  <2>1. PICK slicers \in SUBSET Slicer : Submit(slicers)
    BY <1>5 DEF Apply, Retry, Retryable, TypeOK, Page
  <2> DEFINE request == [page EXCEPT !.slicers = slicers, !.batch = @ \/ Cardinality(slicers) > 1]
  <2>2. ShowEdit(request) \/ (page'.slicers = slicers /\ page'.batch = (page.batch \/ Cardinality(slicers) > 1))
    <3>1. ShowEdit(request) \/ page' = [request EXCEPT !.at = "applying", !.tries = @ + 1,
                                          !.differed = Differing(Confs(slicers))]
      BY <2>1 DEF Submit
    <3>2. request.slicers = slicers /\ request.batch = (page.batch \/ Cardinality(slicers) > 1)
          /\ DOMAIN request = DOMAIN NoPage
      BY DEF TypeOK, Page, NoPage
    <3> HIDE DEF request
    <3> QED BY <3>1, <3>2 DEF NoPage
  <2>3. request.slicers = slicers /\ request.batch = (page.batch \/ Cardinality(slicers) > 1)
    BY DEF TypeOK, Page
  <2> HIDE DEF request
  <2> QED BY <2>2, <2>3, ShowEditKeeps DEF SizeOK
<1>6. CASE Finish
  <2>1. page'.slicers = page.slicers /\ page'.batch = page.batch
    BY <1>6 DEF Finish, TypeOK, Page
  <2> QED BY <2>1 DEF SizeOK
<1>7. CASE UNCHANGED page
  BY <1>7 DEF SizeOK
<1> QED BY <1>1, <1>2, <1>3, <1>4, <1>5, <1>6, <1>7
        DEF Next, NewUpdate, Killed, EditedElsewhere, StartedOrStopped, LateApplied, NotReached,
            ReadAgain, Patch, PatchRefused, PatchTimedOut, vars

\* Fields that a PATCH of the page's request has: what is wanted once it is there.
OfRequest(fields) ==
    /\ \A c \in fields.conf : Wanted(page, c) = c
    /\ fields.version \in {NoVersion, page.version}

\* Of a slicer that has the request applied nothing more is wanted; late PATCHes of
\* this request and those about to be sent have its fields, and no thread that is
\* about to send read such a slicer.
RetryInv ==
    /\ page.at \notin {"applying", "results"} => ours = {} /\ has = {}
    /\ \A s \in has : PlanFor(page, s) = NoField
    /\ \A s \in ours : OfRequest(late[s])
    /\ \A s \in Slicer : thread[s].at = "patch" => ~thread[s].had /\ OfRequest(thread[s].fields)

LEMMA RetryInvForgets ==
  ASSUME ThreadInv', page'.at \notin {"applying", "results"}, ours' = {}, has' = {}
  PROVE  RetryInv'
BY DEF RetryInv, ThreadInv, ThreadOK

\* What an apply wants of a slicer is what the review and earlier tries wanted.
LEMMA SubmitWants ==
  ASSUME TypeOK, SizeOK,
         NEW slicers \in SUBSET page.slicers, Submit(slicers), page'.at = "applying"
  PROVE  \A c, v : /\ Wanted(page', c) = Wanted(page, c) /\ Plan(page', c, v) = Plan(page, c, v)
                   /\ page'.version = page.version
<1>1. slicers \in SUBSET Slicer /\ IsFiniteSet(page.slicers) /\ IsFiniteSet(slicers)
  BY FS_Subset, UpdatesAssumption DEF TypeOK, Page
<1>2. Cardinality(slicers) =< Cardinality(page.slicers)
  BY <1>1, FS_Subset
<1>3. Cardinality(slicers) \in Nat /\ Cardinality(page.slicers) \in Nat
  BY <1>1, FS_CardinalityType
<1>4. Cardinality(slicers) > 1 => page.batch
  BY <1>2, <1>3 DEF SizeOK
<1>5. /\ page'.batch = (page.batch \/ Cardinality(slicers) > 1)
      /\ page'.base = page.base /\ page'.text = page.text /\ page'.overrides = page.overrides
      /\ page'.version = page.version
  BY <1>1, SubmitCases
<1>6. page'.batch = page.batch
  BY <1>4, <1>5 DEF TypeOK, Page
<1>7. \A c : Wanted(page', c) = Wanted(page, c)
  BY <1>5, <1>6 DEF Wanted
<1>8. Touched(page') = Touched(page)
  BY <1>5 DEF Touched
<1> QED BY <1>5, <1>7, <1>8 DEF Plan

LEMMA PlanOfRequest ==
  ASSUME TypeOK, NEW s \in Slicer
  PROVE  /\ OfRequest(PlanFor(page, s))
         /\ PlanFor(page, s).conf = {} \/ \E c \in Conf : PlanFor(page, s).conf = {c}
<1> DEFINE wanted == Wanted(page, conf[s])
<1>1. wanted \in Conf /\ Wanted(page, wanted) = wanted
  BY WantedConf, AppliedTwice DEF TypeOK
<1> HIDE DEF wanted
<1>2. PlanFor(page, s) = [conf |-> IF Touched(page) # {} /\ wanted # conf[s] THEN {wanted} ELSE {},
                          version |-> IF page.version = version[s] THEN NoVersion ELSE page.version]
  BY DEF PlanFor, Plan, wanted
<1> QED BY <1>1, <1>2 DEF OfRequest

\* A PATCH of the request leaves nothing of what it sends to be wanted again.
LEMMA PatchOfRequest ==
  ASSUME TypeOK, NEW s \in Slicer, NEW fields \in Fields, OfRequest(fields),
         PatchApplied(s, fields), HasWith(s, fields), UNCHANGED page
  PROVE  /\ s \in has' => PlanFor(page, s)' = NoField
         /\ has' \ {s} = has \ {s}
<1>1. /\ conf'[s] = IF fields.conf = {} THEN conf[s] ELSE CHOOSE c \in fields.conf : TRUE
      /\ version'[s] = IF fields.version = NoVersion THEN version[s] ELSE fields.version
  BY DEF PatchApplied, TypeOK
<1> DEFINE Left(c) == IF Touched(page) # {} /\ Wanted(page, c) # c THEN {Wanted(page, c)} ELSE {}
           LeftVersion(v) == IF page.version = v THEN NoVersion ELSE page.version
<1>2. /\ PlanFor(page, s) = [conf |-> Left(conf[s]), version |-> LeftVersion(version[s])]
      /\ PlanFor(page, s)' = [conf |-> Left(conf'[s]), version |-> LeftVersion(version'[s])]
  BY DEF PlanFor, Plan
<1>3. s \in has' => /\ fields.conf = {} => Left(conf[s]) = {}
                    /\ fields.version = NoVersion => LeftVersion(version[s]) = NoVersion
  BY <1>2 DEF HasWith
<1>4. s \in has' => Left(conf'[s]) = {}
  <2>1. CASE fields.conf = {}
    BY <1>1, <1>3, <2>1
  <2>2. CASE fields.conf # {}
    <3>1. Wanted(page, conf'[s]) = conf'[s]
      BY <1>1, <2>2 DEF OfRequest
    <3> QED BY <3>1
  <2> QED BY <2>1, <2>2
<1>5. s \in has' => LeftVersion(version'[s]) = NoVersion
  BY <1>1, <1>3 DEF OfRequest
<1>6. has' \ {s} = has \ {s}
  BY DEF HasWith
<1> HIDE DEF Left, LeftVersion
<1> QED BY <1>2, <1>4, <1>5, <1>6 DEF NoField

LEMMA RetryInvariant ==
  TypeOK /\ ThreadInv /\ ThreadInv' /\ SizeOK /\ RetryInv /\ [Next]_vars => RetryInv'
<1> SUFFICES ASSUME TypeOK, ThreadInv, ThreadInv', SizeOK, RetryInv, [Next]_vars PROVE RetryInv'
  OBVIOUS
<1>1. CASE Select \/ Review \/ Back
  <2>1. page.at \notin {"applying", "results"} /\ page'.at \in {"edit", "review"} /\ UNCHANGED history
    BY <1>1, ReviewAt, ShowEditAt DEF Select, Review, Back
  <2> QED BY <2>1, RetryInvForgets DEF RetryInv, history
<1>2. CASE NewUpdate \/ Killed
  <2>1. page'.at = "select" /\ Forget
    BY <1>2 DEF NewUpdate, Killed, NoPage
  <2> QED BY <2>1, RetryInvForgets DEF Forget
<1>3. CASE Apply \/ Retry
  <2>1. PICK slicers \in SUBSET page.slicers : Submit(slicers)
    BY <1>3 DEF Apply, Retry, Retryable, ThreadInv, ThreadOK
  <2>2. slicers \in SUBSET Slicer
    BY DEF TypeOK, Page
  <2>3. CASE page'.at = "edit" /\ Forget
    BY <2>3, RetryInvForgets DEF Forget
  <2>4. CASE /\ page'.at = "applying"
             /\ thread' = [s \in Slicer |->
                  IF s \in slicers THEN [NoThread EXCEPT !.at = "wait"] ELSE NoThread]
             /\ UNCHANGED <<audit, history>>
    <3>1. \A s \in Slicer : thread'[s].at # "patch"
      BY <2>4 DEF NoThread
    <3>2. UNCHANGED <<conf, version, late, ours, has>>
      BY <2>1, <2>4 DEF Submit, uplynk, history
    <3>3. \A c, v : /\ Wanted(page', c) = Wanted(page, c) /\ Plan(page', c, v) = Plan(page, c, v)
                    /\ page'.version = page.version
      BY <2>1, <2>4, SubmitWants
    <3> QED BY <2>4, <3>1, <3>2, <3>3 DEF RetryInv, OfRequest, PlanFor
  <2> QED BY <2>1, <2>2, <2>3, <2>4, SubmitCases
<1>4. CASE Finish
  <2>1. page' = [page EXCEPT !.at = "results"] /\ UNCHANGED <<conf, version, late, ours, has, thread>>
    BY <1>4 DEF Finish, uplynk, history
  <2>2. /\ page'.at = "results" /\ page'.batch = page.batch /\ page'.base = page.base
        /\ page'.text = page.text /\ page'.overrides = page.overrides /\ page'.version = page.version
    BY <2>1 DEF TypeOK, Page
  <2>3. \A c : Wanted(page', c) = Wanted(page, c)
    BY <2>2 DEF Wanted
  <2>4. Touched(page') = Touched(page)
    BY <2>2 DEF Touched
  <2>5. \A c, v : Plan(page', c, v) = Plan(page, c, v)
    BY <2>2, <2>3, <2>4 DEF Plan
  <2> QED BY <2>1, <2>2, <2>3, <2>5 DEF RetryInv, OfRequest, PlanFor
<1>5. ASSUME NEW s \in Slicer, EditedElsewhere(s) PROVE RetryInv'
  <2>1. \A t \in Slicer \ {s} : conf'[t] = conf[t] /\ version'[t] = version[t]
    BY <1>5 DEF EditedElsewhere, TypeOK
  <2>2. has' = has \ {s} /\ UNCHANGED <<late, ours, page, thread>>
    BY <1>5 DEF EditedElsewhere
  <2> QED BY <2>1, <2>2 DEF RetryInv, OfRequest, PlanFor, TypeOK
<1>6. ASSUME NEW s \in Slicer, StartedOrStopped(s) PROVE RetryInv'
  BY <1>6 DEF StartedOrStopped, RetryInv, OfRequest, PlanFor, history
<1>7. ASSUME NEW s \in Slicer, LateApplied(s) PROVE RetryInv'
  <2>1. \A t \in Slicer \ {s} : conf'[t] = conf[t] /\ version'[t] = version[t] /\ late'[t] = late[t]
    BY <1>7 DEF LateApplied, PatchApplied, TypeOK
  <2>2. ours' = ours \ {s} /\ UNCHANGED <<page, thread>>
    BY <1>7 DEF LateApplied
  <2>3. CASE s \in ours
    <3>1. page.at \in {"applying", "results"} /\ OfRequest(late[s])
      BY <2>3 DEF RetryInv, TypeOK, Page
    <3>2. /\ s \in has' => PlanFor(page, s)' = NoField
          /\ has' \ {s} = has \ {s}
      BY <1>7, <2>2, <2>3, <3>1, PatchOfRequest DEF LateApplied, TypeOK
    <3> QED BY <2>1, <2>2, <3>1, <3>2 DEF RetryInv, OfRequest, PlanFor, TypeOK
  <2>4. CASE s \notin ours
    <3>1. has' = has \ {s}
      BY <1>7, <2>4 DEF LateApplied
    <3> QED BY <2>1, <2>2, <3>1 DEF RetryInv, OfRequest, PlanFor, TypeOK
  <2> QED BY <2>3, <2>4
<1>8. ASSUME NEW s \in Slicer, NotReached(s) PROVE RetryInv'
  <2>1. thread' = [thread EXCEPT ![s] = [thread[s] EXCEPT !.at = "not_sent"]]
        /\ UNCHANGED <<page, conf, version, late, ours, has>>
    BY <1>8 DEF NotReached, uplynk, history
  <2>2. thread'[s].at = "not_sent" /\ \A t \in Slicer \ {s} : thread'[t] = thread[t]
    BY <2>1 DEF TypeOK, Thread
  <2> QED BY <2>1, <2>2 DEF RetryInv, OfRequest, PlanFor
<1>9. ASSUME NEW s \in Slicer, ReadAgain(s) PROVE RetryInv'
  <2> DEFINE fields == PlanFor(page, s)
             decided == Decided(s, fields, page.confirmed)
             x == IF decided = "patch"
                  THEN [at |-> decided, fields |-> fields, seen |-> conf[s], had |-> s \in has]
                  ELSE [NoThread EXCEPT !.at = decided]
  <2>1. thread' = [thread EXCEPT ![s] = x] /\ UNCHANGED <<page, conf, version, late, ours, has>>
    BY <1>9 DEF ReadAgain, uplynk, history
  <2>2. thread'[s] = x /\ \A t \in Slicer \ {s} : thread'[t] = thread[t]
    BY <2>1 DEF TypeOK
  <2>3. decided = "patch" => fields # NoField
    BY DEF Decided
  <2>4. fields # NoField => s \notin has
    BY DEF RetryInv
  <2>5. OfRequest(fields)
    BY PlanOfRequest
  <2> HIDE DEF fields, decided
  <2>6. thread'[s].at = "patch" => ~thread'[s].had /\ thread'[s].fields = fields
    <3>1. CASE decided = "patch"
      <4>1. (s \in has) = FALSE
        BY <2>3, <2>4, <3>1
      <4>2. thread'[s] = [at |-> decided, fields |-> fields, seen |-> conf[s], had |-> FALSE]
        BY <2>2, <3>1, <4>1
      <4> QED BY <4>2
    <3>2. CASE decided # "patch"
      BY <2>2, <3>2 DEF NoThread
    <3> QED BY <3>1, <3>2
  <2> QED BY <2>1, <2>2, <2>5, <2>6 DEF RetryInv, OfRequest, PlanFor
<1>10. ASSUME NEW s \in Slicer, Patch(s) \/ PatchRefused(s) \/ PatchTimedOut(s) PROVE RetryInv'
  <2>1. /\ thread[s].at = "patch" /\ UNCHANGED page
        /\ \E outcome \in {"updated", "failed"} : Sent(s, outcome)
    BY <1>10 DEF Patch, PatchRefused, PatchTimedOut
  <2>2. thread'[s].at # "patch" /\ \A t \in Slicer \ {s} : thread'[t] = thread[t]
    BY <2>1 DEF Sent, TypeOK, NoThread
  <2>3. page.at = "applying"
    BY <2>1 DEF ThreadInv, ThreadOK
  <2>4. thread[s].fields \in Fields /\ OfRequest(thread[s].fields)
    BY <2>1 DEF RetryInv, TypeOK, Thread
  <2>5. CASE Patch(s)
    <3>1. /\ \A t \in Slicer \ {s} : conf'[t] = conf[t] /\ version'[t] = version[t]
          /\ UNCHANGED <<late, ours>>
      BY <2>5 DEF Patch, PatchApplied, TypeOK
    <3>2. /\ s \in has' => PlanFor(page, s)' = NoField
          /\ has' \ {s} = has \ {s}
      BY <2>1, <2>4, <2>5, PatchOfRequest DEF Patch
    <3> QED BY <2>1, <2>2, <2>3, <3>1, <3>2 DEF RetryInv, OfRequest, PlanFor, TypeOK
  <2>6. CASE PatchRefused(s)
    <3>1. UNCHANGED <<conf, version, late, ours, has>>
      BY <2>6 DEF PatchRefused, uplynk, history
    <3> QED BY <2>1, <2>2, <2>3, <3>1 DEF RetryInv, OfRequest, PlanFor
  <2>7. CASE PatchTimedOut(s)
    <3>1. /\ late'[s] = thread[s].fields /\ \A t \in Slicer \ {s} : late'[t] = late[t]
          /\ ours' = ours \cup {s} /\ UNCHANGED <<conf, version, has>>
      BY <2>7 DEF PatchTimedOut, TypeOK
    <3> QED BY <2>1, <2>2, <2>3, <2>4, <3>1 DEF RetryInv, OfRequest, PlanFor, TypeOK
  <2> QED BY <1>10, <2>5, <2>6, <2>7
<1>11. CASE UNCHANGED vars
  BY <1>11 DEF vars, uplynk, history, RetryInv, OfRequest, PlanFor
<1> QED BY <1>1, <1>2, <1>3, <1>4, <1>5, <1>6, <1>7, <1>8, <1>9, <1>10, <1>11 DEF Next

\* An apply or retry sends nothing to a slicer that has the request
\* applied and was not changed since, whether or not its answer came and however
\* late it was applied.
THEOREM RetriesSendNothing == Spec => RetrySendsNothing
<1>1. Init => SizeOK /\ RetryInv
  BY FS_EmptySet DEF Init, SizeOK, RetryInv, NoPage, NoThread
<1>2. TypeOK /\ ThreadInv /\ RetryInv /\ [Next]_vars =>
        [\A s \in Slicer : Sends(s) => ~thread[s].had]_vars
  BY DEF RetryInv, Sends
<1> QED BY <1>1, <1>2, SizeInvariant, RetryInvariant, ThreadsAlways, PTL DEF Spec, RetrySendsNothing

=============================================================================
