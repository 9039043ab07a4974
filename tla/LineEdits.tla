----------------------------- MODULE LineEdits -----------------------------
(***************************************************************************)
(* The functions of app/uplynk/slicer_config.py that Slicer Updates edits  *)
(* configurations with, on text: a sequence of lines, in order, with blank *)
(* lines between them and keys that may be repeated.  Each function is     *)
(* compared with what ConfigLines says it does to the settings the text    *)
(* stands for, and with what it must leave as it is.                       *)
(*                                                                         *)
(* One behavior is one batch: the box that the selected slicers'           *)
(* configurations give, the admin's edit of it, and the text that a slicer *)
(* (one of them as it has become since, or any other) is sent.  Two lines  *)
(* are the same text when they have the same key and value: spacing is     *)
(* left out.                                                               *)
(***************************************************************************)
EXTENDS Naturals, Sequences, FiniteSets

CONSTANTS Key, Value,
          MaxLines,             \* bound: lines of a text
          MaxSlicers            \* bound: slicers the box is made of

C == INSTANCE ConfigLines

Line == [key : Key, value : Value]

BlankLine == [key |-> "", value |-> ""]

Text == UNION {[1..n -> Line \cup {BlankLine}] : n \in 0..MaxLines}

ASSUME LinesAssumption ==
    C!Absent \notin Value /\ "" \notin Key /\ MaxLines \in Nat /\ MaxSlicers \in Nat

-----------------------------------------------------------------------------
(* Reading a text.                                                         *)

\* The n-th of some places.
Nth(places, n) == CHOOSE i \in places : Cardinality({j \in places : j =< i}) = n

\* The lines of a text at some places, in order.
At(text, places) == [n \in 1..Cardinality(places) |-> text[Nth(places, n)]]

\* The lines of a text that are among some lines, in order.
Among(text, lines) == At(text, {i \in DOMAIN text : text[i] \in lines})

\* Edge blank lines are removed; edge spacing and line endings are abstracted.
Normalize(text) ==
    LET solid == {i \in DOMAIN text : text[i] # BlankLine}
    IN  At(text, {i \in DOMAIN text : \E j, k \in solid : j =< i /\ i =< k})

Keys(text) == {text[i].key : i \in DOMAIN text} \ {BlankLine.key}

OfKey(k) == {line \in Line : line.key = k}

\* Where a key is repeated the last line counts (_lines_by_key, line_values).
LineOf(text, k) == LET own == Among(text, OfKey(k)) IN own[Len(own)]

\* The settings a text stands for.
Settings(text) == [k \in Key |-> IF k \in Keys(text) THEN LineOf(text, k).value ELSE C!Absent]

FirstOfKey(text, i) == \A j \in 1..(i - 1) : text[j].key # text[i].key

\* Mutant: a line that is already in the box is taken whatever its value.
ShareFirst(shown, line) ==
    IF line.key \in shown.differing THEN shown
    ELSE IF line.key \notin Keys(shown.lines) THEN [shown EXCEPT !.lines = Append(@, line)]
    ELSE shown

\* One line into the box: the first line of each key, until another value of it
\* is met, which locks the key.
Share(shown, line) ==
    IF line.key \in shown.differing THEN shown
    ELSE IF line.key \notin Keys(shown.lines) THEN [shown EXCEPT !.lines = Append(@, line)]
    ELSE IF LineOf(shown.lines, line.key).value = line.value THEN shown
    ELSE [lines |-> Among(shown.lines, Line \ OfKey(line.key)),
          differing |-> shown.differing \cup {line.key}]

-----------------------------------------------------------------------------
(* Editing a text.                                                         *)

ChangedKeys(before, after) ==
    {k \in Keys(after) : k \in Keys(before) => LineOf(before, k) # LineOf(after, k)}

\* Mutant: every key of the slicer is kept once.
KeptOnce(text, i, changed, removed) ==
    text[i].key \notin removed /\ (text[i] # BlankLine => FirstOfKey(text, i))

\* A slicer's own line stays, unless it is removed or repeats a changed key.
Kept(text, i, changed, removed) ==
    text[i].key \notin removed /\ (text[i].key \in changed => FirstOfKey(text, i))

\* The lines kept, a changed key's with its new line, and then the lines added,
\* in the box's order.
Edited(text, after, changed, removed, added) ==
    LET stay  == {i \in DOMAIN text : Kept(text, i, changed, removed)}
        new   == {i \in DOMAIN after : FirstOfKey(after, i) /\ after[i].key \in added}
        lines == At(text, stay) \o At(after, new)
    IN  Normalize([i \in DOMAIN lines |->
          IF lines[i].key \in changed THEN LineOf(after, lines[i].key) ELSE lines[i]])

\* Mutant: new lines are also added where the slicer has the key already.
ApplyLineEditsAppending(current, before, after) ==
    Edited(Normalize(current), after, ChangedKeys(before, after),
           Keys(before) \ Keys(after), Keys(after) \ Keys(before))

\* Mutant: changed lines are also added where the slicer has no such key.
ApplyLineEditsEverywhere(current, before, after) ==
    Edited(Normalize(current), after, ChangedKeys(before, after),
           Keys(before) \ Keys(after), ChangedKeys(before, after) \ Keys(current))

ApplyLineEdits(current, before, after) ==
    Edited(Normalize(current), after, ChangedKeys(before, after),
           Keys(before) \ Keys(after), Keys(after) \ (Keys(before) \cup Keys(current)))

\* Mutant: repeats of an overridden key keep their old values.
ApplyOverridesOnce(text, overrides) ==
    LET lines == Normalize(text)
    IN  [i \in DOMAIN lines |->
          IF lines[i] # BlankLine /\ overrides[lines[i].key] # C!Absent /\ FirstOfKey(lines, i)
          THEN [lines[i] EXCEPT !.value = overrides[lines[i].key]] ELSE lines[i]]

\* An overridden key's first line gets the value, and its repeats go.
ApplyOverrides(text, overrides) ==
    LET normal == Normalize(text)
        Set(line) == line # BlankLine /\ overrides[line.key] # C!Absent
        stay      == {i \in DOMAIN normal : Set(normal[i]) => FirstOfKey(normal, i)}
        lines     == At(normal, stay)
    IN  [i \in DOMAIN lines |->
          IF Set(lines[i]) THEN [lines[i] EXCEPT !.value = overrides[lines[i].key]]
          ELSE lines[i]]

\* What a slicer of a batch is sent (build_plan).
Wanted(current, before, after, overrides) ==
    ApplyOverrides(ApplyLineEdits(current, before, after), overrides)

-----------------------------------------------------------------------------
(* One batch.                                                              *)

VARIABLES step,         \* "read", "edit" or "planned"
          selected,     \* the texts of the slicers selected, as they were read
          slicer,       \* the one of them whose lines go into the box
          next,         \* the next line of its text
          box,          \* what the Edit page shows for them
          typed,        \* what the admin made of the box
          overrides,    \* values for locked settings
          current,      \* a slicer's text when the batch is planned
          wanted        \* what it is sent

vars == <<step, selected, slicer, next, box, typed, overrides, current, wanted>>

NoOverride == [k \in Key |-> C!Absent]

Init ==
    /\ step = "read"
    /\ selected \in UNION {[1..n -> Text] : n \in 0..MaxSlicers}
    /\ slicer = 1 /\ next = 1
    /\ box = [lines |-> <<>>, differing |-> {}]
    /\ typed = <<>> /\ overrides = NoOverride
    /\ current = <<>> /\ wanted = <<>>

\* The loops of shared_lines: one line of a text; a blank line is passed over.
ShareLine ==
    /\ step = "read" /\ slicer =< Len(selected)
    /\ LET text == selected[slicer]
       IN  /\ next =< Len(text)
           /\ box' = IF text[next] = BlankLine THEN box ELSE Share(box, text[next])
    /\ next' = next + 1
    /\ UNCHANGED <<step, selected, slicer, typed, overrides, current, wanted>>

\* The next slicer's text.
NextText ==
    /\ step = "read" /\ slicer =< Len(selected) /\ next > Len(selected[slicer])
    /\ slicer' = slicer + 1 /\ next' = 1
    /\ UNCHANGED <<step, selected, box, typed, overrides, current, wanted>>

BoxMade == step = "read" /\ slicer > Len(selected)

\* The texts the box was made of are let go: the slicers may change.
ShowBox ==
    /\ BoxMade
    /\ step' = "edit"
    /\ selected' = <<>> /\ slicer' = 0 /\ next' = 0
    /\ UNCHANGED <<box, typed, overrides, current, wanted>>

Plan ==
    /\ step = "edit"
    /\ step' = "planned"
    /\ typed' \in {text \in Text : Normalize(text) = text}
    /\ overrides' \in [Key -> Value \cup {C!Absent}]
    /\ \A k \in Key : overrides'[k] # C!Absent => k \in box.differing
    /\ current' \in Text
    /\ wanted' = Wanted(current', box.lines, typed', overrides')
    /\ UNCHANGED <<selected, slicer, next, box>>

Next == ShareLine \/ NextText \/ ShowBox \/ Plan

Spec == Init /\ [][Next]_vars

-----------------------------------------------------------------------------
(* Properties.                                                             *)

Planned == step = "planned"

Touched ==
    ChangedKeys(box.lines, typed) \cup (Keys(box.lines) \ Keys(typed))
      \cup {k \in Key : overrides[k] # C!Absent}

\* On what Uplynk reads in them, the line edits do to the settings what
\* ConfigLines says, whatever the order, blank lines and repeats of the texts.
SettingsAgree ==
    Planned => Settings(wanted) =
      C!ApplyOverrides(C!ApplyLineEdits(Settings(current), Settings(box.lines), Settings(typed)),
                       overrides)

\* Keys that one of the slicers repeats with two values.
Torn ==
    {k \in Key : \E text \in {selected[t] : t \in DOMAIN selected} :
       \E i, j \in DOMAIN text :
         text[i].key = k /\ text[j].key = k /\ text[i].value # text[j].value}

\* The box is what ConfigLines says it is for the settings of the slicers, in
\* whatever order their lines come, and a setting that one slicer repeats with two
\* values is locked too, although Uplynk reads one value in it.
BoxAgrees ==
    BoxMade =>
      LET confs == {Settings(selected[t]) : t \in DOMAIN selected}
      IN  /\ box.differing = C!Differing(confs) \cup Torn
          /\ Settings(box.lines) =
               [k \in Key |-> IF k \in Torn THEN C!Absent ELSE C!Shared(confs)[k]]

\* "A retry reads the current settings first, so nothing is sent if the update
\* already applied" (explain_no_response): build_plan finds what was sent to be
\* what the same request wants.
AppliedOnce ==
    Planned => Wanted(wanted, box.lines, typed, overrides) = Normalize(wanted)

\* Lines of settings the request does not touch keep their text, order and
\* repeats.
OthersInPlace ==
    Planned =>
      LET others == {line \in Line : line.key \notin Touched}
      IN  Among(wanted, others) = Among(current, others)

\* A setting the request sets is on one line ("a repeated key ends up once").
SetOnce ==
    Planned =>
      \A i, j \in DOMAIN wanted :
        wanted[i].key = wanted[j].key /\ wanted[i].key \in Touched => i = j
=============================================================================
