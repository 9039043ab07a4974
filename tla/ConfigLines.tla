---------------------------- MODULE ConfigLines ----------------------------
(***************************************************************************)
(* What a Slicer Updates request does to one slicer's configuration text   *)
(* (app/uplynk/slicer_config.py), with the text as what Uplynk reads in    *)
(* it: the value of each setting, or none.  LineEdits has the same         *)
(* functions on lines, with order, blank lines and repeated keys.          *)
(***************************************************************************)
EXTENDS FiniteSets

CONSTANTS Key, Value

Absent == "absent"

Conf == [Key -> Value \cup {Absent}]

Blank == [k \in Key |-> Absent]

Values(confs, k) == {c[k] : c \in confs} \ {Absent}

\* Settings whose values differ between the slicers that have them: locked.
Differing(confs) == {k \in Key : \E v, w \in Values(confs, k) : v # w}

\* Mutant: the part before the colon is taken for the value.
SharedKeys(confs) ==
    [k \in Key |-> IF Values(confs, k) = {} \/ k \in Differing(confs) THEN Absent ELSE k]

\* What a batch's box shows: the settings with one value, also those only some
\* of the slicers have.
Shared(confs) ==
    [k \in Key |-> IF Values(confs, k) = {} \/ k \in Differing(confs) THEN Absent
                   ELSE CHOOSE v \in Values(confs, k) : TRUE]

AddedKeys(before, after) == {k \in Key : before[k] = Absent /\ after[k] # Absent}

ChangedKeys(before, after) == {k \in Key : after[k] # Absent /\ after[k] # before[k]}

RemovedKeys(before, after) == {k \in Key : before[k] # Absent /\ after[k] = Absent}

\* Mutant: the box's text is sent as it is, as before 1.21.3.
ApplyLineEditsReplacing(current, before, after) == after

\* Only the lines changed, added or removed between before and after: a changed
\* line where the slicer has that key, a new line everywhere.
ApplyLineEdits(current, before, after) ==
    [k \in Key |->
       IF k \in RemovedKeys(before, after) THEN Absent
       ELSE IF /\ k \in ChangedKeys(before, after)
               /\ current[k] # Absent \/ k \in AddedKeys(before, after)
            THEN after[k]
            ELSE current[k]]

\* An override sets one value, only where the slicer has the setting.
ApplyOverrides(current, overrides) ==
    [k \in Key |-> IF current[k] # Absent /\ overrides[k] # Absent THEN overrides[k]
                   ELSE current[k]]
=============================================================================
