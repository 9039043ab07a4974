SPECIFICATION Spec
CONSTANTS
  n1 = n1
  n2 = n2
  boot = boot
  p1 = p1
  w1 = w1
  w2 = w2
  Name = {n1, n2}
  Person = {boot, p1}
  Boot = boot
  MaxId = 2
  MaxAccount = 1
  MaxRows = 1
  Worker = {w1}
  Kind = {"new_account", "edit_account", "delete_account", "pause", "resume", "sync", "new_slicer", "edit_slicer", "delete_slicer", "new_user", "edit_user", "delete_user", "assign", "star", "control"}
INVARIANTS TypeOK References AdminLeft HandAddedKept
PROPERTIES PausedKept SyncedAsListed
SYMMETRY Symmetry
