SPECIFICATION FairSpec
CONSTANTS
  n1 = n1
  n2 = n2
  boot = boot
  p1 = p1
  w1 = w1
  w2 = w2
  Name = {n1}
  Person = {boot, p1}
  Boot = boot
  MaxId = 2
  MaxAccount = 1
  MaxRows = 0
  Worker = {w1, w2}
  Kind = {"new_account", "delete_account", "pause", "resume", "sync", "new_user", "edit_user", "delete_user"}
CHECK_DEADLOCK FALSE
PROPERTIES LastAdminRaced PauseSettles
