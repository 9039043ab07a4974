SPECIFICATION Spec
CONSTANTS
  MaxItems = 5
  Threads = 2
  NetworkBudget = 6
  FetchTimeout = 3
  PatchTimeout = 4
  SyncTimeout = 8
  Limit = 15
CHECK_DEADLOCK FALSE
INVARIANTS TypeOK PassBounded OutOfTimeLast OnePassAnswered
