\* Two isolates, two screens, two polls; each kind of load by itself.
SPECIFICATION FairSpec
CONSTANTS
  MaxIsolates = 2
  Budget = 10
  FLUSH_DELTA_ROWS = 5
  RowCounts = {4, 5}
  Loads <- MCLoads
  Roles = {"chef", "cashier"}
  Pollers = {1, 2}
  MAX_ENTRIES = 2
  Orders = {"o1", "o2"}
  Screens = {1, 2}
  MaxTicks = 2
  FirstBoards <- MCBoards
CHECK_DEADLOCK FALSE
INVARIANTS TodayIsNotOverstated ReadsFollowWrites 
PROPERTY BoardFollows
