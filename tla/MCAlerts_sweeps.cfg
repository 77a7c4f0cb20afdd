\* Two sweeps or requests at once, on one thing of any kind.
SPECIFICATION FairAlerts
CONSTANTS
  x = x
  Things = {x}
  RowsOf <- MCRows
  FirstRows <- MCFirst
  Th <- MCTh
  People <- MCPeople
  Lanes = {1, 2}
  Cron = 1
  MaxChanges = 2
  MaxRequests = 1
  MaxCuts = 1
CHECK_DEADLOCK FALSE
INVARIANT OneRowPerBreach
PROPERTIES ResolvedWhenCleared AlertsFollow
