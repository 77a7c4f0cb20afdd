\* Cashiers taking payments at once, and a void; one request is cut off, anywhere.
SPECIFICATION FairSpecC
CONSTANTS
  Orders = {1}
  Totals = {2}
  Amounts = {1, 2}
  Floats = {0}
  Ops = {"record", "void"}
  Slots = {1, 2, 3}
  MaxRequests = 3
  MaxDrawers = 1
  MaxFaults <- OneDeath
CHECK_DEADLOCK FALSE
INVARIANTS OneClaim NeverOverpaid PaidIsCovered
PROPERTIES ClaimReleased
