\* Every operation, two requests at once, each fault once.
SPECIFICATION Spec
CONSTANTS
  Orders = {1}
  Totals = {2}
  Amounts = {1, 2}
  Floats = {0}
  Ops = {"record", "verify", "reject", "refund", "void", "settle", "amend", "close", "paidin", "paidout"}
  Slots = {s1, s2}
  MaxRequests = 3
  MaxDrawers = 1
  MaxFaults <- EachOnce
CHECK_DEADLOCK FALSE
INVARIANTS TypeOK CashAccounted
SYMMETRY SlotSymmetry

