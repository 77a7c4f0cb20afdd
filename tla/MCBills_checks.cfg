\* Every operation, two requests at once, one failure.
SPECIFICATION BillsSpec
CONSTANTS
  Ids = {1, 2, 3, 4, 5, 6, 7}
  Standing <- TheStanding
  Extra <- TheExtra
  Tickets = {3}
  Prices = {2}
  Extras = {1}
  Seats = 2
  Ops = {"create", "append", "split", "merge", "move", "void", "pay"}
  s1 = s1
  s2 = s2
  Slots = {s1, s2}
  MaxRequests = 3
  MaxFaults = 1
SYMMETRY SlotSymmetry
CHECK_DEADLOCK FALSE
INVARIANTS BillIsItsLines SplitCoversBill FoodIsBilled
