SPECIFICATION Spec
CONSTANTS
  t1 = t1
  t2 = t2
  none = none
  c1 = c1
  c2 = c2
  b1 = b1
  b2 = b2
  s1 = s1
  s2 = s2
  Tables = {t1, t2}
  None = none
  Checks = {c1, c2}
  Bookings = {b1, b2}
  Windows <- TheWindows
  Openings <- TheOpenings
  Ops = {"seat", "free", "leave", "ask", "retract", "order", "pay", "move", "sweep", "rebook"}
  Slots = {s1, s2}
  MaxRequests = 4
  MaxTime = 1
  MaxDeaths = 1
  MaxHours = 0
  Lead = 0
  Grace = 0
SYMMETRY RowSymmetry
INVARIANTS OneParty NoDoubleBooking BillKeepsTable
CHECK_DEADLOCK FALSE
