\* Every operation, two requests at once, one cut short.
SPECIFICATION Spec
CONSTANTS
  t = t
  d = d
  Orders = {t, d}
  LineUp <- TheLineUp
  Guest = {t}
  Delivery = {d}
  Stages <- TheStages
  Wanted = {"preparing", "ready", "served", "fulfilled"}
  Taps = {"preparing", "ready"}
  Moves = {"assigned", "delivered", "cancelled"}
  Ops = {"tap", "ticket", "accept", "round", "sweep", "void", "pay", "advance", "settle", "assign"}
  s1 = s1
  s2 = s2
  Slots = {s1, s2}
  MaxRequests = 2
  MaxFaults = 1
SYMMETRY SlotSymmetry
CHECK_DEADLOCK FALSE
INVARIANTS ReadyIsMade VoidedStaysGone ReadyIsAnnounced CancelledTogether

