\* One owned row, two overlapping pushes, every fault once.
SPECIFICATION Spec
CONSTANTS
  Rows = {"table"}
  Entity <- MCEntity
  Seeded = {"table"}
  Vals = {1}
  Kinds = {"set"}
  ReplayFaults = {FALSE}
  BATCH = 2
  MAX_ROUNDS = 2
  Slots = {1, 2}
  MaxWrites <- BoxHeavy
  MaxInFlight = 0
  MaxFaults <- Outages
INVARIANTS TypeOK NothingLost PrunedWasTaken
