\* Every kind of owner and statement, requests one at a time; a restore, or other faults.
SPECIFICATION SpecR
CONSTANTS
  Rows = {"table", "payment"}
  Entity <- MCEntity
  Seeded = {"table"}
  Vals = {1}
  Kinds = {"insert", "set", "claim", "delete"}
  ReplayFaults = {FALSE}
  BATCH = 2
  MAX_ROUNDS = 2
  Slots = {1}
  MaxWrites <- BoxFirst
  MaxInFlight = 0
  MaxFaults <- Deaths
  MaxRestores = 1
INVARIANTS NoSilentDivergence
