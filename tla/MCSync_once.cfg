\* Answers are lost or late, but one request is served at a time and none dies.
SPECIFICATION FairSpec
CONSTANTS
  Rows = {"table"}
  Entity <- MCEntity
  Seeded = {"table"}
  Vals = {1}
  Kinds = {"bump"}
  ReplayFaults = {TRUE, FALSE}
  BATCH = 2
  MAX_ROUNDS = 2
  Slots = {1}
  MaxWrites <- TwoEach
  MaxInFlight = 1
  MaxFaults <- TimeoutsOnly
PROPERTIES ExactlyOnceInOrder EverythingTaken
