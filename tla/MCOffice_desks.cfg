\* One desk at a time, two requests at once.
SPECIFICATION Spec
CONSTANTS
  s1 = s1
  s2 = s2
  Slots = {s1, s2}
  Desks = {"clock", "pay", "zones", "recipes", "menu"}
  MaxRequests <- MCRequests
  MaxChanges <- MCChanges
  MaxFaults = 1
  Day = 2
  Staff = {"waiter", "boss"}
  Managers = {"boss"}
  Base = 12000
  Checks = {"c"}
  Rates <- MCRates
  FirstRates <- MCFirst
  DefaultRates <- MCUnread
  FirstEntries <- MCEntries
  FirstClaims <- MCClaims
  Leaves <- MCLeaves
  MaxTime = 2
  Names = {"Patio", "Bar", "bar", "Roof"}
  Key <- MCKey
  Defaults <- MCDefaults
  MaxSections = 2
  FirstPlaces <- MCPlaces
  Dishes = {"latte"}
  Variants = {"", "small", "large"}
  Boms = {"single", "double"}
  FirstRecipes <- MCRecipes
  Categories <- MCCategories
  DishNames = {"tea", "cake"}
  FirstMenus <- MCMenus
SYMMETRY SlotSymmetry
CHECK_DEADLOCK FALSE
INVARIANTS NothingTwice PayrollStands ZonesAsEdited SoldAsWritten MirrorFollows IdsKept
PROPERTY NobodyLeavesOwing
