SPECIFICATION Spec
CONSTANTS
  milk = milk
  cup = cup
  Items = {milk, cup}
  Opening <- TheOpening
  OpeningLots <- TheLots
  Perishable = {milk}
  Orders = {1}
  Recipe <- TheRecipe
  Quantities = {2}
  Expiries = {1}
  Sheets <- TheSheets
  Ops = {"consume", "void", "adjust", "count", "waste", "purchase", "unbuy"}
  s1 = s1
  s2 = s2
  Slots = {s1, s2}
  MaxRequests = 3
  MaxFaults = 1
SYMMETRY SlotSymmetry
INVARIANTS StockIsLedger BatchesAddUp ConsumedOnce VoidedIsGivenBack
CHECK_DEADLOCK FALSE
