-------------------------------- MODULE Office --------------------------------
(***************************************************************************)
(* The back office's desks together: the clock's and the payroll's         *)
(* (Shifts), the floor plan's (Zones), the recipes' (Recipes) and the      *)
(* menu's (Menu).  They share the Worker, requests and their faults, and   *)
(* no rows: a behaviour is of one of them.                                 *)
(***************************************************************************)
EXTENDS Shifts, Zones, Recipes, Menu

vars == <<deskVars, shiftRows, zoneRows, recipeRows, menuRows>>

\* A desk that is closed starts from some one state.
Closed(desk, rows, first) == counts.desk # desk => rows = CHOOSE f \in first : TRUE

Init ==
  /\ DeskInit /\ ShiftsInit /\ ZonesInit /\ RecipesInit /\ MenuInit
  /\ Closed("clock", entries, FirstEntries) /\ Closed("pay", claims, FirstClaims)
  /\ Closed("pay", settings.row, BOOLEAN) /\ Closed("pay", settings.unverified, {FALSE})
  /\ Closed("zones", placed, FirstPlaces) /\ Closed("recipes", recipes, FirstRecipes)
  /\ Closed("menu", menu, {f.menu : f \in FirstMenus})

Next ==
  \/ ShiftsNext /\ UNCHANGED <<zoneRows, recipeRows, menuRows>>
  \/ ZonesNext /\ UNCHANGED <<shiftRows, recipeRows, menuRows>>
  \/ RecipesNext /\ UNCHANGED <<shiftRows, zoneRows, menuRows>>
  \/ MenuNext /\ UNCHANGED <<shiftRows, zoneRows, recipeRows>>
  \/ \E i \in Slots : Dies(i) /\ UNCHANGED <<shiftRows, zoneRows, recipeRows, menuRows>>

Spec == Init /\ [][Next]_vars

===============================================================================
