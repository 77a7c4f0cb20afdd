-------------------------------- MODULE MCBills --------------------------------
(* Bills for TLC: two standing orders, one ticket to take, four checks to spare. *)
EXTENDS Bills, TLC

CONSTANTS s1, s2

TheExtra    == (1 :> 2) @@ (2 :> 0)
LineOf(o, k, p) == [order |-> o, no |-> k, price |-> p, status |-> "open"]
TheStanding == <<LineOf(1, 0, 2), LineOf(1, 1, 1), LineOf(2, 0, 2)>>
SlotSymmetry == Permutations(Slots)
================================================================================
