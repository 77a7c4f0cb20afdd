------------------------------- MODULE MCStock -------------------------------
(* Stock for TLC: milk by the batch and cups by the piece, and one order that *)
(* uses both.                                                                *)
EXTENDS Stock, TLC

CONSTANTS milk, cup, s1, s2

TheOpening   == (milk :> 3) @@ (cup :> 2)
TheLots      == <<[item |-> milk, expiry |-> 0, received |-> 2, left |-> 2],
                  [item |-> milk, expiry |-> 2, received |-> 1, left |-> 1]>>
TheRecipe    == <<<<[item |-> milk, qty |-> 2], [item |-> cup, qty |-> 1]>>>>
TheSheets    == {<<[item |-> milk, qty |-> 1], [item |-> cup, qty |-> 2]>>}
SlotSymmetry == Permutations(Slots)
=============================================================================
