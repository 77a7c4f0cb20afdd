------------------------------- MODULE MCKitchen -------------------------------
(* Kitchen for TLC: a guest's ticket that both stations share, and a delivery.  *)
EXTENDS Kitchen, TLC

CONSTANTS t, d, s1, s2

TheLineUp    == <<[order |-> t, station |-> "bar"], [order |-> t, station |-> "kitchen"],
                  [order |-> d, station |-> "kitchen"]>>
TheStages    == (t :> {"fresh", "passed"}) @@ (d :> {"cooking", "away"})
SlotSymmetry == Permutations(Slots)
================================================================================
