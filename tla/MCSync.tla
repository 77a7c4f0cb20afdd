------------------------------- MODULE MCSync -------------------------------
(* Small instances of Sync: one row per kind of owner, and budgets of faults. *)
EXTENDS Sync

MCEntity == [r \in Rows |-> CASE r = "table"   -> "tables"
                              [] r = "payment" -> "payments"]

NoFaults == [f \in FaultKinds |-> 0]

EachFaultOnce == [f \in FaultKinds |-> 1]

\* A request times out, the Worker, the box and its disk fail, once each.
Outages == [EachFaultOnce EXCEPT !["capture"] = 0]

\* Answers are lost or late, and a write may go unjournalled.
TimeoutsOnly == [NoFaults EXCEPT !["timeout"] = 2, !["capture"] = 1]

\* The Worker dies in a push, the box in a pull: entries are applied again.
Deaths == [NoFaults EXCEPT !["kill"] = 1, !["crash"] = 1]

\* How many writes each site makes.
BoxHeavy == [local |-> 3, cloud |-> 1]
BoxFirst == [local |-> 2, cloud |-> 1]
TwoEach  == [local |-> 2, cloud |-> 2]

=============================================================================
