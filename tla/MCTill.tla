------------------------------- MODULE MCTill -------------------------------
(* Small instances of Till: one order, a handful of requests. *)
EXTENDS Till, TLC

NoFaults == [f \in FaultKinds |-> 0]

EachOnce == [f \in FaultKinds |-> 1]

\* Slots hold requests, nothing else tells them apart.
SlotSymmetry == Permutations(Slots)

=============================================================================
