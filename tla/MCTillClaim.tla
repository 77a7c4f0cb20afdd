---------------------------- MODULE MCTillClaim ----------------------------
(* The claim, with one request cut off at any of its statements. *)
EXTENDS TillClaim, MCTill

OneDeath == [NoFaults EXCEPT !["die"] = 1]

=============================================================================
