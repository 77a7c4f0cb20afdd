------------------------------ MODULE TillClaim ------------------------------
(***************************************************************************)
(* Till, and which orders a payment left claimed: recordPayment gives its  *)
(* claim back when it refuses the amount and when it stores the status,    *)
(* and nothing gives it back when a statement in between throws or the     *)
(* Worker goes, since there is no catch and no deadline on 'verifying'.    *)
(***************************************************************************)
EXTENDS Till

VARIABLE dropped   \* history: orders whose claim was held by a request cut off

varsC == <<vars, dropped>>

InitC == Init /\ dropped = {}

\* The orders whose claim loses its holder in a step that cuts a request off.
CutOff == {o \in Orders : faults'["die"] # faults["die"] /\ Holders(o)' # Holders(o)}

NextC == Next /\ dropped' = dropped \cup CutOff

SpecC == InitC /\ [][NextC]_varsC

\* As in FairSpec: a request that is not cut off goes on to its end.
FairSpecC == SpecC /\ \A i \in Slots : WF_varsC(Step(i) /\ NextC)

\* "The claim is reversed on failure so the order can be re-paid" holds of the
\* failures that are answered: a payment that is refused or goes through gives
\* the claim up, whatever overtakes it and wherever other requests are cut off.
\* The one claim that may stay is that of a request cut off while it held it.
ClaimReleased == \A o \in Orders :
  orders[o].pay = "verifying" ~> orders[o].pay # "verifying" \/ o \in dropped

=============================================================================
