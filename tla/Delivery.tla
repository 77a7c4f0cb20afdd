------------------------------ MODULE Delivery ------------------------------
(***************************************************************************)
(* What the sync protocol promises, with no cursor, batch, request or      *)
(* timeout in it: each site journals writes, and the other site takes every*)
(* one of them exactly once, in the order they were journalled.            *)
(***************************************************************************)
EXTENDS Naturals, Sequences

CONSTANTS Sites,   \* the two ends
          Items    \* what can be journalled

VARIABLES sent,   \* sent[s]: what site s has journalled, in order
          taken   \* taken[s]: what the other site has taken of it, in order

vars == <<sent, taken>>

Init == /\ sent  = [s \in Sites |-> <<>>]
        /\ taken = [s \in Sites |-> <<>>]

Send(s) == /\ \E u \in Items : sent' = [sent EXCEPT ![s] = Append(@, u)]
           /\ UNCHANGED taken

Take(s) == /\ Len(taken[s]) < Len(sent[s])
           /\ taken' = [taken EXCEPT ![s] = Append(@, sent[s][Len(@) + 1])]
           /\ UNCHANGED sent

Next == \E s \in Sites : Send(s) \/ Take(s)

\* Nothing is taken twice, out of order, or before it was sent.
Safety == Init /\ [][Next]_vars

\* Whatever was journalled is taken in the end.
Fairness == \A s \in Sites : WF_vars(Take(s))

Spec == Safety /\ Fairness

=============================================================================
