------------------------------- MODULE MCFloor -------------------------------
(* The floor for TLC: two tables, two checks, two bookings.                  *)
EXTENDS Floor, TLC

CONSTANTS t1, t2, none, c1, c2, b1, b2, s1, s2

\* A party sits on one table; the other is occupied with a blank stamp.
TheOpenings  == {[room |-> [[t \in Tables |-> "unstamped"] EXCEPT ![t2] = "party"],
                  tab |-> [c \in Checks |-> None]]}

TheWindows   == {[from |-> 1, to |-> 2], [from |-> 1, to |-> 3]}
RowSymmetry  == Permutations(Slots) \cup Permutations(Bookings) \cup Permutations(Checks)
=============================================================================
