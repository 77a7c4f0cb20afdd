--------------------------------- MODULE Desk ---------------------------------
(***************************************************************************)
(* What the back office's handlers have in common: a request is served     *)
(* statement by statement, others are served meanwhile, and any may be cut *)
(* short (the Worker is evicted, a statement fails).  A desk is a set of   *)
(* handlers that share rows; Shifts, Zones, Recipes and Menu say what the  *)
(* desks do.                                                               *)
(***************************************************************************)
EXTENDS Integers, Sequences, FiniteSets

CONSTANTS
  Desks,        \* bound: a behaviour is of one desk; no row is written by two
  Slots,        \* requests under way at once
  MaxRequests,  \* MaxRequests[d], bound: requests at desk d
  MaxChanges,   \* MaxChanges[d], bound: changes others make of the rows it reads
  MaxFaults     \* bound: requests cut short

ASSUME DeskAssumption == {MaxRequests, MaxChanges} \subseteq [Desks -> Nat] /\ MaxFaults \in Nat

VARIABLES
  req,     \* req[i]: the request in slot i, with the history since: what has happened
           \* that it could not know of
  counts,  \* the desk, how many requests and changes there were, and history: what the
           \* requests that were cut short were about
  torn     \* history: what two requests were about at once

deskVars == <<req, counts, torn>>

\* What a request is about: a kind and a name of it, or the house.
House == <<"house", 0>>

\* A request: the operation, where it stands, the row it found, what it writes, what
\* is left to do, and what it read.
FreeSlot == [op |-> "none", pc |-> "free", key |-> House, row |-> 0, force |-> FALSE,
             new |-> <<>>, todo |-> {}, found |-> {}, since |-> {}]

At(i, pc) == req[i].pc = pc

Goes(i, r) == req' = [req EXCEPT ![i] = r]

Answers(i) == Goes(i, FreeSlot)

Step(i, pc) == [req[i] EXCEPT !.pc = pc]

DeskInit ==
  /\ req = [i \in Slots |-> FreeSlot]
  /\ counts \in {[desk |-> d, requests |-> 0, changes |-> 0, cut |-> <<>>] : d \in Desks}
  /\ torn = {}

Begins(i, r) ==
  /\ At(i, "free") /\ counts.requests < MaxRequests[counts.desk]
  /\ Goes(i, r)
  /\ counts' = [counts EXCEPT !.requests = @ + 1]
  /\ torn' = torn \cup {k \in {r.key} : \E j \in Slots \ {i} : ~At(j, "free") /\ req[j].key = k}

Changes ==
  /\ counts.changes < MaxChanges[counts.desk]
  /\ counts' = [counts EXCEPT !.changes = @ + 1]
  /\ UNCHANGED torn

\* Any request may be cut short.
Dies(i) ==
  /\ ~At(i, "free") /\ Len(counts.cut) < MaxFaults
  /\ counts' = [counts EXCEPT !.cut = Append(@, [op |-> req[i].op, key |-> req[i].key])]
  /\ Answers(i)
  /\ UNCHANGED torn

\* Nothing is under way.
Quiet == \A i \in Slots : At(i, "free")

===============================================================================
