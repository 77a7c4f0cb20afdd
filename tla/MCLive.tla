------------------------------- MODULE MCLive -------------------------------
(* Live for TLC: what happens in a behaviour, kept small by kind.              *)
EXTENDS Live

Quiet == [isolates |-> 1, reads |-> 0, looks |-> 0, kvFaults |-> 0, pins |-> 0, midnights |-> 0,
          evictions |-> 0, polls |-> 0, writes |-> 0, crons |-> 0, dbFaults |-> 0,
          changes |-> 0, connects |-> 0, leaves |-> 0, overlaps |-> 0]

\* Two isolates read rows, around midnight, or with a mode pinned; one fails and goes.
Reading ==
  {[Quiet EXCEPT !.isolates = 2, !.reads = 2, !.looks = 2, !.midnights = 1],
   [Quiet EXCEPT !.isolates = 2, !.reads = 1, !.looks = 1, !.pins = 1, !.crons = 1],
   [Quiet EXCEPT !.reads = 2, !.looks = 2, !.kvFaults = 1, !.evictions = 1]}

\* Lists are polled and written, in one isolate or two; a statement fails, the isolate goes.
Polling ==
  {[Quiet EXCEPT !.polls = 3, !.writes = 1, !.crons = 1],
   [Quiet EXCEPT !.isolates = 2, !.polls = 2, !.writes = 1],
   [Quiet EXCEPT !.polls = 2, !.writes = 1, !.dbFaults = 1, !.evictions = 1]}

\* Screens follow the board: two at once, or one through failures, a pin, a reconnection,
\* or with a tick that begins before the last has ended.
Watching ==
  {[Quiet EXCEPT !.changes = 2, !.connects = 2],
   [Quiet EXCEPT !.changes = 3, !.connects = 1],
   [Quiet EXCEPT !.changes = 1, !.connects = 2, !.leaves = 1, !.evictions = 1],
   [Quiet EXCEPT !.changes = 2, !.connects = 1, !.dbFaults = 1, !.overlaps = 1],
   [Quiet EXCEPT !.changes = 1, !.connects = 1, !.pins = 1, !.looks = 1]}

MCLoads  == Reading \cup Polling \cup Watching
MCBoards == {{"o1"}}
=============================================================================
