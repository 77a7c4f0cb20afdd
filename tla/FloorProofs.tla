----------------------------- MODULE FloorProofs -----------------------------
(***************************************************************************)
(* Proofs about Floor, for any tables, checks, bookings, times, requests   *)
(* that overlap and requests that stop half way.                           *)
(***************************************************************************)
EXTENDS Floor, TLAPS

Row     == [status : {"available", "occupied", "cleaning"}, seated : Nat, bill : BOOLEAN]
Order   == [state : {"none", "open", "completed", "cancelled"}, table : Places,
            paid : BOOLEAN, asked : BOOLEAN, arrived : Nat]
Reserved == [status : {"none", "active", "seated", "cancelled"}, gone : BOOLEAN,
             table : Places, window : Windows, written : Nat]
Party   == [who : Nat, since : Nat, displaced : BOOLEAN]

\* The fields of a request; their values matter only as far as Fits goes.
Fields  == DOMAIN FreeSlot

\* What a request of each operation is about, numbered among the n there have been.
Fits(r, n) ==
  /\ DOMAIN r = Fields
  /\ r.op # "none" => r.n \in 1 .. n
  /\ r.op \in {"seat", "free", "leave", "ask", "retract", "order"} => r.table \in Tables
  /\ r.op \in {"order", "pay", "move"} => r.check \in Checks
  /\ r.op = "move" => r.dest \in Tables
  /\ r.op = "move" /\ r.pc \notin {"look"} => r.table \in Tables
  /\ r.op = "seat" => r.stamp \in Nat \ {0}
  /\ r.op = "leave" => r.to \in {"available", "cleaning"}
  /\ r.op = "rebook" => r.booking \in Bookings /\ r.dest \in Places /\ r.window \in Windows
  /\ r.op = "sweep" => r.todo \subseteq Tables

FloorType ==
  /\ now \in Nat /\ at \in Seq(Nat)
  /\ table \in [Tables -> Row]
  /\ check \in [Checks -> Order]
  /\ booking \in [Bookings -> Reserved]
  /\ sitting \in [Tables -> SUBSET Party]
  /\ DOMAIN req = Slots

\* A check that was opened is on a table, and is there for a request that moves it.
Filed ==
  /\ \A c \in Checks : check[c].state # "none" => check[c].table \in Tables
  /\ \A i \in Slots : req[i].op = "move" => check[req[i].check].state # "none"

\* A step keeps it so.
FilesOn == \A c \in Checks :
  /\ check'[c].state # "none" => check'[c].table \in Tables
  /\ check[c].state # "none" => check'[c].state # "none"

Shape == FloorType /\ Filed /\ \A i \in Slots : Fits(req[i], Len(at))

-----------------------------------------------------------------------------
(* The shape of the rows and the requests.                                 *)

LEMMA TimesExist == NoBooking.window \in Windows /\ None \notin Tables /\ None \notin Checks
BY WindowsAssumption, NoneAssumption DEF NoBooking

LEMMA IdleFits == ASSUME NEW n \in Nat PROVE Fits(FreeSlot, n) /\ FreeSlot.op = "none" /\ FreeSlot.pc = "free"
BY DEF FreeSlot, Fits, Fields

LEMMA Lengths ==
  ASSUME at \in Seq(Nat)
  PROVE  /\ Len(at) \in Nat
         /\ \A x \in Nat : Append(at, x) \in Seq(Nat) /\ Len(Append(at, x)) = Len(at) + 1
OBVIOUS

LEMMA FitsLonger ==
  ASSUME NEW r, NEW m \in Nat, NEW n \in Nat, m <= n, Fits(r, m)
  PROVE  Fits(r, n)
BY DEF Fits

\* Only the request in slot i changes.
LEMMA OneGoes ==
  ASSUME DOMAIN req = Slots, NEW i \in Slots, NEW r, Goes(i, r)
  PROVE  DOMAIN req' = Slots /\ req'[i] = r /\ \A j \in Slots \ {i} : req'[j] = req[j]
BY DEF Goes

\* A request at its next statement.
OnTo(r, pc) == [r EXCEPT !.pc = pc]

LEMMA GoesOn ==
  ASSUME NEW r, NEW n \in Nat, Fits(r, n), NEW pc, r.op = "move" => r.pc # "look"
  PROVE  LET s == OnTo(r, pc) IN
         /\ Fits(s, n) /\ s.pc = pc
         /\ s.op = r.op /\ s.n = r.n /\ s.table = r.table /\ s.check = r.check
         /\ s.dest = r.dest /\ s.booking = r.booking /\ s.window = r.window
         /\ s.todo = r.todo /\ s.owed = r.owed /\ s.seen = r.seen
<1> DEFINE s == OnTo(r, pc)
<1>1. DOMAIN r = Fields /\ DOMAIN s = Fields
  BY DEF Fits, OnTo
<1>2. {"op", "pc", "n", "table", "check", "dest", "stamp", "to", "booking", "window",
       "todo", "owed", "seen"} \subseteq Fields
  BY DEF Fields, FreeSlot
<1>3. /\ s.op = r.op /\ s.n = r.n /\ s.table = r.table /\ s.check = r.check /\ s.dest = r.dest
      /\ s.stamp = r.stamp /\ s.to = r.to /\ s.booking = r.booking /\ s.window = r.window
      /\ s.todo = r.todo /\ s.owed = r.owed /\ s.seen = r.seen /\ s.pc = pc
  BY <1>1, <1>2 DEF OnTo
<1> QED
  BY <1>1, <1>3 DEF Fits

LEMMA StepShape ==
  ASSUME Shape, NEW i \in Slots, NEW s, Goes(i, s),
         FloorType', Len(at) <= Len(at'), Fits(s, Len(at')),
         FilesOn,
         s.op = "move" => check'[s.check].state # "none"
  PROVE  Shape'
<1>1. req'[i] = s /\ \A j \in Slots \ {i} : req'[j] = req[j]
  BY OneGoes DEF Shape, FloorType
<1>2. \A j \in Slots : Fits(req'[j], Len(at'))
  <2>1. Len(at) \in Nat /\ Len(at') \in Nat
    BY DEF Shape, FloorType
  <2> QED
    BY <1>1, <2>1, FitsLonger DEF Shape
<1>3. Filed'
  BY <1>1 DEF Shape, Filed, FilesOn, Fits
<1> QED
  BY <1>2, <1>3 DEF Shape

\* What a statement may do to a row.
LEMMA RowsTyped ==
  ASSUME FloorType, NEW t, NEW stamp \in Nat
  PROVE  /\ Seats(t, stamp) => table' \in [Tables -> Row]
         /\ Hushes(t) => table' \in [Tables -> Row]
         /\ \A status \in {"available", "cleaning"} : Clears(t, status) => table' \in [Tables -> Row]
         /\ table' = [table EXCEPT ![t].bill = TRUE] => table' \in [Tables -> Row]
         /\ table' = [table EXCEPT ![t].seated = stamp] => table' \in [Tables -> Row]
<1>1. ASSUME Seats(t, stamp) PROVE table' \in [Tables -> Row]
  BY <1>1 DEF FloorType, Seats, Row
<1>2. ASSUME Hushes(t) PROVE table' \in [Tables -> Row]
  BY <1>2 DEF FloorType, Hushes, Row
<1>3. ASSUME NEW status \in {"available", "cleaning"}, Clears(t, status) PROVE table' \in [Tables -> Row]
  BY <1>3 DEF FloorType, Clears, Row
<1>4. ASSUME table' = [table EXCEPT ![t].bill = TRUE] PROVE table' \in [Tables -> Row]
  BY <1>4 DEF FloorType, Row
<1>5. ASSUME table' = [table EXCEPT ![t].seated = stamp] PROVE table' \in [Tables -> Row]
  BY <1>5 DEF FloorType, Row
<1> QED
  BY <1>1, <1>2, <1>3, <1>4, <1>5

LEMMA PartiesTyped ==
  ASSUME FloorType, NEW t, NEW i, NEW who \in Nat, NEW displaced \in BOOLEAN
  PROVE  /\ Sits(t, who, displaced) => sitting' \in [Tables -> SUBSET Party]
         /\ Leaves(i, t) => sitting' \in [Tables -> SUBSET Party]
<1>1. Len(at) \in Nat
  BY DEF FloorType
<1>2. ASSUME Sits(t, who, displaced) PROVE sitting' \in [Tables -> SUBSET Party]
  <2> DEFINE new == [who |-> who, since |-> Len(at), displaced |-> displaced]
  <2>1. new \in Party
    BY <1>1 DEF Party
  <2>2. sitting' = [sitting EXCEPT ![t] = {p \in @ : p.who # who} \cup {new}]
    BY <1>2 DEF Sits
  <2> HIDE DEF new
  <2> QED
    BY <2>1, <2>2 DEF FloorType
<1>3. ASSUME Leaves(i, t) PROVE sitting' \in [Tables -> SUBSET Party]
  <2>1. \A p \in Party : [p EXCEPT !.displaced = TRUE] \in Party
    BY DEF Party
  <2> QED
    BY <1>3, <2>1 DEF FloorType, Leaves
<1> QED
  BY <1>2, <1>3

-----------------------------------------------------------------------------
(* Each statement keeps the shape.                                         *)

\* A request goes to its next statement, or answers, and the rows keep their types.
LEMMA NextStatement ==
  ASSUME Shape, NEW i \in Slots, at' = at, now' = now, req[i].op # "none",
         \/ Answers(i)
         \/ \E pc : Proceeds(i, pc) /\ (req[i].op = "move" => req[i].pc # "look"),
         table' \in [Tables -> Row], check' \in [Checks -> Order],
         booking' \in [Bookings -> Reserved], sitting' \in [Tables -> SUBSET Party],
         FilesOn
  PROVE  Shape'
<1>1. Len(at) \in Nat /\ Fits(req[i], Len(at))
  BY DEF Shape, FloorType
<1>2. DOMAIN req' = Slots
  BY DEF Answers, Proceeds, Goes, Shape, FloorType
<1>3. FloorType'
  BY <1>2 DEF FloorType, Shape
<1>4. CASE Answers(i)
  BY <1>1, <1>3, <1>4, IdleFits, StepShape DEF Answers
<1>5. ASSUME NEW pc, Proceeds(i, pc), req[i].op = "move" => req[i].pc # "look"
      PROVE  Shape'
  <2> DEFINE s == OnTo(req[i], pc)
  <2>1. Fits(s, Len(at)) /\ s.op = req[i].op /\ s.check = req[i].check
    BY <1>1, <1>5, GoesOn
  <2>2. s.op = "move" => check'[s.check].state # "none"
    BY <1>1, <2>1 DEF Shape, Filed, FilesOn, Fits
  <2>3. Goes(i, s)
    BY <1>5 DEF Proceeds, OnTo
  <2> HIDE DEF s
  <2> QED
    BY <1>1, <1>3, <2>1, <2>2, <2>3, StepShape
<1> QED
  BY <1>4, <1>5

\* The checks as they were, and the other rows.
LEMMA OthersStay ==
  ASSUME Shape
  PROVE  /\ UNCHANGED table => table' \in [Tables -> Row]
         /\ UNCHANGED booking => booking' \in [Bookings -> Reserved]
         /\ UNCHANGED sitting => sitting' \in [Tables -> SUBSET Party]
         /\ UNCHANGED check => check' \in [Checks -> Order] /\ FilesOn
BY DEF Shape, FloorType, Filed, FilesOn

\* A request that reads.
LEMMA ReadsShape ==
  ASSUME Shape, NEW i \in Slots, NEW s, Goes(i, s), Fits(s, Len(at)),
         UNCHANGED <<clock, table, check, booking, sitting>>,
         s.op = "move" => check[s.check].state # "none"
  PROVE  Shape'
<1>1. DOMAIN req' = Slots
  BY DEF Goes, Shape, FloorType
<1>2. FloorType' /\ at' = at /\ Len(at) \in Nat /\ check' = check
  BY <1>1 DEF FloorType, Shape, clock
<1>3. FilesOn
  BY <1>2 DEF Shape, Filed, FilesOn
<1> QED
  BY <1>2, <1>3, StepShape

LEMMA SeatingShape == ASSUME Shape, NEW i \in Slots, Seating(i) PROVE Shape'
<1>1. Len(at) \in Nat /\ Fits(req[i], Len(at)) /\ DOMAIN req[i] = Fields
  BY DEF Shape, FloorType, Fits
<1>2. {"op", "pc", "n", "table", "check", "dest", "stamp", "to", "booking", "window",
       "todo", "claims", "over"} \subseteq Fields
  BY DEF Fields, FreeSlot
<1>3. CASE SeatLooks(i)
  <2>1. CASE Answers(i)
    BY <1>1, <1>3, <2>1, IdleFits, ReadsShape DEF SeatLooks, Answers
  <2>2. ASSUME NEW claims, NEW over,
               Goes(i, [req[i] EXCEPT !.pc = "held", !.claims = claims, !.over = over])
        PROVE  Shape'
    <3> DEFINE s == [req[i] EXCEPT !.pc = "held", !.claims = claims, !.over = over]
    <3>1. Fits(s, Len(at)) /\ s.op = "seat"
      BY <1>1, <1>2, <1>3 DEF Fits, SeatLooks, At
    <3> HIDE DEF s
    <3> QED
      BY <1>1, <1>3, <2>2, <3>1, ReadsShape DEF SeatLooks, s
  <2> QED
    BY <1>3, <2>1, <2>2 DEF SeatLooks
<1>4. CASE SeatChecksHold(i)
  <2>1. CASE Answers(i)
    BY <1>1, <1>4, <2>1, IdleFits, ReadsShape DEF SeatChecksHold, Answers
  <2>2. CASE \E pc : Proceeds(i, pc)
    BY <1>4, <2>2, NextStatement, OthersStay DEF SeatChecksHold, At, clock
  <2>3. ASSUME NEW b \in Bookings, Goes(i, [req[i] EXCEPT !.pc = "unbook", !.booking = b])
        PROVE  Shape'
    <3> DEFINE s == [req[i] EXCEPT !.pc = "unbook", !.booking = b]
    <3>1. Fits(s, Len(at)) /\ s.op = "seat"
      BY <1>1, <1>2, <1>4 DEF Fits, SeatChecksHold, At
    <3> HIDE DEF s
    <3> QED
      BY <1>1, <1>4, <2>3, <3>1, ReadsShape DEF SeatChecksHold, s
  <2> QED
    BY <1>4, <2>1, <2>2, <2>3 DEF SeatChecksHold, Blocking
<1>5. CASE SeatReleases(i)
  <2>1. booking' \in [Bookings -> Reserved]
    BY <1>5 DEF SeatReleases, Shape, FloorType, Reserved
  <2> QED
    BY <1>5, <2>1, NextStatement, OthersStay DEF SeatReleases, At, clock
<1>6. CASE SeatClaims(i)
  <2>1. req[i].stamp \in Nat /\ req[i].n \in Nat /\ FloorType /\ FALSE \in BOOLEAN
    BY <1>1, <1>6 DEF SeatClaims, At, Fits, Shape
  <2>2. table' \in [Tables -> Row] /\ sitting' \in [Tables -> SUBSET Party]
    BY <1>6, <2>1, RowsTyped, PartiesTyped, OthersStay DEF SeatClaims
  <2> QED
    BY <1>6, <2>2, NextStatement, OthersStay DEF SeatClaims, At, clock
<1>7. CASE SeatWrites(i)
  <2>1. req[i].stamp \in Nat /\ req[i].n \in Nat /\ FloorType /\ TRUE \in BOOLEAN
    BY <1>1, <1>7 DEF SeatWrites, At, Fits, Shape
  <2>2. table' \in [Tables -> Row] /\ sitting' \in [Tables -> SUBSET Party]
    BY <1>7, <2>1, RowsTyped, PartiesTyped, OthersStay DEF SeatWrites
  <2> QED
    BY <1>7, <2>2, NextStatement, OthersStay DEF SeatWrites, At, clock
<1> QED
  BY <1>3, <1>4, <1>5, <1>6, <1>7 DEF Seating

LEMMA ClearingShape == ASSUME Shape, NEW i \in Slots, Clearing(i) PROVE Shape'
<1>1. FloorType /\ Fits(req[i], Len(at)) /\ {1} \subseteq Nat /\ 1 \in Nat /\ TRUE \in BOOLEAN
  BY DEF Shape
<1>2. CASE FreeLooks(i)
  BY <1>2, NextStatement, OthersStay DEF FreeLooks, At, clock
<1>3. CASE FreeChecksBills(i)
  BY <1>3, NextStatement, OthersStay DEF FreeChecksBills, At, clock
<1>4. CASE FreeClears(i)
  <2>1. table' \in [Tables -> Row] /\ sitting' \in [Tables -> SUBSET Party]
    BY <1>1, <1>4, RowsTyped, PartiesTyped DEF FreeClears
  <2> QED
    BY <1>4, <2>1, NextStatement, OthersStay DEF FreeClears, At, clock
<1>5. CASE FreeHushes(i)
  <2>1. table' \in [Tables -> Row]
    BY <1>1, <1>5, RowsTyped DEF FreeHushes
  <2> QED
    BY <1>5, <2>1, NextStatement, OthersStay DEF FreeHushes, At, clock
<1>6. CASE LeaveHushes(i)
  <2>1. table' \in [Tables -> Row]
    BY <1>1, <1>6, RowsTyped DEF LeaveHushes
  <2> QED
    BY <1>6, <2>1, NextStatement, OthersStay DEF LeaveHushes, At, clock
<1>7. CASE LeaveWrites(i)
  <2>1. req[i].to \in {"available", "cleaning"}
    BY <1>1, <1>7 DEF LeaveWrites, At, Fits
  <2>2. table' \in [Tables -> Row] /\ sitting' \in [Tables -> SUBSET Party]
    BY <1>1, <1>7, <2>1, RowsTyped, PartiesTyped DEF LeaveWrites
  <2> QED
    BY <1>7, <2>2, NextStatement, OthersStay DEF LeaveWrites, At, clock
<1> QED
  BY <1>2, <1>3, <1>4, <1>5, <1>6, <1>7 DEF Clearing

LEMMA BillingShape == ASSUME Shape, NEW i \in Slots, Billing(i) PROVE Shape'
<1>1. /\ FloorType /\ Len(at) \in Nat /\ Fits(req[i], Len(at)) /\ DOMAIN req[i] = Fields
      /\ 1 \in Nat
  BY DEF Shape, FloorType, Fits
<1>2. CASE AskLooks(i)
  BY <1>2, NextStatement, OthersStay DEF AskLooks, At, clock
<1>3. CASE AskReadsStamp(i)
  BY <1>3, NextStatement, OthersStay DEF AskReadsStamp, At, clock
<1>4. CASE AskStamps(i)
  <2>1. table' \in [Tables -> Row]
    BY <1>1, <1>4, RowsTyped DEF AskStamps
  <2> QED
    BY <1>4, <2>1, NextStatement, OthersStay DEF AskStamps, At, clock
<1>5. CASE AskTells(i)
  <2>1. \A c \in Checks : [check[c] EXCEPT !.asked = TRUE] \in Order
                          /\ [check[c] EXCEPT !.asked = TRUE].state = check[c].state
                          /\ [check[c] EXCEPT !.asked = TRUE].table = check[c].table
    BY <1>1 DEF FloorType, Order
  <2>2. check' \in [Checks -> Order]
        /\ \A c \in Checks : check'[c].state = check[c].state /\ check'[c].table = check[c].table
    BY <1>1, <1>5, <2>1 DEF AskTells, FloorType
  <2>3. FilesOn
    BY <2>2 DEF Shape, Filed, FilesOn
  <2> QED
    BY <1>5, <2>2, <2>3, NextStatement, OthersStay DEF AskTells, At, clock
<1>6. CASE RetractHushes(i)
  <2>1. table' \in [Tables -> Row]
    BY <1>1, <1>6, RowsTyped DEF RetractHushes
  <2> QED
    BY <1>6, <2>1, NextStatement, OthersStay DEF RetractHushes, At, clock
<1>7. CASE PayReads(i)
  <2> DEFINE s == [req[i] EXCEPT !.pc = "settle", !.table = check[req[i].check].table]
  <2>1. {"op", "pc", "n", "table", "check", "dest", "stamp", "to", "booking", "window", "todo"} \subseteq Fields
    BY DEF Fields, FreeSlot
  <2>2. Fits(s, Len(at)) /\ s.op = "pay"
    BY <1>1, <1>7, <2>1 DEF Fits, PayReads, At
  <2> HIDE DEF s
  <2> QED
    BY <1>7, <2>2, ReadsShape DEF PayReads, s
<1>8. CASE PaySettles(i)
  <2>1. check' \in [Checks -> Order]
        /\ \A c \in Checks : check'[c].state = check[c].state /\ check'[c].table = check[c].table
    BY <1>1, <1>8 DEF PaySettles, FloorType, Order
  <2>2. FilesOn
    BY <2>1 DEF Shape, Filed, FilesOn
  <2> QED
    BY <1>8, <2>1, <2>2, NextStatement, OthersStay DEF PaySettles, At, clock
<1>9. CASE PayHushes(i)
  <2>1. table' \in [Tables -> Row]
    BY <1>1, <1>9, RowsTyped, OthersStay DEF PayHushes
  <2> QED
    BY <1>9, <2>1, NextStatement, OthersStay DEF PayHushes, At, clock
<1> QED
  BY <1>2, <1>3, <1>4, <1>5, <1>6, <1>7, <1>8, <1>9 DEF Billing

LEMMA OrderingShape == ASSUME Shape, NEW i \in Slots, Ordering(i) PROVE Shape'
<1>1. FloorType /\ Len(at) \in Nat /\ Fits(req[i], Len(at)) /\ FALSE \in BOOLEAN
  BY DEF Shape, FloorType
<1>2. CASE OrderInserts(i)
  <2>1. req[i].check \in Checks /\ req[i].table \in Tables
    BY <1>1, <1>2 DEF OrderInserts, At, Fits
  <2> DEFINE new == [state |-> "open", table |-> req[i].table, paid |-> FALSE, asked |-> FALSE,
                     arrived |-> Len(at)]
  <2>2. new \in Order /\ new.state = "open" /\ new.table \in Tables
    BY <1>1, <2>1 DEF Order, Places
  <2>3. check' = [check EXCEPT ![req[i].check] = new]
    BY <1>2 DEF OrderInserts
  <2> HIDE DEF new
  <2>4. check' \in [Checks -> Order]
        /\ FilesOn
    BY <1>1, <2>1, <2>2, <2>3 DEF FloorType, Shape, Filed, FilesOn
  <2>5. table' \in [Tables -> Row] /\ booking' \in [Bookings -> Reserved]
        /\ sitting' \in [Tables -> SUBSET Party]
    BY <1>2, OthersStay DEF OrderInserts
  <2>6. at' = at /\ now' = now /\ req[i].op # "none"
    BY <1>2 DEF OrderInserts, At, clock
  <2>7. \E pc : Proceeds(i, pc) /\ (req[i].op = "move" => req[i].pc # "look")
    BY <1>2 DEF OrderInserts, At
  <2> QED
    BY <2>4, <2>5, <2>6, <2>7, NextStatement
<1>3. CASE OrderPeeks(i)
  BY <1>3, NextStatement, OthersStay DEF OrderPeeks, At, clock
<1>4. CASE OrderSeats(i)
  <2>1. req[i].n \in Nat
    BY <1>1, <1>4 DEF OrderSeats, At, Fits
  <2>2. table' \in [Tables -> Row] /\ sitting' \in [Tables -> SUBSET Party]
    BY <1>1, <1>4, <2>1, RowsTyped, PartiesTyped, OthersStay DEF OrderSeats
  <2> QED
    BY <1>4, <2>2, NextStatement, OthersStay DEF OrderSeats, At, clock
<1> QED
  BY <1>2, <1>3, <1>4 DEF Ordering

LEMMA MovingShape == ASSUME Shape, NEW i \in Slots, Moving(i) PROVE Shape'
<1>1. /\ FloorType /\ Len(at) \in Nat /\ Fits(req[i], Len(at)) /\ DOMAIN req[i] = Fields
      /\ TRUE \in BOOLEAN /\ 1 \in Nat
  BY DEF Shape, FloorType, Fits
<1>2. CASE MoveLooks(i)
  <2>1. CASE Answers(i)
    BY <1>1, <1>2, <2>1, IdleFits, ReadsShape DEF MoveLooks, Answers
  <2>2. CASE Goes(i, [req[i] EXCEPT !.pc = "dest", !.table = check[req[i].check].table])
    <3> DEFINE s == [req[i] EXCEPT !.pc = "dest", !.table = check[req[i].check].table]
    <3>1. {"op", "pc", "n", "table", "check", "dest", "stamp", "to", "booking", "window", "todo"} \subseteq Fields
      BY DEF Fields, FreeSlot
    <3>2. req[i].check \in Checks /\ check[req[i].check].state # "none"
      BY <1>1, <1>2 DEF MoveLooks, At, Fits, Shape, Filed
    <3>3. check[req[i].check].table \in Tables
      BY <3>2 DEF Shape, Filed
    <3>4. Fits(s, Len(at)) /\ s.op = "move" /\ s.check = req[i].check
      BY <1>1, <1>2, <3>1, <3>3 DEF Fits, MoveLooks, At
    <3> HIDE DEF s
    <3> QED
      BY <1>2, <2>2, <3>2, <3>4, ReadsShape DEF MoveLooks, s
  <2> QED
    BY <1>2, <2>1, <2>2 DEF MoveLooks
<1>3. CASE MoveSeesDest(i)
  BY <1>3, NextStatement, OthersStay DEF MoveSeesDest, At, clock
<1>4. CASE MoveChecksHold(i)
  BY <1>4, NextStatement, OthersStay DEF MoveChecksHold, At, clock
<1>5. CASE MoveRefiles(i)
  <2>1. req[i].check \in Checks /\ req[i].dest \in Tables
    BY <1>1, <1>5 DEF MoveRefiles, At, Fits
  <2>2. check' \in [Checks -> Order]
        /\ \A c \in Checks : /\ check'[c].state = check[c].state
                             /\ check'[c].table \in {check[c].table, req[i].dest}
    BY <1>1, <1>5, <2>1 DEF MoveRefiles, FloorType, Order, Places
  <2>3. FilesOn
    BY <2>1, <2>2 DEF Shape, Filed, FilesOn
  <2> QED
    BY <1>5, <2>2, <2>3, NextStatement, OthersStay DEF MoveRefiles, At, clock
<1>6. CASE MoveSits(i)
  <2>1. req[i].n \in Nat /\ req[i].dest \in Tables
    BY <1>1, <1>6 DEF MoveSits, At, Fits
  <2>2. table[req[i].dest].seated \in Nat
    BY <1>1, <2>1 DEF FloorType, Row
  <2>3. (table[req[i].dest].status = "occupied") \in BOOLEAN
    OBVIOUS
  <2>4. table' \in [Tables -> Row] /\ sitting' \in [Tables -> SUBSET Party]
    BY <1>1, <1>6, <2>1, <2>2, <2>3, RowsTyped, PartiesTyped DEF MoveSits
  <2> QED
    BY <1>6, <2>4, NextStatement, OthersStay DEF MoveSits, At, clock
<1>7. CASE MoveCountsRest(i)
  BY <1>7, NextStatement, OthersStay DEF MoveCountsRest, At, clock
<1>8. CASE MoveVacates(i)
  <2>1. table' \in [Tables -> Row] /\ sitting' \in [Tables -> SUBSET Party]
    BY <1>1, <1>8, RowsTyped, PartiesTyped DEF MoveVacates
  <2> QED
    BY <1>8, <2>1, NextStatement, OthersStay DEF MoveVacates, At, clock
<1> QED
  BY <1>2, <1>3, <1>4, <1>5, <1>6, <1>7, <1>8 DEF Moving

LEMMA SweepingShape == ASSUME Shape, NEW i \in Slots, Sweeping(i) PROVE Shape'
<1>1. /\ FloorType /\ Len(at) \in Nat /\ Fits(req[i], Len(at)) /\ DOMAIN req[i] = Fields
      /\ TRUE \in BOOLEAN /\ 1 \in Nat
  BY DEF Shape, FloorType, Fits
<1>2. {"op", "pc", "n", "table", "check", "dest", "stamp", "to", "booking", "window",
       "todo", "seen", "owed"} \subseteq Fields
  BY DEF Fields, FreeSlot
<1>3. CASE SweepReads(i)
  <2>1. CASE Answers(i)
    BY <1>1, <1>3, <2>1, IdleFits, ReadsShape DEF SweepReads, Answers
  <2>2. ASSUME NEW todo \in SUBSET Tables, NEW seen,
               Goes(i, [req[i] EXCEPT !.pc = "owed", !.todo = todo, !.seen = seen])
        PROVE  Shape'
    <3> DEFINE s == [req[i] EXCEPT !.pc = "owed", !.todo = todo, !.seen = seen]
    <3>1. Fits(s, Len(at)) /\ s.op = "sweep"
      BY <1>1, <1>2, <1>3 DEF Fits, SweepReads, At
    <3> HIDE DEF s
    <3> QED
      BY <1>3, <2>2, <3>1, ReadsShape DEF SweepReads, s
  <2> QED
    BY <1>3, <2>1, <2>2 DEF SweepReads
<1>4. CASE SweepReadsBills(i)
  <2>1. CASE Answers(i)
    BY <1>1, <1>4, <2>1, IdleFits, ReadsShape DEF SweepReadsBills, Answers
  <2>2. ASSUME NEW todo \in SUBSET req[i].todo, NEW owed,
               Goes(i, [req[i] EXCEPT !.pc = "turn", !.todo = todo, !.owed = owed])
        PROVE  Shape'
    <3> DEFINE s == [req[i] EXCEPT !.pc = "turn", !.todo = todo, !.owed = owed]
    <3>1. Fits(s, Len(at)) /\ s.op = "sweep"
      BY <1>1, <1>2, <1>4 DEF Fits, SweepReadsBills, At
    <3> HIDE DEF s
    <3> QED
      BY <1>4, <2>2, <3>1, ReadsShape DEF SweepReadsBills, s
  <2> QED
    BY <1>4, <2>1, <2>2 DEF SweepReadsBills
<1>5. CASE SweepTurns(i)
  <2>1. PICK t \in req[i].todo :
          /\ IF req[i].seen[t] = 0
             THEN table' = [table EXCEPT ![t].seated = req[i].n] /\ UNCHANGED sitting
             ELSE Clears(t, NextStatus(t \in req[i].owed)) /\ Leaves(i, t)
          /\ \/ Answers(i)
             \/ Goes(i, [req[i] EXCEPT !.todo = req[i].todo \ {t}])
    BY <1>5 DEF SweepTurns
  <2>2. req[i].op = "sweep" /\ req[i].n \in Nat
        /\ NextStatus(t \in req[i].owed) \in {"available", "cleaning"}
    BY <1>1, <1>5 DEF SweepTurns, At, Fits, NextStatus
  <2>3. table' \in [Tables -> Row] /\ sitting' \in [Tables -> SUBSET Party]
    BY <1>1, <2>1, <2>2, RowsTyped, PartiesTyped, OthersStay
  <2>4. at' = at /\ now' = now /\ UNCHANGED <<check, booking>>
    BY <1>5 DEF SweepTurns, clock
  <2>5. CASE Answers(i)
    BY <2>2, <2>3, <2>4, <2>5, NextStatement, OthersStay
  <2>6. CASE Goes(i, [req[i] EXCEPT !.todo = req[i].todo \ {t}])
    <3> DEFINE s == [req[i] EXCEPT !.todo = req[i].todo \ {t}]
    <3>1. Fits(s, Len(at)) /\ s.op = "sweep"
      BY <1>1, <1>2, <2>2 DEF Fits
    <3>2. DOMAIN req' = Slots
      BY <2>6 DEF Goes, Shape, FloorType
    <3>3. FloorType'
      BY <2>3, <2>4, <3>2 DEF Shape, FloorType
    <3>4. FilesOn
      BY <2>4 DEF Shape, Filed, FilesOn
    <3>5. Goes(i, s) /\ Len(at) <= Len(at') /\ Fits(s, Len(at')) /\ check' = check
      BY <1>1, <2>4, <2>6, <3>1
    <3> HIDE DEF s
    <3> QED
      BY <3>1, <3>3, <3>4, <3>5, StepShape
  <2> QED
    BY <2>1, <2>5, <2>6
<1> QED
  BY <1>3, <1>4, <1>5 DEF Sweeping

LEMMA RebookingShape == ASSUME Shape, NEW i \in Slots, Rebooking(i) PROVE Shape'
<1>1. FloorType /\ Len(at) \in Nat /\ Fits(req[i], Len(at))
  BY DEF Shape, FloorType
<1>2. CASE RebookChecks(i)
  BY <1>2, NextStatement, OthersStay DEF RebookChecks, At, clock
<1>3. CASE RebookWrites(i)
  <2>1. req[i].dest \in Places /\ req[i].window \in Windows
    BY <1>1, <1>3 DEF RebookWrites, At, Fits
  <2>2. booking' \in [Bookings -> Reserved]
    BY <1>1, <1>3, <2>1 DEF RebookWrites, FloorType, Reserved
  <2> QED
    BY <1>3, <2>2, NextStatement, OthersStay DEF RebookWrites, At, clock
<1> QED
  BY <1>2, <1>3 DEF Rebooking

LEMMA DyingShape == ASSUME Shape, NEW i \in Slots, Dies(i) PROVE Shape'
<1>1. Len(at) \in Nat
  BY DEF Shape, FloorType
<1> QED
  BY <1>1, IdleFits, ReadsShape DEF Dies, Answers

-----------------------------------------------------------------------------
(* Requests that arrive, and statements that are requests of their own.    *)

LEMMA ComingsShape == ASSUME Shape, NEW i \in Slots, Comings(i) PROVE Shape'
<1> DEFINE n == Len(at) + 1
<1>1. /\ FloorType /\ Len(at) \in Nat /\ n \in Nat /\ n \in 1 .. n /\ Len(at) <= n
  BY DEF Shape, FloorType
<1>2. ASSUME NEW r, Comes(i, r), Fits([r EXCEPT !.n = n], n),
             [r EXCEPT !.n = n].op = "move" => check[[r EXCEPT !.n = n].check].state # "none"
      PROVE  Shape'
  <2> DEFINE s == [r EXCEPT !.n = n]
  <2>1. Goes(i, s)
    BY <1>2 DEF Comes
  <2>2. /\ UNCHANGED <<now, table, check, booking, sitting>>
        /\ \E x \in Nat : at' = Append(at, x)
    BY <1>1, <1>2 DEF Comes, FloorType
  <2>3. at' \in Seq(Nat) /\ Len(at') = n
    BY <1>1, <2>2, Lengths DEF FloorType
  <2>4. DOMAIN req' = Slots
    BY <2>1 DEF Goes, Shape, FloorType
  <2>5. FloorType'
    BY <1>1, <2>2, <2>3, <2>4 DEF FloorType
  <2>6. FilesOn
    BY <2>2 DEF Shape, Filed, FilesOn
  <2>7. Fits(s, Len(at')) /\ Len(at) <= Len(at')
        /\ (s.op = "move" => check'[s.check].state # "none") /\ check' = check
    BY <1>1, <1>2, <2>2, <2>3
  <2> HIDE DEF s, n
  <2> QED
    BY <2>1, <2>5, <2>6, <2>7, StepShape
<1>3. CASE SeatComes(i)
  BY <1>1, <1>2, <1>3 DEF SeatComes, Fits, Fields, FreeSlot, FloorType, Row
<1>4. CASE FreeComes(i)
  BY <1>1, <1>2, <1>4 DEF FreeComes, Fits, Fields, FreeSlot
<1>5. CASE LeaveComes(i)
  BY <1>1, <1>2, <1>5 DEF LeaveComes, Fits, Fields, FreeSlot
<1>6. CASE AskComes(i)
  BY <1>1, <1>2, <1>6 DEF AskComes, Fits, Fields, FreeSlot
<1>7. CASE RetractComes(i)
  BY <1>1, <1>2, <1>7 DEF RetractComes, Fits, Fields, FreeSlot
<1>8. CASE PayComes(i)
  BY <1>1, <1>2, <1>8 DEF PayComes, Fits, Fields, FreeSlot
<1>9. CASE OrderComes(i)
  BY <1>1, <1>2, <1>9 DEF OrderComes, Fits, Fields, FreeSlot
<1>10. CASE MoveComes(i)
  BY <1>1, <1>2, <1>10 DEF MoveComes, Fits, Fields, FreeSlot
<1>11. CASE SweepComes(i)
  BY <1>1, <1>2, <1>11 DEF SweepComes, Fits, Fields, FreeSlot
<1>12. CASE RebookComes(i)
  BY <1>1, <1>2, <1>12 DEF RebookComes, Fits, Fields, FreeSlot
<1> QED
  BY <1>3, <1>4, <1>5, <1>6, <1>7, <1>8, <1>9, <1>10, <1>11, <1>12 DEF Comings

\* A statement that is a request of its own.
LEMMA PassingShape ==
  ASSUME Shape, UNCHANGED <<now, table, req, sitting>>, NEW x \in Nat, at' = Append(at, x),
         check' \in [Checks -> Order], booking' \in [Bookings -> Reserved],
         FilesOn
  PROVE  Shape'
<1>1. Len(at) \in Nat /\ at' \in Seq(Nat) /\ Len(at') = Len(at) + 1
  BY Lengths DEF Shape, FloorType
<1>2. FloorType'
  BY <1>1 DEF Shape, FloorType
<1>3. \A i \in Slots : Fits(req'[i], Len(at'))
  BY <1>1, FitsLonger DEF Shape
<1>4. Filed'
  BY DEF Shape, Filed, FilesOn, Fits
<1> QED
  BY <1>2, <1>3, <1>4 DEF Shape

LEMMA DesksShape ==
  ASSUME Shape, Books \/ Withdraws \/ Deletes \/ Restates
  PROVE  Shape'
<1>1. FloorType /\ Len(at) \in Nat /\ NoBooking.window \in Windows /\ 0 \in Nat
  BY TimesExist DEF Shape, FloorType
<1>2. /\ UNCHANGED <<now, table, check, req, sitting>> /\ at' = Append(at, 0)
  BY DEF Books, Withdraws, Deletes, Restates, Passes
<1>3. booking' \in [Bookings -> Reserved]
  <2>1. CASE Books
    BY <1>1, <2>1 DEF Books, FloorType, Reserved
  <2>2. CASE Withdraws
    BY <1>1, <2>2 DEF Withdraws, FloorType, Reserved
  <2>3. CASE Deletes
    <3>1. NoBooking \in Reserved
      BY <1>1 DEF NoBooking, Reserved, Places
    <3> QED
      BY <1>1, <2>3, <3>1 DEF Deletes, FloorType
  <2>4. CASE Restates
    BY <1>1, <2>4 DEF Restates, FloorType, Reserved
  <2> QED
    BY <2>1, <2>2, <2>3, <2>4
<1>4. check' \in [Checks -> Order]
      /\ FilesOn
  BY <1>1, <1>2 DEF FloorType, Shape, Filed, FilesOn
<1> QED
  BY <1>1, <1>2, <1>3, <1>4, PassingShape

LEMMA EndingShape == ASSUME Shape, CheckEnds PROVE Shape'
<1>1. FloorType /\ Len(at) \in Nat /\ 0 \in Nat
  BY DEF Shape, FloorType
<1>2. /\ UNCHANGED <<now, table, booking, req, sitting>> /\ at' = Append(at, 0)
  BY DEF CheckEnds, Passes
<1>3. PICK c \in Checks, state \in {"completed", "cancelled"} :
        check[c].state = "open" /\ check' = [check EXCEPT ![c].state = state]
  BY DEF CheckEnds
<1>4. check' \in [Checks -> Order]
      /\ \A d \in Checks : /\ check'[d].state \in {check[d].state, state}
                           /\ check[d].state # "none" => check'[d].state # "none"
                           /\ check[d].state = "none" => check'[d].state = "none"
                           /\ check'[d].table = check[d].table
  BY <1>1, <1>3 DEF FloorType, Order
<1>5. ASSUME NEW d \in Checks PROVE /\ check'[d].state # "none" => check'[d].table \in Tables
                                    /\ check[d].state # "none" => check'[d].state # "none"
  <2>1. /\ check[d].state # "none" => check'[d].state # "none"
        /\ check[d].state = "none" => check'[d].state = "none"
        /\ check'[d].table = check[d].table
    BY <1>4, <1>5
  <2>2. check[d].state # "none" => check[d].table \in Tables
    BY <1>5 DEF Shape, Filed
  <2> QED
    BY <2>1, <2>2
<1>6. booking' \in [Bookings -> Reserved]
  BY <1>1, <1>2 DEF FloorType
<1>7. FilesOn
  BY <1>5 DEF FilesOn
<1> QED
  BY <1>1, <1>2, <1>4, <1>6, <1>7, PassingShape

LEMMA ShapeAtFirst == Init => Shape
<1> SUFFICES ASSUME Init PROVE Shape
  OBVIOUS
<1>1. PICK o \in Openings :
        /\ table = [t \in Tables |->
                     [status |-> IF o.room[t] = "empty" THEN "available" ELSE "occupied",
                      seated |-> IF o.room[t] = "party" THEN 1 ELSE 0, bill |-> FALSE]]
        /\ check = [c \in Checks |->
                     [state |-> IF o.tab[c] = None THEN "none" ELSE "open",
                      table |-> o.tab[c], paid |-> FALSE, asked |-> FALSE, arrived |-> 1]]
        /\ sitting = [t \in Tables |->
              IF o.room[t] = "party" THEN {[who |-> 1, since |-> 1, displaced |-> FALSE]} ELSE {}]
  BY DEF Init
<1>2. o.tab \in [Checks -> Tables \cup {None}]
  BY OpeningsAssumption DEF Opening
<1>3. table \in [Tables -> Row]
  BY <1>1 DEF Row
<1>4. check \in [Checks -> Order] /\ \A c \in Checks : check[c].state # "none" => check[c].table \in Tables
  BY <1>1, <1>2 DEF Order, Places
<1>5. sitting \in [Tables -> SUBSET Party]
  BY <1>1 DEF Party
<1>6. NoBooking \in Reserved
  BY TimesExist DEF NoBooking, Reserved, Places
<1>7. now = 0 /\ at = <<0>> /\ at \in Seq(Nat) /\ Len(at) = 1
  BY DEF Init
<1>8. booking \in [Bookings -> Reserved] /\ DOMAIN req = Slots
      /\ \A i \in Slots : req[i] = FreeSlot
  BY <1>6 DEF Init
<1>9. FloorType
  BY <1>3, <1>4, <1>5, <1>7, <1>8 DEF FloorType
<1>10. Filed /\ \A i \in Slots : Fits(req[i], Len(at))
  BY <1>4, <1>7, <1>8, IdleFits DEF Filed
<1> QED
  BY <1>9, <1>10 DEF Shape

LEMMA ShapeKept == Shape /\ [Next]_vars => Shape'
<1> SUFFICES ASSUME Shape, [Next]_vars PROVE Shape'
  OBVIOUS
<1>1. CASE UNCHANGED vars \/ Tick
  <2>1. UNCHANGED <<at, table, check, booking, req, sitting>> /\ now' \in Nat
    BY <1>1 DEF vars, clock, past, Tick, Shape, FloorType
  <2> QED
    BY <2>1 DEF Shape, FloorType, Filed, Fits
<1>2. ASSUME NEW i \in Slots,
             \/ Comings(i) \/ Seating(i) \/ Clearing(i) \/ Billing(i) \/ Ordering(i)
             \/ Moving(i) \/ Sweeping(i) \/ Rebooking(i) \/ Dies(i)
      PROVE  Shape'
  BY <1>2, ComingsShape, SeatingShape, ClearingShape, BillingShape, OrderingShape,
     MovingShape, SweepingShape, RebookingShape, DyingShape
<1>3. CASE Books \/ Withdraws \/ Deletes \/ Restates \/ CheckEnds
  BY <1>3, DesksShape, EndingShape
<1> QED
  BY <1>1, <1>2, <1>3 DEF Next

-----------------------------------------------------------------------------
(* Bookings.                                                               *)

\* What clashes with the edit that request i is about to write came, or was given its
\* time, after the request began.
Looked(i) == At(i, "rebook", "write") =>
  \A d \in Clashes(req[i].booking, req[i].dest, req[i].window) : booking[d].written >= req[i].n

BooksInv == Shape /\ NoDoubleBooking /\ \A i \in Slots : Looked(i)

\* A step that leaves the bookings alone, and begins no write of an edit.
LEMMA BooksStay ==
  ASSUME BooksInv, Shape', UNCHANGED <<booking, contested>>,
         \A i \in Slots : At(i, "rebook", "write")' => req'[i] = req[i]
  PROVE  BooksInv'
BY DEF BooksInv, NoDoubleBooking, Looked, Clashes, Active, At

LEMMA Edited ==
  ASSUME BooksInv, Shape', NEW b \in Bookings,
         \A d \in Bookings \ {b} : booking'[d] = booking[d],
         Active(b)' => \/ Active(b) /\ UNCHANGED booking
                       \/ booking'[b].written = Len(at),
         \A i \in Slots : At(i, "rebook", "write")' => req'[i] = req[i]
  PROVE  \A i \in Slots : Looked(i)'
<1> SUFFICES ASSUME NEW i \in Slots, At(i, "rebook", "write")',
                    NEW d \in Clashes(req[i].booking, req[i].dest, req[i].window)'
             PROVE  booking'[d].written >= req'[i].n
  BY DEF Looked
<1>1. req'[i] = req[i] /\ At(i, "rebook", "write") /\ Fits(req[i], Len(at)) /\ Len(at) \in Nat
  BY DEF At, BooksInv, Shape, FloorType
<1>2. req[i].n \in 1 .. Len(at)
  BY <1>1 DEF Fits, At
<1>3. CASE d = b /\ booking'[b].written = Len(at)
  BY <1>1, <1>2, <1>3
<1>4. CASE booking'[d] = booking[d]
  <2>1. d \in Clashes(req[i].booking, req[i].dest, req[i].window)
    BY <1>1, <1>4 DEF Clashes, Active
  <2> QED
    BY <1>1, <1>4, <2>1 DEF BooksInv, Looked
<1> QED
  BY <1>3, <1>4 DEF Clashes, Active

\* A booking that no other clashes with, or that is marked, does not break the property.
LEMMA NoneClashes ==
  ASSUME NoDoubleBooking, NEW b \in Bookings,
         \A d \in Bookings \ {b} : booking'[d] = booking[d] /\ (d \in contested' <=> d \in contested),
         \/ ~Active(b)'
         \/ b \in contested'
         \/ Clashes(b, booking'[b].table, booking'[b].window) = {}
         \/ booking'[b] = booking[b] /\ (b \in contested => b \in contested')
  PROVE  NoDoubleBooking'
<1> SUFFICES ASSUME NEW c \in Bookings, NEW d \in Bookings, c # d, Active(c)', Active(d)',
                    booking'[c].table = booking'[d].table, booking'[c].table # None,
                    Overlap(booking'[c].window, booking'[d].window)
             PROVE  c \in contested' \/ d \in contested'
  BY DEF NoDoubleBooking, Active, Overlap
<1>1. CASE b \notin {c, d} \/ (booking'[b] = booking[b] /\ (b \in contested => b \in contested'))
  BY <1>1 DEF NoDoubleBooking, Active
<1>2. CASE b \in {c, d} /\ Clashes(b, booking'[b].table, booking'[b].window) = {}
  <2>1. PICK e \in {c, d} : e # b
    OBVIOUS
  <2>2. e \in Bookings \ {b} /\ booking'[e] = booking[e] /\ Active(e)
    BY <2>1 DEF Active
  <2>3. e \notin Clashes(b, booking'[b].table, booking'[b].window)
    BY <1>2
  <2>4. booking[e].table = booking'[b].table /\ booking'[b].table # None
        /\ Overlap(booking[e].window, booking'[b].window)
    BY <1>2, <2>1, <2>2 DEF Overlap
  <2> QED
    BY <2>2, <2>3, <2>4 DEF Clashes
<1> QED
  BY <1>1, <1>2

LEMMA DesksKeepBooks == ASSUME BooksInv, Books \/ Withdraws \/ Deletes \/ Restates PROVE BooksInv'
<1>1. Shape'
  BY DesksShape DEF BooksInv
<1>2. FloorType /\ NoDoubleBooking /\ UNCHANGED req
  BY DEF BooksInv, Shape, Books, Withdraws, Deletes, Restates
<1>3. \A i \in Slots : At(i, "rebook", "write")' => req'[i] = req[i]
  BY <1>2
<1>4. CASE Books
  <2>1. PICK b \in Bookings, t \in Places, w \in Windows :
          /\ Clashes(b, t, w) = {}
          /\ booking' = [booking EXCEPT ![b] = [status |-> "active", gone |-> FALSE, table |-> t,
                                               window |-> w, written |-> Len(at)]]
          /\ contested' = contested \ {b}
    BY <1>4 DEF Books
  <2>2. /\ booking'[b].table = t /\ booking'[b].window = w /\ booking'[b].written = Len(at)
        /\ \A d \in Bookings \ {b} : booking'[d] = booking[d]
    BY <1>2, <2>1 DEF FloorType
  <2>3. NoDoubleBooking'
    BY <1>2, <2>1, <2>2, NoneClashes
  <2> QED
    BY <1>1, <1>3, <2>2, <2>3, Edited DEF BooksInv
<1>5. CASE Withdraws \/ Deletes
  <2>1. PICK b \in Bookings : /\ \/ booking' = [booking EXCEPT ![b].status = "cancelled", ![b].gone = TRUE]
                                 \/ booking' = [booking EXCEPT ![b] = NoBooking]
                              /\ UNCHANGED contested
    BY <1>5 DEF Withdraws, Deletes, past
  <2>2. ~Active(b)' /\ \A d \in Bookings \ {b} : booking'[d] = booking[d]
    BY <1>2, <2>1 DEF FloorType, Reserved, Active, NoBooking
  <2>3. NoDoubleBooking'
    BY <1>2, <2>1, <2>2, NoneClashes
  <2> QED
    BY <1>1, <1>3, <2>2, <2>3, Edited DEF BooksInv
<1>6. CASE Restates
  <2>1. PICK b \in Bookings, status \in {"active", "seated", "cancelled"} :
          /\ booking' = [booking EXCEPT ![b].status = status, ![b].written = Len(at)]
          /\ contested' = IF status = "active" THEN contested \cup {b} ELSE contested
    BY <1>6 DEF Restates
  <2>2. /\ booking'[b].status = status /\ booking'[b].written = Len(at)
        /\ \A d \in Bookings \ {b} : booking'[d] = booking[d]
    BY <1>2, <2>1 DEF FloorType, Reserved
  <2>3. ~Active(b)' \/ b \in contested'
    BY <2>1, <2>2 DEF Active
  <2>4. NoDoubleBooking'
    BY <1>2, <2>1, <2>2, <2>3, NoneClashes
  <2> QED
    BY <1>1, <1>3, <2>2, <2>4, Edited DEF BooksInv
<1> QED
  BY <1>4, <1>5, <1>6

\* A manager who seats a party on a booked table releases the booking.
LEMMA ReleaseKeepsBooks == ASSUME BooksInv, NEW i \in Slots, SeatReleases(i) PROVE BooksInv'
<1>1. Shape'
  BY SeatingShape DEF BooksInv, Seating
<1>2. FloorType /\ NoDoubleBooking /\ UNCHANGED contested
  BY DEF BooksInv, Shape, SeatReleases, past
<1>3. \A j \in Slots : At(j, "rebook", "write")' => req'[j] = req[j]
  BY <1>2 DEF SeatReleases, At, Proceeds, Goes, FloorType, BooksInv, Shape, Fits, Fields, FreeSlot
<1>4. CASE UNCHANGED booking
  BY <1>1, <1>2, <1>3, <1>4, BooksStay
<1>5. CASE booking' = [booking EXCEPT ![req[i].booking].status = "cancelled", ![req[i].booking].gone = TRUE]
           /\ req[i].booking \in Bookings
  <2>1. PICK b \in Bookings :
          booking' = [booking EXCEPT ![b].status = "cancelled", ![b].gone = TRUE]
    BY <1>5
  <2>2. ~Active(b)' /\ \A d \in Bookings \ {b} : booking'[d] = booking[d]
    BY <1>2, <2>1 DEF FloorType, Reserved, Active
  <2>3. NoDoubleBooking'
    BY <1>2, <2>1, <2>2, NoneClashes
  <2> QED
    BY <1>1, <1>3, <2>1, <2>2, <2>3, Edited DEF BooksInv
<1>6. req[i].booking \notin Bookings => booking' = booking
  BY <1>2 DEF SeatReleases, FloorType
<1> QED
  BY <1>4, <1>5, <1>6 DEF SeatReleases

LEMMA RebookingKeepsBooks == ASSUME BooksInv, NEW i \in Slots, Rebooking(i) PROVE BooksInv'
<1>1. Shape'
  BY RebookingShape DEF BooksInv
<1>2. /\ FloorType /\ NoDoubleBooking /\ Fits(req[i], Len(at)) /\ Len(at) \in Nat
      /\ Fits(FreeSlot, Len(at)) /\ FreeSlot.op = "none"
  BY IdleFits DEF BooksInv, Shape, FloorType
<1>3. CASE RebookChecks(i)
  <2>1. CASE Answers(i)
    <3>1. \A j \in Slots : At(j, "rebook", "write")' => req'[j] = req[j]
      BY <1>2, <2>1, OneGoes DEF Answers, At, FloorType
    <3> QED
      BY <1>1, <1>3, <3>1, BooksStay DEF RebookChecks, past
  <2>2. CASE Proceeds(i, "write") /\ Clashes(req[i].booking, req[i].dest, req[i].window) = {}
    <3> DEFINE s == OnTo(req[i], "write")
    <3>1. /\ req'[i] = s /\ \A j \in Slots \ {i} : req'[j] = req[j]
      BY <1>2, <2>2, OneGoes DEF Proceeds, OnTo, FloorType
    <3>2. s.booking = req[i].booking /\ s.dest = req[i].dest /\ s.window = req[i].window
      BY <1>2, <1>3, GoesOn DEF RebookChecks, At
    <3>3. UNCHANGED <<booking, contested>>
      BY <1>3 DEF RebookChecks, past
    <3> HIDE DEF s
    <3>4. Clashes(req[i].booking, req[i].dest, req[i].window)' = {}
      BY <2>2, <3>1, <3>2, <3>3 DEF Clashes, Active
    <3>5. \A j \in Slots : Looked(j)'
      BY <3>1, <3>3, <3>4 DEF Looked, BooksInv, At, Clashes, Active
    <3>6. NoDoubleBooking'
      BY <1>2, <3>3 DEF NoDoubleBooking, Active
    <3> QED
      BY <1>1, <3>5, <3>6 DEF BooksInv
  <2> QED
    BY <1>3, <2>1, <2>2 DEF RebookChecks
<1>4. CASE RebookWrites(i)
  <2> DEFINE r == req[i]
             b == r.booking
  <2>1. \A j \in Slots : At(j, "rebook", "write")' => req'[j] = req[j]
    BY <1>2, <1>4, OneGoes DEF RebookWrites, Answers, At, FloorType
  <2>2. CASE booking[b].status = "none"
    BY <1>1, <1>4, <2>1, <2>2, BooksStay DEF RebookWrites
  <2>3. CASE booking[b].status # "none"
    <3>1. /\ b \in Bookings
          /\ booking' = [booking EXCEPT ![b].table = r.dest, ![b].window = r.window,
                                       ![b].written = Len(at)]
          /\ contested' = IF \E d \in Clashes(b, r.dest, r.window) : booking[d].written >= r.n
                          THEN contested \cup {b} ELSE contested \ {b}
      BY <1>2, <1>4, <2>3 DEF RebookWrites, At, Fits
    <3>2. /\ booking'[b].table = r.dest /\ booking'[b].window = r.window
          /\ booking'[b].written = Len(at)
          /\ \A d \in Bookings \ {b} : booking'[d] = booking[d]
      BY <1>2, <3>1 DEF FloorType, Reserved
    <3>3. \A d \in Clashes(b, r.dest, r.window) : booking[d].written >= r.n
      BY <1>4 DEF BooksInv, Looked, RebookWrites
    <3>4. b \in contested' \/ Clashes(b, r.dest, r.window) = {}
      BY <3>1, <3>3
    <3>5. \A d \in Bookings \ {b} : d \in contested' <=> d \in contested
      BY <3>1
    <3> HIDE DEF r, b
    <3>6. NoDoubleBooking'
      BY <1>2, <3>1, <3>2, <3>4, <3>5, NoneClashes
    <3> QED
      BY <1>1, <2>1, <3>1, <3>2, <3>6, Edited DEF BooksInv
  <2> QED
    BY <2>2, <2>3
<1> QED
  BY <1>3, <1>4 DEF Rebooking

\* A statement of a request other than an edit of a booking.
Serves(i) == \/ Seating(i) \/ Clearing(i) \/ Billing(i) \/ Ordering(i) \/ Moving(i) \/ Sweeping(i)

\* The others stay where they are, and this one does not turn into another.
LEMMA OneServed ==
  ASSUME Shape, NEW i \in Slots, Serves(i)
  PROVE  /\ \A j \in Slots \ {i} : req'[j] = req[j]
         /\ req'[i].op \in {req[i].op, "none"} /\ req[i].op # "rebook"
<1>1. DOMAIN req = Slots /\ DOMAIN req[i] = Fields /\ {"op", "pc", "todo"} \subseteq Fields
      /\ FreeSlot.op = "none"
  BY IdleFits DEF Shape, FloorType, Fits, Fields, FreeSlot
<1>2. ASSUME NEW r, Goes(i, r), r.op \in {req[i].op, "none"}
      PROVE  /\ \A j \in Slots \ {i} : req'[j] = req[j]
             /\ req'[i].op \in {req[i].op, "none"}
  BY <1>1, <1>2, OneGoes
<1>3. ASSUME NEW pc, Proceeds(i, pc)
      PROVE  /\ \A j \in Slots \ {i} : req'[j] = req[j]
             /\ req'[i].op \in {req[i].op, "none"}
  BY <1>1, <1>3, OneGoes DEF Proceeds
<1>4. ASSUME Answers(i)
      PROVE  /\ \A j \in Slots \ {i} : req'[j] = req[j]
             /\ req'[i].op \in {req[i].op, "none"}
  BY <1>1, <1>4, OneGoes DEF Answers
<1>5. CASE Seating(i)
  BY <1>1, <1>2, <1>3, <1>4, <1>5
     DEF Seating, SeatLooks, SeatChecksHold, SeatReleases, SeatClaims, SeatWrites, At
<1>6. CASE Clearing(i)
  BY <1>3, <1>4, <1>6
     DEF Clearing, FreeLooks, FreeChecksBills, FreeClears, FreeHushes, LeaveHushes, LeaveWrites, At
<1>7. CASE Billing(i)
  BY <1>1, <1>2, <1>3, <1>4, <1>7
     DEF Billing, AskLooks, AskReadsStamp, AskStamps, AskTells, RetractHushes, PayReads,
         PaySettles, PayHushes, At
<1>8. CASE Ordering(i)
  BY <1>3, <1>4, <1>8 DEF Ordering, OrderInserts, OrderPeeks, OrderSeats, At
<1>9. CASE Moving(i)
  BY <1>1, <1>2, <1>3, <1>4, <1>9
     DEF Moving, MoveLooks, MoveSeesDest, MoveChecksHold, MoveRefiles, MoveSits,
         MoveCountsRest, MoveVacates, At
<1>10. CASE Sweeping(i)
  BY <1>1, <1>2, <1>4, <1>10 DEF Sweeping, SweepReads, SweepReadsBills, SweepTurns, At
<1> QED
  BY <1>5, <1>6, <1>7, <1>8, <1>9, <1>10 DEF Serves

LEMMA ServiceKeepsBooks == ASSUME BooksInv, NEW i \in Slots, Serves(i) PROVE BooksInv'
<1>1. Shape'
  BY SeatingShape, ClearingShape, BillingShape, OrderingShape, MovingShape, SweepingShape
     DEF BooksInv, Serves
<1>2. CASE SeatReleases(i)
  BY <1>2, ReleaseKeepsBooks
<1>3. CASE ~SeatReleases(i)
  <2>1. UNCHANGED <<booking, contested>>
    <3>1. CASE Seating(i)
      BY <1>3, <3>1 DEF Seating, SeatLooks, SeatChecksHold, SeatClaims, SeatWrites, past
    <3>2. CASE Clearing(i) \/ Sweeping(i)
      BY <3>2 DEF Clearing, FreeLooks, FreeChecksBills, FreeClears, FreeHushes, LeaveHushes,
                  LeaveWrites, Sweeping, SweepReads, SweepReadsBills, SweepTurns, past
    <3>3. CASE Billing(i) \/ Ordering(i)
      BY <3>3 DEF Billing, AskLooks, AskReadsStamp, AskStamps, AskTells, RetractHushes, PayReads,
                  PaySettles, PayHushes, Ordering, OrderInserts, OrderPeeks, OrderSeats, past
    <3>4. CASE Moving(i)
      BY <3>4 DEF Moving, MoveLooks, MoveSeesDest, MoveChecksHold, MoveRefiles, MoveSits,
                  MoveCountsRest, MoveVacates, past
    <3> QED
      BY <3>1, <3>2, <3>3, <3>4 DEF Serves
  <2>2. \A j \in Slots : At(j, "rebook", "write")' => req'[j] = req[j]
    BY OneServed DEF BooksInv, At
  <2> QED
    BY <1>1, <2>1, <2>2, BooksStay
<1> QED
  BY <1>2, <1>3

\* A request that arrives has looked at nothing, and one that stops does nothing more.
Begins(r) ==
  /\ DOMAIN r = Fields
  /\ r.pc \in {"look", "hush", "insert", "clash"}
  /\ r.op \in {"free", "order"} => r.pc \in {"look", "insert"}
  /\ r.op \in {"move", "sweep"} => r.pc = "look"

\* What the arrival of a request in slot i changes.
Arrived(i) ==
  /\ \A j \in Slots \ {i} : req'[j] = req[j]
  /\ req'[i].pc \in {"look", "hush", "insert", "clash"}
  /\ req'[i].op \in {"free", "order"} => req'[i].pc \in {"look", "insert"}
  /\ req'[i].op \in {"move", "sweep"} => req'[i].pc = "look"
  /\ UNCHANGED <<table, check, booking, sitting, contested, adrift>>

LEMMA OneArrives == ASSUME Shape, NEW i \in Slots, Comings(i) PROVE Arrived(i)
<1>1. DOMAIN req = Slots /\ {"op", "pc", "n"} \subseteq Fields
  BY DEF Shape, FloorType, Fields, FreeSlot
<1>2. ASSUME NEW r, Comes(i, r), Begins(r)
      PROVE  Arrived(i)
  <2> DEFINE s == [r EXCEPT !.n = Len(at) + 1]
  <2>1. s.op = r.op /\ s.pc = r.pc
    BY <1>1, <1>2 DEF Begins
  <2>2. Goes(i, s)
    BY <1>2 DEF Comes
  <2> HIDE DEF s
  <2>3. req'[i] = s /\ \A j \in Slots \ {i} : req'[j] = req[j]
    BY <1>1, <2>2, OneGoes
  <2> QED
    BY <1>2, <2>1, <2>3 DEF Comes, Begins, Arrived, past
<1>3. CASE SeatComes(i)
  BY <1>2, <1>3 DEF SeatComes, Begins, FreeSlot, Fields
<1>4. CASE FreeComes(i)
  BY <1>2, <1>4 DEF FreeComes, Begins, FreeSlot, Fields
<1>5. CASE LeaveComes(i)
  BY <1>2, <1>5 DEF LeaveComes, Begins, FreeSlot, Fields
<1>6. CASE AskComes(i)
  BY <1>2, <1>6 DEF AskComes, Begins, FreeSlot, Fields
<1>7. CASE RetractComes(i)
  BY <1>2, <1>7 DEF RetractComes, Begins, FreeSlot, Fields
<1>8. CASE PayComes(i)
  BY <1>2, <1>8 DEF PayComes, Begins, FreeSlot, Fields
<1>9. CASE OrderComes(i)
  BY <1>2, <1>9 DEF OrderComes, Begins, FreeSlot, Fields
<1>10. CASE MoveComes(i)
  BY <1>2, <1>10 DEF MoveComes, Begins, FreeSlot, Fields
<1>11. CASE SweepComes(i)
  BY <1>2, <1>11 DEF SweepComes, Begins, FreeSlot, Fields
<1>12. CASE RebookComes(i)
  BY <1>2, <1>12 DEF RebookComes, Begins, FreeSlot, Fields
<1> QED
  BY <1>3, <1>4, <1>5, <1>6, <1>7, <1>8, <1>9, <1>10, <1>11, <1>12 DEF Comings

LEMMA OneDies ==
  ASSUME Shape, NEW i \in Slots, Dies(i)
  PROVE  /\ \A j \in Slots \ {i} : req'[j] = req[j]
         /\ req'[i] = FreeSlot
         /\ UNCHANGED <<clock, table, check, booking, sitting, contested>>
<1>1. DOMAIN req = Slots
  BY DEF Shape, FloorType
<1> QED
  BY <1>1, OneGoes DEF Dies, Answers

LEMMA BooksKept == BooksInv /\ [Next]_vars => BooksInv'
<1> SUFFICES ASSUME BooksInv, [Next]_vars PROVE BooksInv'
  OBVIOUS
<1>1. Shape /\ Shape'
  BY ShapeKept DEF BooksInv
<1>2. CASE UNCHANGED vars \/ Tick \/ CheckEnds
  BY <1>1, <1>2, BooksStay DEF vars, past, Tick, CheckEnds
<1>3. CASE Books \/ Withdraws \/ Deletes \/ Restates
  BY <1>3, DesksKeepBooks
<1>4. ASSUME NEW i \in Slots, Comings(i) PROVE BooksInv'
  BY <1>1, <1>4, OneArrives, BooksStay DEF At, Arrived
<1>5. ASSUME NEW i \in Slots, Serves(i) PROVE BooksInv'
  BY <1>5, ServiceKeepsBooks
<1>6. ASSUME NEW i \in Slots, Rebooking(i) PROVE BooksInv'
  BY <1>6, RebookingKeepsBooks
<1>7. ASSUME NEW i \in Slots, Dies(i) PROVE BooksInv'
  BY <1>1, <1>7, OneDies, IdleFits, BooksStay DEF At
<1> QED
  BY <1>2, <1>3, <1>4, <1>5, <1>6, <1>7 DEF Next, Serves

LEMMA BooksAtFirst == Init => BooksInv
<1> SUFFICES ASSUME Init PROVE BooksInv
  OBVIOUS
<1>1. Shape
  BY ShapeAtFirst
<1>2. (\A b \in Bookings : booking[b].status = "none") /\ \A i \in Slots : req[i].op = "none"
  BY IdleFits DEF Init, NoBooking
<1> QED
  BY <1>1, <1>2 DEF BooksInv, NoDoubleBooking, Active, Looked, At

\* Two active bookings of one table overlap only where a bare status revived one or an
\* edit crossed a write of another: the insert is conditional, and an edit that found
\* no clash meets only bookings written since it began (reservations.js, booking.js).
THEOREM BookingsDoNotOverlap == Spec => []NoDoubleBooking
<1>1. BooksInv => NoDoubleBooking
  BY DEF BooksInv
<1> QED
  BY <1>1, BooksAtFirst, BooksKept, PTL DEF Spec

-----------------------------------------------------------------------------
(* Parties.                                                                *)

\* A table that may be claimed holds nobody, but parties that were displaced.
OneSits ==
  /\ OneParty
  /\ \A t \in Tables : Claimable(t) => \A p \in sitting[t] : p.displaced

SeatsInv == Shape /\ OneSits

\* The parties stay, and no table becomes claimable.
LEMMA PartiesStay ==
  ASSUME OneSits, UNCHANGED sitting, \A t \in Tables : Claimable(t)' => Claimable(t)
  PROVE  OneSits'
BY DEF OneSits, OneParty

LEMMA RowsStay ==
  ASSUME FloorType, OneSits, UNCHANGED sitting, NEW t, NEW stamp \in Nat \ {0},
         \/ UNCHANGED table
         \/ Hushes(t)
         \/ table' = [table EXCEPT ![t].bill = TRUE]
         \/ table' = [table EXCEPT ![t].seated = stamp]
         \/ Seats(t, stamp)
  PROVE  OneSits'
<1>1. ASSUME NEW u \in Tables PROVE Claimable(u)' => Claimable(u)
  <2>1. CASE UNCHANGED table
    BY <2>1 DEF Claimable
  <2>2. ASSUME NEW bill, table' = [table EXCEPT ![t].bill = bill] PROVE Claimable(u)' => Claimable(u)
    <3>1. table'[u].status = table[u].status /\ table'[u].seated = table[u].seated
      BY <1>1, <2>2 DEF FloorType, Row
    <3> QED
      BY <3>1 DEF Claimable
  <2>3. CASE table' = [table EXCEPT ![t].seated = stamp]
    BY <1>1, <2>3 DEF FloorType, Row, Claimable
  <2>4. CASE Seats(t, stamp)
    BY <1>1, <2>4 DEF FloorType, Row, Seats, Claimable
  <2> QED
    BY <2>1, <2>2, <2>3, <2>4 DEF Hushes
<1> QED
  BY <1>1, PartiesStay

\* A party sits down, on a table that may be claimed or over another party.
LEMMA PartySits ==
  ASSUME FloorType, OneSits, NEW t \in Tables, NEW stamp \in Nat \ {0}, NEW who,
         NEW displaced \in BOOLEAN, Claimable(t) \/ displaced,
         Seats(t, stamp), Sits(t, who, displaced)
  PROVE  OneSits'
<1> DEFINE new == [who |-> who, since |-> Len(at), displaced |-> displaced]
<1>1. /\ sitting'[t] = {p \in sitting[t] : p.who # who} \cup {new}
      /\ \A u \in Tables \ {t} : sitting'[u] = sitting[u]
  BY DEF FloorType, Sits
<1>2. /\ ~Claimable(t)' /\ \A u \in Tables \ {t} : Claimable(u)' => Claimable(u)
  BY DEF FloorType, Row, Seats, Claimable
<1>3. new.displaced = displaced
  OBVIOUS
<1> HIDE DEF new
<1>4. ASSUME NEW p \in sitting'[t], NEW q \in sitting'[t], ~p.displaced, ~q.displaced
      PROVE  p = q
  <2>1. CASE displaced
    BY <1>1, <1>3, <1>4, <2>1 DEF OneSits, OneParty
  <2>2. CASE Claimable(t)
    BY <1>1, <1>4, <2>2 DEF OneSits
  <2> QED
    BY <2>1, <2>2
<1>5. OneParty'
  BY <1>1, <1>4 DEF OneSits, OneParty
<1> QED
  BY <1>1, <1>2, <1>5 DEF OneSits

\* A table is cleared: who is still there has been displaced.
LEMMA PartiesLeave ==
  ASSUME FloorType, OneSits, NEW t \in Tables, NEW i, Leaves(i, t),
         \A u \in Tables \ {t} : Claimable(u)' => Claimable(u)
  PROVE  OneSits'
<1>1. /\ sitting'[t] = {[p EXCEPT !.displaced = TRUE] : p \in sitting[t] \ Known(i, t)}
      /\ \A u \in Tables \ {t} : sitting'[u] = sitting[u]
  BY DEF FloorType, Leaves
<1>2. \A p \in Party : [p EXCEPT !.displaced = TRUE].displaced
  BY DEF Party
<1>3. \A p \in sitting'[t] : p.displaced
  BY <1>1, <1>2 DEF FloorType
<1> QED
  BY <1>1, <1>3 DEF OneSits, OneParty

LEMMA OthersAsTheyWere ==
  ASSUME FloorType, NEW t, NEW status, Clears(t, status)
  PROVE  \A u \in Tables \ {t} : Claimable(u)' => Claimable(u)
BY DEF FloorType, Clears, Claimable

LEMMA SeatingKeepsParties == ASSUME SeatsInv, NEW i \in Slots, Seating(i) PROVE OneSits'
<1>1. FloorType /\ OneSits /\ Fits(req[i], Len(at)) /\ {1} \subseteq Nat \ {0} /\ 1 \in Nat \ {0}
  BY DEF SeatsInv, Shape
<1>2. req[i].table \in Tables /\ req[i].stamp \in Nat \ {0}
  BY <1>1 DEF Seating, SeatLooks, SeatChecksHold, SeatReleases, SeatClaims, SeatWrites, At, Fits
<1>3. CASE SeatLooks(i) \/ SeatChecksHold(i) \/ SeatReleases(i)
  BY <1>1, <1>3, RowsStay DEF SeatLooks, SeatChecksHold, SeatReleases
<1>4. CASE SeatClaims(i)
  <2>1. CASE UNCHANGED <<table, sitting>>
    BY <1>1, <2>1, RowsStay
  <2>2. CASE Claimable(req[i].table) /\ Seats(req[i].table, req[i].stamp)
             /\ Sits(req[i].table, req[i].n, FALSE)
    BY <1>1, <1>2, <2>2, PartySits
  <2> QED
    BY <1>4, <2>1, <2>2 DEF SeatClaims
<1>5. CASE SeatWrites(i)
  <2>1. CASE Seats(req[i].table, req[i].stamp) /\ UNCHANGED sitting
    BY <1>1, <1>2, <2>1, RowsStay
  <2>2. CASE Seats(req[i].table, req[i].stamp) /\ Sits(req[i].table, req[i].n, TRUE)
    BY <1>1, <1>2, <2>2, PartySits
  <2> QED
    BY <1>5, <2>1, <2>2 DEF SeatWrites
<1> QED
  BY <1>3, <1>4, <1>5 DEF Seating

LEMMA ClearingKeepsParties == ASSUME SeatsInv, NEW i \in Slots, Clearing(i) PROVE OneSits'
<1>1. FloorType /\ OneSits /\ Fits(req[i], Len(at)) /\ 1 \in Nat \ {0}
  BY DEF SeatsInv, Shape
<1>2. req[i].table \in Tables
  BY <1>1 DEF Clearing, FreeLooks, FreeChecksBills, FreeClears, FreeHushes, LeaveHushes,
              LeaveWrites, At, Fits
<1>3. CASE FreeLooks(i) \/ FreeChecksBills(i) \/ FreeHushes(i) \/ LeaveHushes(i)
  BY <1>1, <1>3, RowsStay DEF FreeLooks, FreeChecksBills, FreeHushes, LeaveHushes
<1>4. CASE FreeClears(i)
  BY <1>1, <1>2, <1>4, OthersAsTheyWere, PartiesLeave DEF FreeClears
<1>5. CASE LeaveWrites(i)
  BY <1>1, <1>2, <1>5, OthersAsTheyWere, PartiesLeave DEF LeaveWrites
<1> QED
  BY <1>3, <1>4, <1>5 DEF Clearing

LEMMA BillingKeepsParties == ASSUME SeatsInv, NEW i \in Slots, Billing(i) PROVE OneSits'
<1>1. FloorType /\ OneSits /\ 1 \in Nat \ {0}
  BY DEF SeatsInv, Shape
<1>2. CASE AskLooks(i) \/ AskReadsStamp(i) \/ AskTells(i) \/ PayReads(i) \/ PaySettles(i)
  BY <1>1, <1>2, RowsStay DEF AskLooks, AskReadsStamp, AskTells, PayReads, PaySettles
<1>3. CASE AskStamps(i) \/ RetractHushes(i)
  BY <1>1, <1>3, RowsStay DEF AskStamps, RetractHushes
<1>4. CASE PayHushes(i)
  BY <1>1, <1>4, RowsStay DEF PayHushes
<1> QED
  BY <1>2, <1>3, <1>4 DEF Billing

LEMMA OrderingKeepsParties == ASSUME SeatsInv, NEW i \in Slots, Ordering(i) PROVE OneSits'
<1>1. FloorType /\ OneSits /\ Fits(req[i], Len(at)) /\ 1 \in Nat \ {0} /\ FALSE \in BOOLEAN
      /\ Len(at) \in Nat
  BY DEF SeatsInv, Shape, FloorType
<1>2. CASE OrderInserts(i) \/ OrderPeeks(i)
  BY <1>1, <1>2, RowsStay DEF OrderInserts, OrderPeeks
<1>3. CASE OrderSeats(i)
  <2>1. req[i].table \in Tables /\ req[i].n \in Nat \ {0}
    BY <1>1, <1>3 DEF OrderSeats, At, Fits
  <2>2. CASE UNCHANGED <<table, sitting>>
    BY <1>1, <2>2, RowsStay
  <2>3. CASE table[req[i].table].status # "occupied" /\ Seats(req[i].table, req[i].n)
             /\ Sits(req[i].table, req[i].n, FALSE)
    BY <1>1, <2>1, <2>3, PartySits DEF Claimable
  <2> QED
    BY <1>3, <2>2, <2>3 DEF OrderSeats
<1> QED
  BY <1>2, <1>3 DEF Ordering

LEMMA MovingKeepsParties == ASSUME SeatsInv, NEW i \in Slots, Moving(i) PROVE OneSits'
<1>1. FloorType /\ OneSits /\ Fits(req[i], Len(at)) /\ 1 \in Nat \ {0} /\ Len(at) \in Nat
  BY DEF SeatsInv, Shape, FloorType
<1>2. CASE MoveLooks(i) \/ MoveSeesDest(i) \/ MoveChecksHold(i) \/ MoveRefiles(i) \/ MoveCountsRest(i)
  BY <1>1, <1>2, RowsStay DEF MoveLooks, MoveSeesDest, MoveChecksHold, MoveRefiles, MoveCountsRest
<1>3. CASE MoveSits(i)
  <2> DEFINE t == req[i].dest
             stamp == IF table[t].seated = 0 THEN req[i].n ELSE table[t].seated
  <2>1. t \in Tables /\ req[i].n \in Nat \ {0}
    BY <1>1, <1>3 DEF MoveSits, At, Fits
  <2>2. stamp \in Nat \ {0}
    BY <1>1, <2>1 DEF FloorType, Row
  <2>3. Seats(t, stamp) /\ Sits(t, req[i].n, table[t].status = "occupied")
    BY <1>3 DEF MoveSits
  <2>4. (table[t].status = "occupied") \in BOOLEAN
    OBVIOUS
  <2>5. Claimable(t) \/ (table[t].status = "occupied")
    BY DEF Claimable
  <2> HIDE DEF t, stamp
  <2> QED
    BY <1>1, <2>1, <2>2, <2>3, <2>4, <2>5, PartySits
<1>4. CASE MoveVacates(i)
  <2>1. req[i].table \in Tables
    BY <1>1, <1>4 DEF MoveVacates, At, Fits
  <2> QED
    BY <1>1, <1>4, <2>1, OthersAsTheyWere, PartiesLeave DEF MoveVacates
<1> QED
  BY <1>2, <1>3, <1>4 DEF Moving

LEMMA SweepingKeepsParties == ASSUME SeatsInv, NEW i \in Slots, Sweeping(i) PROVE OneSits'
<1>1. FloorType /\ OneSits /\ Fits(req[i], Len(at)) /\ 1 \in Nat \ {0} /\ Len(at) \in Nat
  BY DEF SeatsInv, Shape, FloorType
<1>2. CASE SweepReads(i) \/ SweepReadsBills(i)
  BY <1>1, <1>2, RowsStay DEF SweepReads, SweepReadsBills
<1>3. CASE SweepTurns(i)
  <2>1. PICK t \in req[i].todo :
          IF req[i].seen[t] = 0
          THEN table' = [table EXCEPT ![t].seated = req[i].n] /\ UNCHANGED sitting
          ELSE Clears(t, NextStatus(t \in req[i].owed)) /\ Leaves(i, t)
    BY <1>3 DEF SweepTurns
  <2>2. t \in Tables /\ req[i].n \in Nat \ {0}
    BY <1>1, <1>3 DEF SweepTurns, At, Fits
  <2>3. CASE table' = [table EXCEPT ![t].seated = req[i].n] /\ UNCHANGED sitting
    BY <1>1, <2>2, <2>3, RowsStay
  <2>4. CASE Clears(t, NextStatus(t \in req[i].owed)) /\ Leaves(i, t)
    BY <1>1, <2>2, <2>4, OthersAsTheyWere, PartiesLeave
  <2> QED
    BY <2>1, <2>3, <2>4
<1> QED
  BY <1>2, <1>3 DEF Sweeping

LEMMA SeatsKept == SeatsInv /\ [Next]_vars => SeatsInv'
<1> SUFFICES ASSUME SeatsInv, [Next]_vars PROVE SeatsInv'
  OBVIOUS
<1>1. Shape /\ OneSits /\ Shape'
  BY ShapeKept DEF SeatsInv
<1>2. UNCHANGED <<table, sitting>> => OneSits'
  BY <1>1, PartiesStay DEF Claimable
<1>3. CASE UNCHANGED vars \/ Tick \/ CheckEnds \/ Books \/ Withdraws \/ Deletes \/ Restates
  BY <1>1, <1>2, <1>3 DEF SeatsInv, vars, Tick, CheckEnds, Books, Withdraws, Deletes, Restates
<1>4. ASSUME NEW i \in Slots, Comings(i) \/ Dies(i) \/ Rebooking(i) PROVE OneSits'
  BY <1>1, <1>2, <1>4, OneArrives, OneDies DEF Arrived, Rebooking, RebookChecks, RebookWrites
<1>5. ASSUME NEW i \in Slots, Serves(i) PROVE OneSits'
  BY <1>5, SeatingKeepsParties, ClearingKeepsParties, BillingKeepsParties,
     OrderingKeepsParties, MovingKeepsParties, SweepingKeepsParties DEF Serves
<1> QED
  BY <1>1, <1>3, <1>4, <1>5 DEF Next, Serves, SeatsInv

LEMMA SeatsAtFirst == Init => SeatsInv
<1> SUFFICES ASSUME Init PROVE SeatsInv
  OBVIOUS
<1>1. Shape
  BY ShapeAtFirst
<1>2. PICK o \in Openings :
        /\ table = [t \in Tables |->
                     [status |-> IF o.room[t] = "empty" THEN "available" ELSE "occupied",
                      seated |-> IF o.room[t] = "party" THEN 1 ELSE 0, bill |-> FALSE]]
        /\ sitting = [t \in Tables |->
              IF o.room[t] = "party" THEN {[who |-> 1, since |-> 1, displaced |-> FALSE]} ELSE {}]
  BY DEF Init
<1>3. \A t \in Tables : \A p, q \in sitting[t] : p = q
  BY <1>2
<1>4. \A t \in Tables : sitting[t] # {} => ~Claimable(t)
  BY <1>2 DEF Claimable
<1> QED
  BY <1>1, <1>3, <1>4 DEF SeatsInv, OneSits, OneParty

\* However seatings, first orders, moves, clearings and sweeps interleave, a table has
\* one party besides those that a manager or a moved check displaced or were displaced
\* by, or whose table was cleared by an earlier request: the claim is part of the
\* write (tables.js, orders.js).
THEOREM TableHasOneParty == Spec => []OneParty
<1>1. SeatsInv => OneParty
  BY DEF SeatsInv, OneSits
<1> QED
  BY <1>1, SeatsAtFirst, SeatsKept, PTL DEF Spec

-----------------------------------------------------------------------------
(* Bills.                                                                  *)

\* Check c came after request i did.
Came(i, c) == check[c].arrived >= req[i].n

\* Request i is about to seat the table of check c.
Awaits(i, c) ==
  /\ req[i].check = c
  /\ \/ At(i, "move", "sit") /\ req[i].dest = check[c].table
     \/ req[i].op = "order" /\ req[i].pc \in {"peek", "seat"} /\ req[i].table = check[c].table

\* A check that owes is on a table that is not shown as free, or is marked, or about
\* to be seated.
Housed == \A c \in Checks :
  Owes(c) /\ table[check[c].table].status = "available" =>
    c \in adrift \/ \E i \in Slots : Awaits(i, c)

\* What request i found when it looked at the bills still holds of those that were there.
Cleared(i) ==
  /\ At(i, "free", "clear") =>
       \A c \in Checks : Owes(c) /\ check[c].table = req[i].table => Came(i, c)
  /\ req[i].op = "move" /\ req[i].pc \in {"sit", "remain", "vacate"} =>
       (Owes(req[i].check) => Came(i, req[i].check))
  /\ At(i, "move", "vacate") =>
       \A c \in Checks : Owes(c) /\ check[c].table = req[i].table => Came(i, c)
  /\ At(i, "sweep", "turn") =>
       \A c \in Checks : Owes(c) /\ check[c].table \in req[i].todo \ req[i].owed => Came(i, c)

BillsInv == Shape /\ Housed /\ \A i \in Slots : Cleared(i)

\* A check that owes owed before, on the same table, or arrives now.
Arrivals == \A c \in Checks : Owes(c)' =>
  \/ Owes(c) /\ check'[c].table = check[c].table /\ check'[c].arrived >= check[c].arrived
  \/ check'[c].arrived = Len(at)

LEMMA ClearedStays ==
  ASSUME Shape, Shape', NEW i \in Slots, Cleared(i), req'[i] = req[i], Arrivals
  PROVE  Cleared(i)'
<1>1. /\ Fits(req[i], Len(at)) /\ Len(at) \in Nat
      /\ \A c \in Checks : check[c].arrived \in Nat /\ check'[c].arrived \in Nat
  BY DEF Shape, FloorType, Order
<1>2. req[i].op # "none" => req[i].n \in Nat /\ req[i].n <= Len(at)
  BY <1>1 DEF Fits
<1>3. \A c \in Checks : Owes(c)' /\ req[i].op # "none" =>
        \/ Came(i, c)'
        \/ Owes(c) /\ check'[c].table = check[c].table /\ (Came(i, c) => Came(i, c)')
  BY <1>1, <1>2 DEF Arrivals, Came
<1>4. req[i].op = "move" => req[i].check \in Checks
  BY <1>1 DEF Fits
<1> QED
  BY <1>3, <1>4 DEF Cleared, At

\* The requests that are about to clear a table, or to seat one.
Clearer(r) == \/ r.op = "free" /\ r.pc = "clear"
              \/ r.op = "move" /\ r.pc \in {"sit", "remain", "vacate"}
              \/ r.op = "sweep" /\ r.pc = "turn"
Seater(r)  == \/ r.op = "move" /\ r.pc = "sit"
              \/ r.op = "order" /\ r.pc \in {"peek", "seat"}

LEMMA NothingToClear ==
  ASSUME NEW i \in Slots, ~Clearer(req'[i])
  PROVE  Cleared(i)'
BY DEF Cleared, Clearer, At

\* No check arrives, and one whose table is shown as free since is marked.
LEMMA HousedStays ==
  ASSUME Housed, NEW i \in Slots, \A j \in Slots \ {i} : req'[j] = req[j], ~Seater(req[i]),
         \A c \in adrift : c \in adrift',
         \A c \in Checks : Owes(c)' => Owes(c) /\ check'[c].table = check[c].table,
         \A c \in Checks : Owes(c)' /\ table'[check[c].table].status = "available" =>
           c \in adrift' \/ table[check[c].table].status = "available"
  PROVE  Housed'
<1> SUFFICES ASSUME NEW c \in Checks, Owes(c)', table'[check'[c].table].status = "available",
                    c \notin adrift'
             PROVE  \E j \in Slots : Awaits(j, c)'
  BY DEF Housed
<1>1. Owes(c) /\ check'[c].table = check[c].table /\ table[check[c].table].status = "available"
      /\ c \notin adrift
  OBVIOUS
<1>2. PICK j \in Slots : Awaits(j, c)
  BY <1>1 DEF Housed
<1>3. j # i
  BY <1>2 DEF Awaits, Seater, At
<1> QED
  BY <1>1, <1>2, <1>3 DEF Awaits, At

\* Checks may be settled and closed, but none arrives or moves.
ChecksLess == \A c \in Checks : Owes(c)' =>
  Owes(c) /\ check'[c].table = check[c].table /\ check'[c].arrived = check[c].arrived

\* A table that was not shown as free still is not.
RowsBusy == \A t \in Tables : table'[t].status = "available" => table[t].status = "available"

LEMMA BillsStep ==
  ASSUME BillsInv, Shape', NEW i \in Slots, \A j \in Slots \ {i} : req'[j] = req[j],
         Arrivals, Housed', Cleared(i)'
  PROVE  BillsInv'
BY ClearedStays DEF BillsInv

LEMMA FewerArrive ==
  ASSUME Shape, ChecksLess
  PROVE  Arrivals
BY DEF ChecksLess, Arrivals, Shape, FloorType, Order

LEMMA OwesOnTable ==
  ASSUME Shape, NEW c \in Checks, Owes(c)
  PROVE  check[c].table \in Tables
BY DEF Shape, Filed, Owes

LEMMA QuietStep ==
  ASSUME BillsInv, Shape', NEW i \in Slots, \A j \in Slots \ {i} : req'[j] = req[j],
         ~Seater(req[i]), ~Clearer(req'[i]), \A c \in adrift : c \in adrift', ChecksLess, RowsBusy
  PROVE  BillsInv'
<1>1. Housed'
  BY HousedStays, OwesOnTable DEF BillsInv, ChecksLess, RowsBusy
<1> QED
  BY <1>1, NothingToClear, FewerArrive, BillsStep DEF BillsInv

\* Request i clears table t, and marks every check that still owes there.
LEMMA ClearStep ==
  ASSUME BillsInv, Shape', NEW i \in Slots, \A j \in Slots \ {i} : req'[j] = req[j],
         ~Seater(req[i]), Cleared(i)', UNCHANGED check, NEW t \in Tables, NEW status,
         Clears(t, status),
         \A c \in adrift : c \in adrift',
         \A c \in Checks : Owes(c) /\ check[c].table = t => c \in adrift' \/ status # "available"
  PROVE  BillsInv'
<1>1. Shape /\ ChecksLess
  BY DEF BillsInv, ChecksLess, Owes
<1>2. \A u \in Tables : /\ u = t => table'[u].status = status
                        /\ u # t => table'[u].status = table[u].status
  BY <1>1 DEF Clears, Shape, FloorType, Row
<1>3. ASSUME NEW c \in Checks, Owes(c)', table'[check[c].table].status = "available"
      PROVE  c \in adrift' \/ table[check[c].table].status = "available"
  <2>1. Owes(c) /\ check[c].table \in Tables
    BY <1>1, <1>3, OwesOnTable DEF ChecksLess
  <2>2. CASE check[c].table = t
    BY <1>2, <1>3, <2>1, <2>2
  <2>3. CASE check[c].table # t
    BY <1>2, <1>3, <2>1, <2>3
  <2> QED
    BY <2>2, <2>3
<1>4. Housed'
  BY <1>1, <1>3, HousedStays DEF BillsInv, ChecksLess
<1> QED
  BY <1>1, <1>4, FewerArrive, BillsStep

LEMMA RowsStayBusy ==
  ASSUME Shape, NEW t, NEW stamp,
         \/ UNCHANGED table
         \/ Hushes(t)
         \/ table' = [table EXCEPT ![t].bill = TRUE]
         \/ table' = [table EXCEPT ![t].seated = stamp]
         \/ Seats(t, stamp)
  PROVE  RowsBusy
<1> SUFFICES ASSUME NEW u \in Tables, table'[u].status = "available"
             PROVE  table[u].status = "available"
  BY DEF RowsBusy
<1>1. CASE UNCHANGED table
  BY <1>1
<1>2. ASSUME NEW bill, table' = [table EXCEPT ![t].bill = bill] PROVE table[u].status = "available"
  BY <1>2 DEF Shape, FloorType, Row
<1>3. CASE table' = [table EXCEPT ![t].seated = stamp]
  BY <1>3 DEF Shape, FloorType, Row
<1>4. CASE Seats(t, stamp)
  BY <1>4 DEF Shape, FloorType, Row, Seats
<1> QED
  BY <1>1, <1>2, <1>3, <1>4 DEF Hushes

LEMMA ProceedsTo ==
  ASSUME Shape, NEW i \in Slots, NEW pc, Proceeds(i, pc), req[i].op = "move" => req[i].pc # "look"
  PROVE  /\ \A j \in Slots \ {i} : req'[j] = req[j]
         /\ req'[i].pc = pc /\ req'[i].op = req[i].op /\ req'[i].n = req[i].n
         /\ req'[i].table = req[i].table /\ req'[i].check = req[i].check
         /\ req'[i].dest = req[i].dest
<1>1. Goes(i, OnTo(req[i], pc)) /\ DOMAIN req = Slots /\ Fits(req[i], Len(at)) /\ Len(at) \in Nat
  BY DEF Proceeds, OnTo, Shape, FloorType
<1>2. req'[i] = OnTo(req[i], pc) /\ \A j \in Slots \ {i} : req'[j] = req[j]
  BY <1>1, OneGoes
<1> QED
  BY <1>1, <1>2, GoesOn

LEMMA AnswersNothing ==
  ASSUME Shape, NEW i \in Slots, Answers(i)
  PROVE  /\ \A j \in Slots \ {i} : req'[j] = req[j]
         /\ req'[i] = FreeSlot /\ req'[i].op = "none" /\ ~Clearer(req'[i])
<1>1. DOMAIN req = Slots /\ FreeSlot.op = "none"
  BY IdleFits DEF Shape, FloorType
<1>2. req'[i] = FreeSlot /\ \A j \in Slots \ {i} : req'[j] = req[j]
  BY <1>1, OneGoes DEF Answers
<1> QED
  BY <1>1, <1>2 DEF Clearer

LEMMA SeatingKeepsBills == ASSUME BillsInv, NEW i \in Slots, Seating(i) PROVE BillsInv'
<1>1. Shape /\ Shape'
  BY SeatingShape DEF BillsInv
<1>2. /\ \A j \in Slots \ {i} : req'[j] = req[j]
      /\ ~Seater(req[i]) /\ ~Clearer(req'[i])
  <2>1. req[i].op = "seat"
    BY DEF Seating, SeatLooks, SeatChecksHold, SeatReleases, SeatClaims, SeatWrites, At
  <2> QED
    BY <1>1, <2>1, OneServed DEF Serves, Seater, Clearer
<1>3. UNCHANGED <<check, adrift>>
  BY DEF Seating, SeatLooks, SeatChecksHold, SeatReleases, SeatClaims, SeatWrites, past
<1>4. RowsBusy
  BY <1>1, RowsStayBusy DEF Seating, SeatLooks, SeatChecksHold, SeatReleases, SeatClaims, SeatWrites
<1> QED
  BY <1>1, <1>2, <1>3, <1>4, QuietStep DEF ChecksLess, Owes

LEMMA ClearingKeepsBills == ASSUME BillsInv, NEW i \in Slots, Clearing(i) PROVE BillsInv'
<1>1. /\ Shape /\ Shape' /\ Clearing(i) /\ Fits(req[i], Len(at)) /\ Cleared(i) /\ UNCHANGED check
      /\ req[i].op \in {"free", "leave"}
  BY ClearingShape DEF BillsInv, Shape, Clearing, FreeLooks, FreeChecksBills, FreeClears,
                       FreeHushes, LeaveHushes, LeaveWrites, At
<1>2. /\ \A j \in Slots \ {i} : req'[j] = req[j]
      /\ ~Seater(req[i]) /\ req[i].table \in Tables /\ req'[i].op \in {req[i].op, "none"}
  BY <1>1, OneServed DEF Serves, Seater, Fits
<1>3. ChecksLess
  BY <1>1 DEF ChecksLess, Owes
<1>4. CASE FreeLooks(i) \/ FreeHushes(i) \/ LeaveHushes(i)
  <2>1. RowsBusy /\ UNCHANGED adrift
    BY <1>1, <1>4, RowsStayBusy DEF FreeLooks, FreeHushes, LeaveHushes, past
  <2>2. ~Clearer(req'[i])
    BY <1>1, <1>4, ProceedsTo, AnswersNothing DEF FreeLooks, FreeHushes, LeaveHushes, At, Clearer
  <2> QED
    BY <1>1, <1>2, <1>3, <2>1, <2>2, QuietStep
<1>5. CASE FreeChecksBills(i)
  <2>1. UNCHANGED <<table, adrift>>
    BY <1>5 DEF FreeChecksBills, past
  <2>2. CASE Answers(i)
    BY <1>1, <1>2, <1>3, <2>1, <2>2, AnswersNothing, QuietStep DEF RowsBusy
  <2>3. CASE Unsettled(req[i].table) = {} /\ Proceeds(i, "clear")
    <3>1. req'[i].op = "free" /\ req'[i].table = req[i].table
      BY <1>1, <1>5, <2>3, ProceedsTo DEF FreeChecksBills, At
    <3>2. \A c \in Checks : Owes(c) => check[c].table # req[i].table
      BY <2>3 DEF Unsettled, OpenOn, Owes
    <3>3. Cleared(i)'
      BY <1>1, <3>1, <3>2 DEF Cleared, At, Owes
    <3>4. Housed'
      BY <1>2, <1>3, <2>1, HousedStays DEF BillsInv, ChecksLess
    <3> QED
      BY <1>1, <1>2, <1>3, <3>3, <3>4, FewerArrive, BillsStep
  <2> QED
    BY <1>5, <2>2, <2>3 DEF FreeChecksBills
<1>6. CASE FreeClears(i)
  <2>1. req'[i].pc = "hush" /\ req'[i].op = "free"
    BY <1>1, <1>6, ProceedsTo DEF FreeClears, At
  <2>2. Cleared(i)'
    BY <2>1, NothingToClear DEF Clearer
  <2>3. \A c \in Checks : Owes(c) /\ check[c].table = req[i].table => c \in adrift'
    BY <1>1, <1>6 DEF FreeClears, Cleared, Came, LateOn
  <2>4. Clears(req[i].table, "available") /\ \A c \in adrift : c \in adrift'
    BY <1>6 DEF FreeClears
  <2> QED
    BY <1>1, <1>2, <2>2, <2>3, <2>4, ClearStep
<1>7. CASE LeaveWrites(i)
  <2>1. Cleared(i)'
    BY <1>1, <1>7, AnswersNothing, NothingToClear DEF LeaveWrites
  <2>2. Clears(req[i].table, req[i].to) /\ (\A c \in adrift : c \in adrift')
        /\ \A c \in Checks : Owes(c) /\ check[c].table = req[i].table => c \in adrift'
    BY <1>7 DEF LeaveWrites
  <2> QED
    BY <1>1, <1>2, <2>1, <2>2, ClearStep
<1> QED
  BY <1>4, <1>5, <1>6, <1>7 DEF Clearing

LEMMA BillingKeepsBills == ASSUME BillsInv, NEW i \in Slots, Billing(i) PROVE BillsInv'
<1>1. /\ Shape /\ Shape' /\ req[i].op \in {"ask", "retract", "pay"}
      /\ Fits(req[i], Len(at)) /\ FloorType
  BY BillingShape DEF BillsInv, Shape, Billing, AskLooks, AskReadsStamp, AskStamps, AskTells,
                      RetractHushes, PayReads, PaySettles, PayHushes, At
<1>2. /\ \A j \in Slots \ {i} : req'[j] = req[j]
      /\ ~Seater(req[i]) /\ ~Clearer(req'[i])
  BY <1>1, OneServed DEF Serves, Seater, Clearer
<1>3. UNCHANGED adrift
  BY DEF Billing, AskLooks, AskReadsStamp, AskStamps, AskTells, RetractHushes, PayReads,
         PaySettles, PayHushes, past
<1>4. RowsBusy
  BY <1>1, RowsStayBusy DEF Billing, AskLooks, AskReadsStamp, AskStamps, AskTells, RetractHushes,
                            PayReads, PaySettles, PayHushes
<1>5. ChecksLess
  <2>1. CASE UNCHANGED check
    BY <2>1 DEF ChecksLess, Owes
  <2>2. CASE AskTells(i)
    <3>1. \A c \in Checks : check'[c] \in {check[c], [check[c] EXCEPT !.asked = TRUE]}
      BY <2>2 DEF AskTells
    <3>2. \A c \in Checks : /\ [check[c] EXCEPT !.asked = TRUE].state = check[c].state
                            /\ [check[c] EXCEPT !.asked = TRUE].paid = check[c].paid
                            /\ [check[c] EXCEPT !.asked = TRUE].table = check[c].table
                            /\ [check[c] EXCEPT !.asked = TRUE].arrived = check[c].arrived
      BY <1>1 DEF FloorType, Order
    <3> QED
      BY <3>1, <3>2 DEF ChecksLess, Owes
  <2>3. CASE PaySettles(i)
    BY <1>1, <2>3 DEF PaySettles, ChecksLess, Owes, FloorType, Order
  <2> QED
    BY <2>1, <2>2, <2>3 DEF Billing, AskLooks, AskReadsStamp, AskStamps, RetractHushes, PayReads, PayHushes
<1> QED
  BY <1>1, <1>2, <1>3, <1>4, <1>5, QuietStep

LEMMA OrderingKeepsBills == ASSUME BillsInv, NEW i \in Slots, Ordering(i) PROVE BillsInv'
<1>1. /\ Shape /\ Shape' /\ req[i].op = "order" /\ Fits(req[i], Len(at)) /\ FloorType
      /\ Len(at) \in Nat /\ Housed
  <2>1. Shape /\ Shape' /\ Housed
    BY OrderingShape DEF BillsInv
  <2>2. req[i].op = "order"
    BY DEF Ordering, OrderInserts, OrderPeeks, OrderSeats, At
  <2> QED
    BY <2>1, <2>2 DEF Shape, FloorType
<1>2. /\ \A j \in Slots \ {i} : req'[j] = req[j]
      /\ ~Clearer(req'[i]) /\ req[i].table \in Tables /\ req[i].check \in Checks
  BY <1>1, OneServed DEF Serves, Clearer, Fits
<1>3. Cleared(i)' /\ UNCHANGED adrift
  BY <1>2, NothingToClear DEF Ordering, OrderInserts, OrderPeeks, OrderSeats, past
<1>4. CASE OrderInserts(i)
  <2> DEFINE new == req[i].check
  <2>1. /\ check'[new].table = req[i].table /\ check'[new].arrived = Len(at)
        /\ \A c \in Checks \ {new} : check'[c] = check[c]
    BY <1>1, <1>2, <1>4 DEF OrderInserts, FloorType
  <2>2. req'[i].op = "order" /\ req'[i].pc \in {"peek", "seat"} /\ req'[i].check = new
        /\ req'[i].table = req[i].table
    <3>1. PICK pc \in {"peek", "seat"} : Proceeds(i, pc)
      BY <1>4 DEF OrderInserts
    <3> QED
      BY <1>1, <3>1, ProceedsTo
  <2>3. UNCHANGED table /\ ~Seater(req[i])
    BY <1>4 DEF OrderInserts, Seater, At
  <2>4. Arrivals
    BY <1>1, <2>1 DEF Arrivals, Owes, FloorType, Order
  <2>5. Housed'
    <3> SUFFICES ASSUME NEW c \in Checks, Owes(c)', table'[check'[c].table].status = "available",
                        c \notin adrift'
                 PROVE  \E j \in Slots : Awaits(j, c)'
      BY DEF Housed
    <3>1. CASE c = new
      BY <2>1, <2>2, <3>1 DEF Awaits
    <3>2. CASE c # new
      <4>1. PICK j \in Slots : Awaits(j, c)
        BY <1>1, <1>3, <2>1, <2>3, <3>2 DEF Housed, Owes
      <4>2. j # i
        BY <3>2, <4>1 DEF Awaits
      <4> QED
        BY <1>2, <2>1, <3>2, <4>1, <4>2 DEF Awaits, At
    <3> QED
      BY <3>1, <3>2
  <2> QED
    BY <1>1, <1>2, <1>3, <2>4, <2>5, BillsStep
<1>5. CASE OrderPeeks(i) \/ OrderSeats(i)
  <2>1. UNCHANGED check /\ Arrivals
    BY <1>1, <1>5, FewerArrive DEF OrderPeeks, OrderSeats, ChecksLess, Owes
  <2>2. RowsBusy
    BY <1>1, <1>5, RowsStayBusy DEF OrderPeeks, OrderSeats
  <2>3. \/ table'[req[i].table].status = "occupied"
        \/ req'[i].op = "order" /\ req'[i].pc = "seat" /\ req'[i].check = req[i].check
           /\ req'[i].table = req[i].table
    <3>1. CASE table[req[i].table].status = "occupied" /\ UNCHANGED table
      BY <3>1
    <3>2. CASE Proceeds(i, "seat")
      BY <1>1, <3>2, ProceedsTo
    <3>3. CASE Seats(req[i].table, req[i].n)
      BY <1>1, <1>2, <3>3 DEF Seats, FloorType, Row
    <3> QED
      BY <1>5, <3>1, <3>2, <3>3 DEF OrderPeeks, OrderSeats
  <2>4. Housed'
    <3> SUFFICES ASSUME NEW c \in Checks, Owes(c)', table'[check'[c].table].status = "available",
                        c \notin adrift'
                 PROVE  \E j \in Slots : Awaits(j, c)'
      BY DEF Housed
    <3>1. Owes(c) /\ check'[c].table = check[c].table /\ check[c].table \in Tables /\ c \notin adrift
      BY <1>1, <1>3, <2>1, OwesOnTable DEF Owes
    <3>2. PICK j \in Slots : Awaits(j, c)
      BY <1>1, <2>2, <3>1 DEF Housed, RowsBusy
    <3>3. CASE j # i
      BY <1>2, <3>1, <3>2, <3>3 DEF Awaits, At
    <3>4. CASE j = i
      BY <1>1, <2>3, <3>1, <3>2, <3>4 DEF Awaits, At
    <3> QED
      BY <3>3, <3>4
  <2> QED
    BY <1>1, <1>2, <1>3, <2>1, <2>4, BillsStep
<1> QED
  BY <1>4, <1>5 DEF Ordering

LEMMA MovingKeepsBills == ASSUME BillsInv, NEW i \in Slots, Moving(i) PROVE BillsInv'
<1>1. /\ Shape /\ Shape' /\ req[i].op = "move" /\ Fits(req[i], Len(at)) /\ FloorType
      /\ Len(at) \in Nat /\ Housed /\ Cleared(i)
  <2>1. Shape /\ Shape' /\ Housed /\ Cleared(i)
    BY MovingShape DEF BillsInv
  <2>2. req[i].op = "move"
    BY DEF Moving, MoveLooks, MoveSeesDest, MoveChecksHold, MoveRefiles, MoveSits,
           MoveCountsRest, MoveVacates, At
  <2> QED
    BY <2>1, <2>2 DEF Shape, FloorType
<1>2. /\ \A j \in Slots \ {i} : req'[j] = req[j]
      /\ req[i].dest \in Tables /\ req[i].check \in Checks
      /\ req[i].n \in 1 .. Len(at)
  BY <1>1, OneServed DEF Serves, Fits
<1>3. UNCHANGED check => ChecksLess
  BY DEF ChecksLess, Owes
<1>4. CASE MoveLooks(i) \/ MoveSeesDest(i) \/ MoveChecksHold(i)
  <2>1. UNCHANGED <<table, check, adrift>> /\ ~Seater(req[i])
    BY <1>4 DEF MoveLooks, MoveSeesDest, MoveChecksHold, past, At, Seater
  <2>2. ~Clearer(req'[i])
    <3>1. CASE Answers(i)
      BY <1>1, <3>1, AnswersNothing
    <3>2. CASE MoveSeesDest(i) /\ Proceeds(i, "held")
      BY <1>1, <3>2, ProceedsTo DEF MoveSeesDest, At, Clearer
    <3>3. CASE MoveChecksHold(i) /\ Proceeds(i, "refile")
      BY <1>1, <3>3, ProceedsTo DEF MoveChecksHold, At, Clearer
    <3>4. CASE Goes(i, [req[i] EXCEPT !.pc = "dest", !.table = check[req[i].check].table])
      <4>1. req'[i] = [req[i] EXCEPT !.pc = "dest", !.table = check[req[i].check].table]
        BY <1>1, <3>4, OneGoes DEF FloorType
      <4>2. DOMAIN req[i] = Fields /\ {"op", "pc", "table"} \subseteq Fields
        BY <1>1 DEF Fits, Fields, FreeSlot
      <4>3. req'[i].pc = "dest" /\ req'[i].op = "move"
        BY <1>1, <4>1, <4>2
      <4> QED
        BY <4>3 DEF Clearer
    <3> QED
      BY <1>4, <3>1, <3>2, <3>3, <3>4 DEF MoveLooks, MoveSeesDest, MoveChecksHold
  <2> QED
    BY <1>1, <1>2, <1>3, <2>1, <2>2, QuietStep DEF RowsBusy
<1>5. CASE MoveRefiles(i)
  <2> DEFINE c0 == req[i].check
  <2>1. /\ check'[c0].table = req[i].dest /\ check'[c0].arrived = Len(at)
        /\ \A c \in Checks \ {c0} : check'[c] = check[c]
    BY <1>1, <1>2, <1>5 DEF MoveRefiles, FloorType, Order
  <2>2. /\ req'[i].op = "move" /\ req'[i].pc = "sit" /\ req'[i].check = c0
        /\ req'[i].dest = req[i].dest /\ req'[i].n = req[i].n
    BY <1>1, <1>5, ProceedsTo DEF MoveRefiles, At
  <2>3. UNCHANGED <<table, adrift>> /\ ~Seater(req[i])
    BY <1>5 DEF MoveRefiles, Seater, At, past
  <2>4. Arrivals
    BY <1>1, <2>1 DEF Arrivals, Owes, FloorType, Order
  <2>5. Cleared(i)'
    BY <1>2, <2>1, <2>2 DEF Cleared, Came, At
  <2>6. Housed'
    <3> SUFFICES ASSUME NEW c \in Checks, Owes(c)', table'[check'[c].table].status = "available",
                        c \notin adrift'
                 PROVE  \E j \in Slots : Awaits(j, c)'
      BY DEF Housed
    <3>1. CASE c = c0
      BY <2>1, <2>2, <3>1 DEF Awaits, At
    <3>2. CASE c # c0
      <4>1. PICK j \in Slots : Awaits(j, c)
        BY <1>1, <2>1, <2>3, <3>2 DEF Housed, Owes
      <4>2. j # i
        BY <3>2, <4>1 DEF Awaits
      <4> QED
        BY <1>2, <2>1, <3>2, <4>1, <4>2 DEF Awaits, At
    <3> QED
      BY <3>1, <3>2
  <2> QED
    BY <1>1, <1>2, <2>4, <2>5, <2>6, BillsStep
<1>6. CASE MoveSits(i)
  <2>1. UNCHANGED <<check, adrift>> /\ Arrivals
    BY <1>1, <1>3, <1>6, FewerArrive DEF MoveSits, past
  <2>2. RowsBusy /\ table'[req[i].dest].status = "occupied"
    <3>1. PICK stamp : Seats(req[i].dest, stamp)
      BY <1>6 DEF MoveSits
    <3> QED
      BY <1>1, <1>2, <3>1, RowsStayBusy DEF Seats, FloorType, Row
  <2>3. /\ req'[i].op = "move" /\ req'[i].pc = "remain" /\ req'[i].check = req[i].check
        /\ req'[i].n = req[i].n
    BY <1>1, <1>6, ProceedsTo DEF MoveSits, At
  <2>4. Cleared(i)'
    BY <1>1, <1>6, <2>1, <2>3 DEF MoveSits, Cleared, Came, Owes, At
  <2>5. Housed'
    <3> SUFFICES ASSUME NEW c \in Checks, Owes(c)', table'[check'[c].table].status = "available",
                        c \notin adrift'
                 PROVE  \E j \in Slots : Awaits(j, c)'
      BY DEF Housed
    <3>1. Owes(c) /\ check'[c].table = check[c].table /\ check[c].table \in Tables /\ c \notin adrift
      BY <1>1, <2>1, OwesOnTable DEF Owes
    <3>2. PICK j \in Slots : Awaits(j, c)
      BY <1>1, <2>2, <3>1 DEF Housed, RowsBusy
    <3>3. j # i
      BY <1>1, <2>2, <3>1, <3>2 DEF Awaits, At
    <3> QED
      BY <1>2, <3>1, <3>2, <3>3 DEF Awaits, At
  <2> QED
    BY <1>1, <1>2, <2>1, <2>4, <2>5, BillsStep
<1>7. CASE MoveCountsRest(i)
  <2>1. UNCHANGED <<table, check, adrift>> /\ ~Seater(req[i]) /\ Arrivals
    BY <1>1, <1>3, <1>7, FewerArrive DEF MoveCountsRest, past, At, Seater
  <2>2. Cleared(i)'
    <3>1. CASE Answers(i)
      BY <1>1, <3>1, AnswersNothing, NothingToClear
    <3>2. CASE Proceeds(i, "vacate")
               /\ ~\E c \in Unpaid \ {req[i].check} : check[c].table = req[i].table
      <4>1. /\ req'[i].op = "move" /\ req'[i].pc = "vacate" /\ req'[i].check = req[i].check
            /\ req'[i].n = req[i].n /\ req'[i].table = req[i].table
        BY <1>1, <1>7, <3>2, ProceedsTo DEF MoveCountsRest, At
      <4>2. Owes(req[i].check) => Came(i, req[i].check)
        BY <1>1, <1>7 DEF MoveCountsRest, Cleared, At
      <4>3. \A c \in Checks : Owes(c) /\ check[c].table = req[i].table => c = req[i].check
        BY <3>2 DEF Unpaid, Owes
      <4> QED
        BY <2>1, <4>1, <4>2, <4>3 DEF Cleared, Came, Owes, At
    <3> QED
      BY <1>7, <3>1, <3>2 DEF MoveCountsRest
  <2>3. Housed'
    BY <1>1, <1>2, <1>3, <2>1, HousedStays DEF ChecksLess
  <2> QED
    BY <1>1, <1>2, <2>1, <2>2, <2>3, BillsStep
<1>8. CASE MoveVacates(i)
  <2>1. req[i].table \in Tables /\ ~Seater(req[i]) /\ UNCHANGED check
    BY <1>1, <1>8 DEF MoveVacates, At, Fits, Seater
  <2>2. Cleared(i)'
    BY <1>1, <1>8, AnswersNothing, NothingToClear DEF MoveVacates
  <2>3. \A c \in Checks : Owes(c) /\ check[c].table = req[i].table => c \in adrift'
    BY <1>1, <1>8 DEF MoveVacates, Cleared, Came, LateOn
  <2>4. Clears(req[i].table, "available") /\ \A c \in adrift : c \in adrift'
    BY <1>8 DEF MoveVacates
  <2> QED
    BY <1>1, <1>2, <2>1, <2>2, <2>3, <2>4, ClearStep
<1> QED
  BY <1>4, <1>5, <1>6, <1>7, <1>8 DEF Moving

LEMMA SweepingKeepsBills == ASSUME BillsInv, NEW i \in Slots, Sweeping(i) PROVE BillsInv'
<1>1. /\ Shape /\ Shape' /\ req[i].op = "sweep" /\ Fits(req[i], Len(at)) /\ FloorType
      /\ Housed /\ Cleared(i) /\ UNCHANGED check
  <2>1. Shape /\ Shape' /\ Housed /\ Cleared(i)
    BY SweepingShape DEF BillsInv
  <2>2. req[i].op = "sweep" /\ UNCHANGED check
    BY DEF Sweeping, SweepReads, SweepReadsBills, SweepTurns, At
  <2> QED
    BY <2>1, <2>2 DEF Shape, FloorType
<1>2. /\ \A j \in Slots \ {i} : req'[j] = req[j]
      /\ ~Seater(req[i]) /\ req[i].todo \subseteq Tables /\ DOMAIN req[i] = Fields
      /\ {"op", "pc", "n", "table", "check", "dest", "todo", "seen", "owed"} \subseteq Fields
      /\ ChecksLess /\ Arrivals
  BY <1>1, OneServed, FewerArrive DEF Serves, Seater, Fits, Fields, FreeSlot, ChecksLess, Owes
<1>3. CASE SweepReads(i)
  <2>1. UNCHANGED <<table, adrift>>
    BY <1>3 DEF SweepReads, past
  <2>2. ASSUME NEW todo, NEW seen,
               Goes(i, [req[i] EXCEPT !.pc = "owed", !.todo = todo, !.seen = seen])
        PROVE  ~Clearer(req'[i])
    <3>1. req'[i] = [req[i] EXCEPT !.pc = "owed", !.todo = todo, !.seen = seen]
      BY <1>1, <2>2, OneGoes DEF FloorType
    <3>2. req'[i].pc = "owed" /\ req'[i].op = "sweep"
      BY <1>1, <1>2, <3>1
    <3> QED
      BY <3>2 DEF Clearer
  <2>3. ~Clearer(req'[i])
    BY <1>1, <1>3, <2>2, AnswersNothing DEF SweepReads
  <2> QED
    BY <1>1, <1>2, <2>1, <2>3, QuietStep DEF RowsBusy
<1>4. CASE SweepReadsBills(i)
  <2>1. UNCHANGED <<table, adrift>>
    BY <1>4 DEF SweepReadsBills, past
  <2>2. ASSUME NEW todo \in SUBSET req[i].todo,
               Goes(i, [req[i] EXCEPT !.pc = "turn", !.todo = todo,
                                      !.owed = {check[c].table : c \in Unpaid}])
        PROVE  Cleared(i)'
    <3>1. req'[i] = [req[i] EXCEPT !.pc = "turn", !.todo = todo,
                                   !.owed = {check[c].table : c \in Unpaid}]
      BY <1>1, <2>2, OneGoes DEF FloorType
    <3>2. req'[i].pc = "turn" /\ req'[i].op = "sweep" /\ req'[i].owed = {check[c].table : c \in Unpaid}
      BY <1>1, <1>2, <3>1
    <3>3. \A c \in Checks : Owes(c) => check[c].table \in req'[i].owed
      BY <3>2 DEF Owes, Unpaid
    <3> QED
      BY <1>1, <3>2, <3>3 DEF Cleared, Owes, At
  <2>3. CASE Answers(i)
    BY <1>1, <1>2, <2>1, <2>3, AnswersNothing, QuietStep DEF RowsBusy
  <2>4. CASE ~Answers(i)
    <3>1. Cleared(i)'
      BY <1>4, <2>2, <2>4 DEF SweepReadsBills
    <3>2. Housed'
      BY <1>1, <1>2, <2>1, HousedStays DEF ChecksLess
    <3> QED
      BY <1>1, <1>2, <3>1, <3>2, BillsStep
  <2> QED
    BY <2>3, <2>4
<1>5. CASE SweepTurns(i)
  <2>1. PICK t \in req[i].todo :
          /\ IF req[i].seen[t] = 0
             THEN table' = [table EXCEPT ![t].seated = req[i].n] /\ UNCHANGED adrift
             ELSE Clears(t, NextStatus(t \in req[i].owed)) /\ adrift' = adrift \cup LateOn(i, t)
          /\ \/ Answers(i)
             \/ Goes(i, [req[i] EXCEPT !.todo = req[i].todo \ {t}])
    BY <1>5 DEF SweepTurns
  <2>2. Cleared(i)'
    <3>1. CASE Answers(i)
      BY <1>1, <3>1, AnswersNothing, NothingToClear
    <3>2. CASE Goes(i, [req[i] EXCEPT !.todo = req[i].todo \ {t}])
      <4>1. req'[i] = [req[i] EXCEPT !.todo = req[i].todo \ {t}]
        BY <1>1, <3>2, OneGoes DEF FloorType
      <4>2. /\ req'[i].op = "sweep" /\ req'[i].owed = req[i].owed /\ req'[i].n = req[i].n
            /\ req'[i].todo \subseteq req[i].todo /\ req[i].pc = "turn"
        BY <1>1, <1>2, <1>5, <4>1 DEF SweepTurns, At
      <4> QED
        BY <1>1, <4>2 DEF Cleared, Came, Owes, At
    <3> QED
      BY <2>1, <3>1, <3>2
  <2>3. CASE table' = [table EXCEPT ![t].seated = req[i].n] /\ UNCHANGED adrift
    <3>1. RowsBusy
      BY <1>1, <2>3, RowsStayBusy
    <3>2. Housed'
      BY <1>1, <1>2, <2>3, <3>1, HousedStays, OwesOnTable DEF ChecksLess, RowsBusy
    <3> QED
      BY <1>1, <1>2, <2>2, <3>2, BillsStep
  <2>4. CASE Clears(t, NextStatus(t \in req[i].owed)) /\ adrift' = adrift \cup LateOn(i, t)
    <3>1. t \in Tables
      BY <1>2
    <3>2. ASSUME NEW c \in Checks, Owes(c), check[c].table = t
          PROVE  c \in adrift' \/ NextStatus(t \in req[i].owed) # "available"
      <4>1. CASE t \in req[i].owed
        BY <4>1 DEF NextStatus
      <4>2. CASE t \notin req[i].owed
        BY <1>1, <1>5, <2>4, <3>2, <4>2 DEF SweepTurns, Cleared, Came, LateOn
      <4> QED
        BY <4>1, <4>2
    <3> QED
      BY <1>1, <1>2, <2>2, <2>4, <3>1, <3>2, ClearStep
  <2> QED
    BY <2>1, <2>3, <2>4
<1> QED
  BY <1>3, <1>4, <1>5 DEF Sweeping

\* A request that stops leaves its check marked, if it had one to seat.
LEMMA DyingKeepsBills == ASSUME BillsInv, NEW i \in Slots, Dies(i) PROVE BillsInv'
<1>1. /\ Shape /\ Shape' /\ Housed /\ UNCHANGED <<table, check>>
      /\ \A j \in Slots \ {i} : req'[j] = req[j]
  BY DyingShape, OneDies DEF BillsInv
<1>2. Cleared(i)' /\ Arrivals
  BY <1>1, AnswersNothing, NothingToClear, FewerArrive DEF Dies, ChecksLess, Owes
<1>3. Housed'
  <2> SUFFICES ASSUME NEW c \in Checks, Owes(c)', table'[check'[c].table].status = "available",
                      c \notin adrift'
               PROVE  \E j \in Slots : Awaits(j, c)'
    BY DEF Housed
  <2>1. c \notin adrift
    BY DEF Dies
  <2>2. PICK j \in Slots : Awaits(j, c)
    BY <1>1, <2>1 DEF Housed, Owes
  <2>3. j # i
    BY <2>2 DEF Dies, Awaits, At
  <2> QED
    BY <1>1, <2>2, <2>3 DEF Awaits, At
<1> QED
  BY <1>1, <1>2, <1>3, BillsStep

LEMMA ArrivingKeepsBills == ASSUME BillsInv, NEW i \in Slots, Comings(i) PROVE BillsInv'
<1>1. /\ Shape /\ Shape' /\ Housed /\ Arrived(i)
  BY ComingsShape, OneArrives DEF BillsInv
<1>2. Cleared(i)' /\ Arrivals
  BY <1>1, NothingToClear, FewerArrive DEF Arrived, Clearer, ChecksLess, Owes
<1>3. req[i].op = "none"
  BY DEF Comings, SeatComes, FreeComes, LeaveComes, AskComes, RetractComes, PayComes,
         OrderComes, MoveComes, SweepComes, RebookComes, Comes
<1>4. Housed'
  BY <1>1, <1>3, HousedStays DEF Arrived, Seater, Owes
<1> QED
  BY <1>1, <1>2, <1>4, BillsStep DEF Arrived

\* A step in which every request stays where it is.
LEMMA OthersKeepBills ==
  ASSUME BillsInv, Shape', UNCHANGED <<req, table, adrift>>, ChecksLess
  PROVE  BillsInv'
<1>1. \A i \in Slots : Cleared(i)'
  BY ClearedStays, FewerArrive DEF BillsInv
<1>2. \A c \in Checks, i \in Slots : Owes(c)' /\ Awaits(i, c) => Awaits(i, c)'
  BY DEF ChecksLess, Awaits, At
<1>3. Housed'
  BY <1>2 DEF BillsInv, Housed, ChecksLess
<1> QED
  BY <1>1, <1>3 DEF BillsInv

LEMMA BillsKept == BillsInv /\ [Next]_vars => BillsInv'
<1> SUFFICES ASSUME BillsInv, [Next]_vars PROVE BillsInv'
  OBVIOUS
<1>1. Shape /\ Shape'
  BY ShapeKept DEF BillsInv
<1>2. CASE UNCHANGED vars \/ Tick \/ Books \/ Withdraws \/ Deletes \/ Restates
  <2>1. UNCHANGED <<req, table, check, adrift>>
    BY <1>2 DEF vars, past, Tick, Books, Withdraws, Deletes, Restates
  <2> QED
    BY <1>1, <2>1, OthersKeepBills DEF ChecksLess, Owes
<1>3. CASE CheckEnds
  <2>1. ChecksLess
    BY <1>1, <1>3 DEF CheckEnds, ChecksLess, Owes, Shape, FloorType, Order
  <2> QED
    BY <1>1, <1>3, <2>1, OthersKeepBills DEF CheckEnds, past
<1>4. ASSUME NEW i \in Slots, Comings(i) \/ Dies(i) PROVE BillsInv'
  BY <1>4, ArrivingKeepsBills, DyingKeepsBills
<1>5. ASSUME NEW i \in Slots, Serves(i) PROVE BillsInv'
  BY <1>5, SeatingKeepsBills, ClearingKeepsBills, BillingKeepsBills, OrderingKeepsBills,
     MovingKeepsBills, SweepingKeepsBills DEF Serves
<1>6. ASSUME NEW i \in Slots, Rebooking(i) PROVE BillsInv'
  <2>1. req[i].op = "rebook" /\ UNCHANGED <<table, check, adrift>>
    BY <1>6 DEF Rebooking, RebookChecks, RebookWrites, At, past
  <2>2. ~Clearer(req'[i]) /\ \A j \in Slots \ {i} : req'[j] = req[j]
    BY <1>1, <1>6, <2>1, AnswersNothing, ProceedsTo
       DEF Rebooking, RebookChecks, RebookWrites, Clearer
  <2> QED
    BY <1>1, <2>1, <2>2, QuietStep DEF Seater, ChecksLess, Owes, RowsBusy
<1> QED
  BY <1>2, <1>3, <1>4, <1>5, <1>6 DEF Next, Serves

LEMMA BillsAtFirst == Init => BillsInv
<1> SUFFICES ASSUME Init PROVE BillsInv
  OBVIOUS
<1>1. Shape
  BY ShapeAtFirst
<1>2. PICK o \in Openings :
        /\ table = [t \in Tables |->
                     [status |-> IF o.room[t] = "empty" THEN "available" ELSE "occupied",
                      seated |-> IF o.room[t] = "party" THEN 1 ELSE 0, bill |-> FALSE]]
        /\ check = [c \in Checks |->
                     [state |-> IF o.tab[c] = None THEN "none" ELSE "open",
                      table |-> o.tab[c], paid |-> FALSE, asked |-> FALSE, arrived |-> 1]]
  BY DEF Init
<1>3. \A c \in Checks : Owes(c) => o.tab[c] # None /\ check[c].table = o.tab[c]
  BY <1>2 DEF Owes
<1>4. \A c \in Checks : Owes(c) => table[check[c].table].status # "available"
  <2> SUFFICES ASSUME NEW c \in Checks, Owes(c) PROVE table[check[c].table].status # "available"
    OBVIOUS
  <2>1. check[c].table \in Tables
    BY <1>1, OwesOnTable
  <2>2. o.room[check[c].table] # "empty"
    BY <1>3, TabsAssumption
  <2> QED
    BY <1>2, <2>1, <2>2
<1>5. \A i \in Slots : req[i].op = "none"
  BY IdleFits DEF Init
<1> QED
  BY <1>1, <1>4, <1>5 DEF BillsInv, Housed, Cleared, At

\* No check that owes is left on a table shown as free, unless it came while the table
\* was being cleared, or checkout cleared it, or its request stopped or is under way
\* (the money guard of /free, the transfer's count of the rest, the sweep's list).
THEOREM BillsKeepTables == Spec => []BillKeepsTable
<1>1. BillsInv => BillKeepsTable
  BY DEF BillsInv, Housed, BillKeepsTable, Awaits, At
<1> QED
  BY <1>1, BillsAtFirst, BillsKept, PTL DEF Spec
=============================================================================
