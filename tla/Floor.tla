-------------------------------- MODULE Floor --------------------------------
(***************************************************************************)
(* The floor of the cafe: who sits where (handlers/tables.js), what is     *)
(* booked (handlers/reservations.js, lib/booking.js), and the orders and   *)
(* payments that touch a table row (handlers/orders.js,                    *)
(* handlers/payments.js, the generic update of handlers/resources.js).     *)
(*                                                                         *)
(* A handler awaits each statement, and the others run in between.  The    *)
(* n-th request of a behaviour has number n: a seating is named by the     *)
(* request that stamped it, which stands for seated_at, and 0 is a blank   *)
(* stamp.  Staff act on what they see: a request that clears a table is    *)
(* about the parties that sat there when it was made.                      *)
(***************************************************************************)
EXTENDS Integers, Sequences, FiniteSets

CONSTANTS
  Tables,       \* the tables
  None,         \* no table, check or booking
  Checks,       \* orders, each on a table
  Bookings,     \* reservations
  Windows,      \* the times that may be booked
  Openings,     \* what the floor may look like when the run begins
  Ops,          \* the operations the run is about
  Slots,        \* requests that may be under way at once
  MaxRequests,  \* bound: requests in a behaviour
  MaxTime,      \* bound: the clock
  MaxDeaths,    \* bound: requests that stop at an await
  MaxHours,     \* tables.max_occupied_hours
  Lead,         \* SEATING_LEAD_MIN
  Grace         \* GRACE_MIN

AllOps == {"seat", "free", "leave", "ask", "retract", "order", "pay", "move",
           "sweep", "rebook"}
Stampers == {"seat", "order", "move", "sweep"}

Window == {w \in [from : Nat, to : Nat] : w.from < w.to}

\* Each table empty, with a party, or occupied with a blank seated_at (production
\* has one); and the table of each check that is open.
Opening == [room : [Tables -> {"empty", "party", "unstamped"}],
            tab  : [Checks -> Tables \cup {None}]]

ASSUME NoneAssumption == None \notin Tables \cup Checks \cup Bookings
ASSUME WindowsAssumption == Windows \subseteq Window /\ Windows # {}
ASSUME OpeningsAssumption == Openings \subseteq Opening
\* An open check is on a table where somebody sits.
ASSUME TabsAssumption == \A o \in Openings : \A c \in Checks :
  o.tab[c] # None => o.room[o.tab[c]] # "empty"
ASSUME OpsAssumption == Ops \subseteq AllOps
ASSUME BoundsAssumption == MaxRequests \in Nat /\ MaxTime \in Nat /\ MaxDeaths \in Nat
ASSUME HoursAssumption == MaxHours \in Nat /\ Lead \in Nat /\ Grace \in Nat

VARIABLES
  now,        \* the clock, in seconds
  at,         \* at[n]: when request n began, if it may stamp a table
  table,      \* the rows of tables: status, seated_at, bill_requested_at set?
  check,      \* the rows of orders, as far as the floor is concerned
  booking,    \* the rows of reservations
  req,        \* req[i]: the request in slot i
  deaths,     \* how many requests have stopped at an await
  sitting,    \* history: the parties given each table and not yet gone
  contested,  \* history: bookings revived, or edited while another was written
  adrift      \* history: checks cleared around, or whose request did not finish

clock   == <<now, at>>
past    == <<contested, adrift>>
vars    == <<clock, table, check, booking, req, deaths, sitting, past>>

Places  == Tables \cup {None}

\* A party on a table is [who, since, displaced]: its request, how many requests there
\* had been when it got there, and whether a manager or a moved check put it there over
\* another, or the table has been cleared for a party before it.

Pcs == {"free", "look", "held", "unbook", "claim", "write", "owed", "clear", "hush",
        "stands", "stamp", "tell", "insert", "peek", "seat", "settle", "dest",
        "refile", "sit", "remain", "vacate", "turn", "clash"}

NoBooking == [status |-> "none", gone |-> FALSE, table |-> None,
              window |-> CHOOSE w \in Windows : TRUE, written |-> 0]

NoStamps == [t \in Tables |-> 0]

\* A request: its operation, next statement and number; what it is about; what
\* its body says (mgr: a manager sent it, stamp: seated_at, to: status); and what
\* it read (claims, over: it starts a party, on a table with one; seen: the stamps
\* it read; owed, todo: the sweep's tables with a bill, and those still to do).
FreeSlot == [op |-> "none", pc |-> "free", n |-> 0, table |-> None, dest |-> None,
             check |-> None, booking |-> None,
             window |-> NoBooking.window, mgr |-> FALSE, qr |-> FALSE, stamp |-> 0, to |-> "available",
             claims |-> FALSE, over |-> FALSE, seen |-> NoStamps, owed |-> {}, todo |-> {}]

\* Request 1 seated the parties that are there, and filed their checks.
Init ==
  /\ now = 0 /\ at = <<0>>
  /\ \E o \in Openings :
       /\ table = [t \in Tables |->
                     [status |-> IF o.room[t] = "empty" THEN "available" ELSE "occupied",
                      seated |-> IF o.room[t] = "party" THEN 1 ELSE 0, bill |-> FALSE]]
       /\ check = [c \in Checks |->
                     [state |-> IF o.tab[c] = None THEN "none" ELSE "open",
                      table |-> o.tab[c], paid |-> FALSE, asked |-> FALSE,
                      arrived |-> 1]]
       /\ sitting = [t \in Tables |->
                       IF o.room[t] = "party" THEN {[who |-> 1, since |-> 1, displaced |-> FALSE]} ELSE {}]
  /\ booking = [b \in Bookings |-> NoBooking]
  /\ req = [i \in Slots |-> FreeSlot]
  /\ deaths = 0
  /\ contested = {} /\ adrift = {}

-----------------------------------------------------------------------------
(* Bookings (lib/booking.js).                                              *)

Active(b) == booking[b].status = "active" /\ ~booking[b].gone

\* Half open: one may begin when another ends.
Overlap(v, w) == v.from < w.to /\ w.from < v.to

\* Mutant: only a booking of the very same time is a clash.
ClashesSame(b, t, w) == {d \in Bookings \ {b} :
  Active(d) /\ booking[d].table = t /\ t # None /\ booking[d].window = w}

\* findClash, and the condition of the insert.
Clashes(b, t, w) == {d \in Bookings \ {b} :
  Active(d) /\ booking[d].table = t /\ t # None /\ Overlap(booking[d].window, w)}

\* holdsTable: until its window ends, or its guest is late beyond grace.
Holds(b) == Active(b) /\ now < booking[b].window.to /\ now <= booking[b].window.from + Grace

\* blocksSeating: from the lead time on.
Blocking(t) == {b \in Bookings :
  Holds(b) /\ booking[b].table = t /\ now + Lead >= booking[b].window.from}

-----------------------------------------------------------------------------
(* Checks.                                                                 *)

\* In one of the statuses from new to served, with money to come.
Owes(c) == check[c].state = "open" /\ ~check[c].paid

OpenOn(t) == {c \in Checks : check[c].state = "open" /\ check[c].table = t}

\* Mutant: only a bill that was asked for keeps the table.
UnsettledAsked(t) == {c \in OpenOn(t) : ~check[c].paid /\ check[c].asked}

\* The money guard of /free.
Unsettled(t) == {c \in OpenOn(t) : ~check[c].paid}

\* listOpenChecks: an unpaid order counts until it is cancelled.
Unpaid == {c \in Checks : check[c].state \in {"open", "completed"} /\ ~check[c].paid}

-----------------------------------------------------------------------------
(* Requests.                                                               *)

At(i, op, pc) ==  req[i].op = op /\ req[i].pc = pc
Goes(i, r)    == req' = [req EXCEPT ![i] = r]
Proceeds(i, pc) == Goes(i, [req[i] EXCEPT !.pc = pc])
Answers(i)    == Goes(i, FreeSlot)

Comes(i, r) ==
  /\ req[i].op = "none" /\ Len(at) < MaxRequests /\ r.op \in Ops
  /\ at' = Append(at, IF r.op \in Stampers THEN now ELSE 0)
  /\ Goes(i, [r EXCEPT !.n = Len(at) + 1])
  /\ UNCHANGED <<now, table, check, booking, deaths, sitting, past>>

\* A request of one statement, with the operations of op.
Passes(op) ==
  /\ Len(at) < MaxRequests /\ op \in Ops
  /\ at' = Append(at, 0)

\* The parties a request is about, when it clears table t.
Known(i, t) == {p \in sitting[t] : p.since < req[i].n}

\* A request cleared table t: the parties it saw have gone, any other is displaced.
Leaves(i, t) == sitting' = [sitting EXCEPT ![t] =
  {[p EXCEPT !.displaced = TRUE] : p \in @ \ Known(i, t)}]

\* Checks of table t that came after request i did.
LateOn(i, t) == {c \in Checks : Owes(c) /\ check[c].table = t /\ check[c].arrived >= req[i].n}

Sits(t, who, displaced) == sitting' = [sitting EXCEPT ![t] =
  {p \in @ : p.who # who} \cup
    {[who |-> who, since |-> Len(at), displaced |-> displaced]}]

Seats(t, stamp) == table' = [table EXCEPT ![t].status = "occupied", ![t].seated = stamp]
Clears(t, status) == table' = [table EXCEPT ![t].status = status, ![t].seated = 0]
Hushes(t) == table' = [table EXCEPT ![t].bill = FALSE]

-----------------------------------------------------------------------------
(* Seating a party: PUT /api/tables/:id with status occupied.              *)

\* A new party, stamped by this request, or an edit of the one on the table,
\* with its stamp sent back as it was fetched.
SeatComes(i) == \E t \in Tables, mgr \in BOOLEAN :
  \E stamp \in {Len(at) + 1, table[t].seated} \ {0} :
    Comes(i, [FreeSlot EXCEPT !.op = "seat", !.pc = "look", !.table = t, !.mgr = mgr,
                              !.stamp = stamp])

\* isNewSeating, or newSeating.
NewSeating(row, r) == row.status # "occupied" \/ row.seated = 0 \/ row.seated # r.stamp

\* Only a manager may go on with a new party on an occupied table, and the audit
\* log then says that the party was seated.
SeatLooks(i) ==
  /\ At(i, "seat", "look")
  /\ LET r == req[i]
         new  == NewSeating(table[r.table], r)
         over == new /\ table[r.table].status = "occupied"
     IN IF over /\ ~r.mgr
        THEN Answers(i)
        ELSE Goes(i, [r EXCEPT !.pc = "held", !.claims = new, !.over = over])
  /\ UNCHANGED <<clock, table, check, booking, deaths, sitting, past>>

\* A table that is held is for a manager to release.
SeatChecksHold(i) ==
  /\ At(i, "seat", "held")
  /\ LET r == req[i]  holds == Blocking(r.table) IN
     \/ /\ holds = {}
        /\ Proceeds(i, IF r.claims THEN "claim" ELSE "write")
     \/ holds # {} /\ ~r.mgr /\ Answers(i)
     \/ r.mgr /\ \E b \in holds : Goes(i, [r EXCEPT !.pc = "unbook", !.booking = b])
  /\ UNCHANGED <<clock, table, check, booking, deaths, sitting, past>>

SeatReleases(i) ==
  /\ At(i, "seat", "unbook")
  /\ LET r == req[i]  b == r.booking IN
     /\ booking' = IF booking[b].gone \/ booking[b].status = "none" THEN booking
                   ELSE [booking EXCEPT ![b].status = "cancelled", ![b].gone = TRUE]
     /\ Proceeds(i, IF r.claims /\ ~r.over THEN "claim" ELSE "write")
  /\ UNCHANGED <<clock, table, check, deaths, sitting, past>>

\* Mutant: the claim is not conditional.
ClaimableAlways(t) == TRUE

Claimable(t) == table[t].status # "occupied" \/ table[t].seated = 0

\* claimSeat: the condition is part of the write.
SeatClaims(i) ==
  /\ At(i, "seat", "claim")
  /\ LET r == req[i]  t == r.table IN
     IF Claimable(t)
     THEN Seats(t, r.stamp) /\ Sits(t, r.n, FALSE) /\ Proceeds(i, "write")
     ELSE Answers(i) /\ UNCHANGED <<table, sitting>>
  /\ UNCHANGED <<clock, check, booking, deaths, past>>

\* The generic handler then writes the body, whatever has become of the table.  A
\* manager who released a booking on an occupied table comes here without a claim.
SeatWrites(i) ==
  /\ At(i, "seat", "write")
  /\ LET r == req[i] IN
     /\ Seats(r.table, r.stamp)
     /\ IF r.over THEN Sits(r.table, r.n, TRUE) ELSE UNCHANGED sitting
  /\ Answers(i)
  /\ UNCHANGED <<clock, check, booking, deaths, past>>

-----------------------------------------------------------------------------
(* Clearing a table: POST /api/tables/:id/free, and PUT with a status      *)
(* other than occupied.                                                    *)

FreeComes(i) == \E t \in Tables :
  Comes(i, [FreeSlot EXCEPT !.op = "free", !.pc = "look", !.table = t])

FreeLooks(i) ==
  /\ At(i, "free", "look")
  /\ IF table[req[i].table].status = "occupied" THEN Proceeds(i, "owed") ELSE Answers(i)
  /\ UNCHANGED <<clock, table, check, booking, deaths, sitting, past>>

FreeChecksBills(i) ==
  /\ At(i, "free", "owed")
  /\ IF Unsettled(req[i].table) = {} THEN Proceeds(i, "clear") ELSE Answers(i)
  /\ UNCHANGED <<clock, table, check, booking, deaths, sitting, past>>

FreeClears(i) ==
  /\ At(i, "free", "clear")
  /\ LET t == req[i].table IN
     /\ Clears(t, "available") /\ Leaves(i, t)
     /\ adrift' = adrift \cup LateOn(i, t)
     /\ Proceeds(i, "hush")
  /\ UNCHANGED <<clock, check, booking, deaths, contested>>

\* (cleared_at, which the order log shows, is not modelled.)
FreeHushes(i) ==
  /\ At(i, "free", "hush")
  /\ Hushes(req[i].table)
  /\ Answers(i)
  /\ UNCHANGED <<clock, check, booking, deaths, sitting, past>>

\* Checkout, or a table sent to be cleaned (or reserved, which is no different
\* here): the whole row is reset.
LeaveComes(i) == \E t \in Tables, to \in {"available", "cleaning"} :
  Comes(i, [FreeSlot EXCEPT !.op = "leave", !.pc = "hush", !.table = t, !.to = to])

\* The bill request is dropped by a write of its own.
LeaveHushes(i) ==
  /\ At(i, "leave", "hush")
  /\ Hushes(req[i].table)
  /\ Proceeds(i, "write")
  /\ UNCHANGED <<clock, check, booking, deaths, sitting, past>>

\* No bill stands in the way of this one.
LeaveWrites(i) ==
  /\ At(i, "leave", "write")
  /\ LET r == req[i]  t == r.table IN
     /\ Clears(t, r.to) /\ Leaves(i, t)
     /\ adrift' = adrift \cup {c \in Checks : Owes(c) /\ check[c].table = t}
  /\ Answers(i)
  /\ UNCHANGED <<clock, check, booking, deaths, contested>>

-----------------------------------------------------------------------------
(* The bill: request-bill, cancel-bill-request, and the payment that       *)
(* settles an order.                                                       *)

AskComes(i) == \E t \in Tables :
  Comes(i, [FreeSlot EXCEPT !.op = "ask", !.pc = "look", !.table = t])

AskLooks(i) ==
  /\ At(i, "ask", "look")
  /\ IF table[req[i].table].status = "occupied" THEN Proceeds(i, "stands") ELSE Answers(i)
  /\ UNCHANGED <<clock, table, check, booking, deaths, sitting, past>>

\* A request that stands is not stamped again.
AskReadsStamp(i) ==
  /\ At(i, "ask", "stands")
  /\ IF table[req[i].table].bill THEN Answers(i) ELSE Proceeds(i, "stamp")
  /\ UNCHANGED <<clock, table, check, booking, deaths, sitting, past>>

AskStamps(i) ==
  /\ At(i, "ask", "stamp")
  /\ table' = [table EXCEPT ![req[i].table].bill = TRUE]
  /\ Proceeds(i, "tell")
  /\ UNCHANGED <<clock, check, booking, deaths, sitting, past>>

\* stampBillMethod: the open checks keep the stamp when the sitting is over.
AskTells(i) ==
  /\ At(i, "ask", "tell")
  /\ check' = [c \in Checks |-> IF c \in OpenOn(req[i].table)
                                THEN [check[c] EXCEPT !.asked = TRUE] ELSE check[c]]
  /\ Answers(i)
  /\ UNCHANGED <<clock, table, booking, deaths, sitting, past>>

RetractComes(i) == \E t \in Tables :
  Comes(i, [FreeSlot EXCEPT !.op = "retract", !.pc = "hush", !.table = t])

RetractHushes(i) ==
  /\ At(i, "retract", "hush")
  /\ Hushes(req[i].table)
  /\ Answers(i)
  /\ UNCHANGED <<clock, check, booking, deaths, sitting, past>>

PayComes(i) == \E c \in Checks :
  /\ Owes(c)
  /\ Comes(i, [FreeSlot EXCEPT !.op = "pay", !.pc = "look", !.check = c])

\* refreshPaymentStatus reads the order, and its table with it.
PayReads(i) ==
  /\ At(i, "pay", "look")
  /\ Goes(i, [req[i] EXCEPT !.pc = "settle", !.table = check[req[i].check].table])
  /\ UNCHANGED <<clock, table, check, booking, deaths, sitting, past>>

PaySettles(i) ==
  /\ At(i, "pay", "settle")
  /\ check' = [check EXCEPT ![req[i].check].paid = TRUE]
  /\ Proceeds(i, "hush")
  /\ UNCHANGED <<clock, table, booking, deaths, sitting, past>>

\* The other checks of the table that still owe.  The statement selects only the
\* id, so no row has a table to compare and there are never any.
OthersOwing(i) == {}

PayHushes(i) ==
  /\ At(i, "pay", "hush")
  /\ IF OthersOwing(i) = {} /\ req[i].table \in Tables
     THEN Hushes(req[i].table) ELSE UNCHANGED table
  /\ Answers(i)
  /\ UNCHANGED <<clock, check, booking, deaths, sitting, past>>

-----------------------------------------------------------------------------
(* A new order for a table: POST /api/orders.                              *)

OrderComes(i) == \E t \in Tables, c \in Checks, qr \in BOOLEAN :
  /\ check[c].state = "none" /\ \A j \in Slots : req[j].op = "order" => req[j].check # c
  /\ Comes(i, [FreeSlot EXCEPT !.op = "order", !.pc = "insert", !.table = t, !.check = c,
                               !.qr = qr])

OrderInserts(i) ==
  /\ At(i, "order", "insert")
  /\ LET r == req[i] IN
     /\ check' = [check EXCEPT ![r.check] =
                    [state |-> "open", table |-> r.table, paid |-> FALSE, asked |-> FALSE,
                     arrived |-> Len(at)]]
     /\ Proceeds(i, IF r.qr THEN "seat" ELSE "peek")
  /\ UNCHANGED <<clock, table, booking, deaths, sitting, past>>

\* An order without a table's code looks at the row before it writes to it.
OrderPeeks(i) ==
  /\ At(i, "order", "peek")
  /\ IF table[req[i].table].status = "occupied" THEN Answers(i) ELSE Proceeds(i, "seat")
  /\ UNCHANGED <<clock, table, check, booking, deaths, sitting, past>>

\* The first order seats the table.  Nothing here asks for bookings.
OrderSeats(i) ==
  /\ At(i, "order", "seat")
  /\ LET r == req[i] IN
     IF table[r.table].status # "occupied"
     THEN Seats(r.table, r.n) /\ Sits(r.table, r.n, FALSE) ELSE UNCHANGED <<table, sitting>>
  /\ Answers(i)
  /\ UNCHANGED <<clock, check, booking, deaths, past>>

\* The check is closed, or voided, by the handlers of the order itself.
CheckEnds == \E c \in Checks, state \in {"completed", "cancelled"} :
  /\ Passes("order") /\ check[c].state = "open"
  /\ check' = [check EXCEPT ![c].state = state]
  /\ UNCHANGED <<now, table, booking, req, deaths, sitting, past>>

-----------------------------------------------------------------------------
(* Moving a check to another table: transferCheck.                         *)

MoveComes(i) == \E c \in Checks, u \in Tables, mgr \in BOOLEAN :
  /\ check[c].state # "none"
  /\ Comes(i, [FreeSlot EXCEPT !.op = "move", !.pc = "look", !.check = c, !.dest = u,
                               !.mgr = mgr])

MoveLooks(i) ==
  /\ At(i, "move", "look")
  /\ LET r == req[i]  c == check[r.check] IN
     IF c.state = "cancelled" \/ c.paid \/ c.table = r.dest
     THEN Answers(i)
     ELSE Goes(i, [r EXCEPT !.pc = "dest", !.table = c.table])
  /\ UNCHANGED <<clock, table, check, booking, deaths, sitting, past>>

MoveSeesDest(i) ==
  /\ At(i, "move", "dest")
  /\ IF table[req[i].dest].status = "occupied" /\ ~req[i].mgr
     THEN Answers(i) ELSE Proceeds(i, "held")
  /\ UNCHANGED <<clock, table, check, booking, deaths, sitting, past>>

MoveChecksHold(i) ==
  /\ At(i, "move", "held")
  /\ IF Blocking(req[i].dest) # {} /\ ~req[i].mgr THEN Answers(i) ELSE Proceeds(i, "refile")
  /\ UNCHANGED <<clock, table, check, booking, deaths, sitting, past>>

MoveRefiles(i) ==
  /\ At(i, "move", "refile")
  /\ check' = [check EXCEPT ![req[i].check].table = req[i].dest,
                            ![req[i].check].arrived = Len(at)]
  /\ Proceeds(i, "sit")
  /\ UNCHANGED <<clock, table, booking, deaths, sitting, past>>

\* The destination is taken whatever it has become, and its clock is kept.
MoveSits(i) ==
  /\ At(i, "move", "sit")
  /\ LET r == req[i]  row == table[r.dest] IN
     /\ Seats(r.dest, IF row.seated = 0 THEN r.n ELSE row.seated)
     /\ Sits(r.dest, r.n, row.status = "occupied")
  /\ Proceeds(i, "remain")
  /\ UNCHANGED <<clock, check, booking, deaths, past>>

\* The table they left stays theirs while another check on it is unpaid.
MoveCountsRest(i) ==
  /\ At(i, "move", "remain")
  /\ IF \E c \in Unpaid \ {req[i].check} : check[c].table = req[i].table
     THEN Answers(i) ELSE Proceeds(i, "vacate")
  /\ UNCHANGED <<clock, table, check, booking, deaths, sitting, past>>

MoveVacates(i) ==
  /\ At(i, "move", "vacate")
  /\ LET t == req[i].table IN
     Clears(t, "available") /\ Leaves(i, t) /\ adrift' = adrift \cup LateOn(i, t)
  /\ Answers(i)
  /\ UNCHANGED <<clock, check, booking, deaths, contested>>

-----------------------------------------------------------------------------
(* The sweep: releaseOverstayedTables.                                     *)

SweepComes(i) == Comes(i, [FreeSlot EXCEPT !.op = "sweep", !.pc = "look"])

SweepReads(i) ==
  /\ At(i, "sweep", "look")
  /\ LET occupied == {t \in Tables : table[t].status = "occupied"} IN
     IF occupied = {} THEN Answers(i)
     ELSE Goes(i, [req[i] EXCEPT !.pc = "owed", !.todo = occupied,
                                 !.seen = [t \in Tables |-> table[t].seated]])
  /\ UNCHANGED <<clock, table, check, booking, deaths, sitting, past>>

\* tableOverstayed, by the stamp that was read and the time the sweep began.
Overstayed(i, t) == at[req[i].n] - at[req[i].seen[t]] > MaxHours

SweepReadsBills(i) ==
  /\ At(i, "sweep", "owed")
  /\ LET r == req[i]
         todo == {t \in r.todo : r.seen[t] = 0 \/ Overstayed(i, t)}
     IN IF todo = {} THEN Answers(i)
        ELSE Goes(i, [r EXCEPT !.pc = "turn", !.todo = todo,
                               !.owed = {check[c].table : c \in Unpaid}])
  /\ UNCHANGED <<clock, table, check, booking, deaths, sitting, past>>

NextStatus(owes) == IF owes THEN "cleaning" ELSE "available"

\* One table: stamped if it was blank, released otherwise, whoever sits there now.
SweepTurns(i) ==
  /\ At(i, "sweep", "turn")
  /\ \E t \in req[i].todo :
       LET r == req[i]  rest == r.todo \ {t} IN
       /\ IF r.seen[t] = 0
          THEN /\ table' = [table EXCEPT ![t].seated = r.n]
               /\ UNCHANGED <<sitting, adrift>>
          ELSE /\ Clears(t, NextStatus(t \in r.owed)) /\ Leaves(i, t)
               /\ adrift' = adrift \cup LateOn(i, t)
       /\ IF rest = {} THEN Answers(i) ELSE Goes(i, [r EXCEPT !.todo = rest])
  /\ UNCHANGED <<clock, check, booking, deaths, contested>>

-----------------------------------------------------------------------------
(* Reservations.                                                           *)

\* POST: the condition is part of the insert.
Books == \E b \in Bookings, t \in Places, w \in Windows :
  /\ Passes("rebook") /\ booking[b].status = "none" /\ Clashes(b, t, w) = {}
  /\ booking' = [booking EXCEPT ![b] = [status |-> "active", gone |-> FALSE, table |-> t,
                                        window |-> w, written |-> Len(at)]]
  /\ contested' = contested \ {b}
  /\ UNCHANGED <<now, table, check, req, deaths, sitting, adrift>>

\* Released by a manager, or recorded as a no-show.
Withdraws == \E b \in Bookings :
  /\ Passes("rebook") /\ booking[b].status # "none" /\ ~booking[b].gone
  /\ booking' = [booking EXCEPT ![b].status = "cancelled", ![b].gone = TRUE]
  /\ UNCHANGED <<now, table, check, req, deaths, sitting, past>>

Deletes == \E b \in Bookings :
  /\ Passes("rebook") /\ booking[b].status # "none"
  /\ booking' = [booking EXCEPT ![b] = NoBooking]
  /\ UNCHANGED <<now, table, check, req, deaths, sitting, past>>

\* PUT of a status alone: whatever is asked for, without a look at other bookings.
Restates == \E b \in Bookings, status \in {"active", "seated", "cancelled"} :
  /\ Passes("rebook") /\ booking[b].status \notin {"none", status}
  /\ booking' = [booking EXCEPT ![b].status = status, ![b].written = Len(at)]
  /\ contested' = IF status = "active" THEN contested \cup {b} ELSE contested
  /\ UNCHANGED <<now, table, check, req, deaths, sitting, adrift>>

\* PUT of a table or time: read, look for a clash, write.
RebookComes(i) == \E b \in Bookings, t \in Places, w \in Windows :
  /\ booking[b].status # "none"
  /\ Comes(i, [FreeSlot EXCEPT !.op = "rebook", !.pc = "clash", !.booking = b,
                               !.dest = t, !.window = w])

RebookChecks(i) ==
  /\ At(i, "rebook", "clash")
  /\ LET r == req[i] IN
     IF Clashes(r.booking, r.dest, r.window) = {} THEN Proceeds(i, "write") ELSE Answers(i)
  /\ UNCHANGED <<clock, table, check, booking, deaths, sitting, past>>

RebookWrites(i) ==
  /\ At(i, "rebook", "write")
  /\ LET r == req[i]  b == r.booking IN
     IF booking[b].status = "none" THEN UNCHANGED <<booking, contested>>
     ELSE /\ booking' = [booking EXCEPT ![b].table = r.dest, ![b].window = r.window,
                                        ![b].written = Len(at)]
          /\ contested' =
               IF \E d \in Clashes(b, r.dest, r.window) : booking[d].written >= r.n
               THEN contested \cup {b} ELSE contested \ {b}
  /\ Answers(i)
  /\ UNCHANGED <<clock, table, check, deaths, sitting, adrift>>

-----------------------------------------------------------------------------
Tick ==
  /\ now < MaxTime
  /\ now' = now + 1
  /\ UNCHANGED <<at, table, check, booking, req, deaths, sitting, past>>

\* The statements that follow a write of their request's.
Halfway == {"claim", "write", "hush", "tell", "peek", "seat", "sit", "remain", "vacate", "turn"}

\* A statement fails, or the Worker is ended: the rest is not done.  A request that
\* has written nothing has done nothing.
Dies(i) ==
  /\ req[i].pc \in Halfway /\ deaths < MaxDeaths
  /\ deaths' = deaths + 1
  /\ adrift' = IF req[i].op \in {"order", "move"} THEN adrift \cup {req[i].check} ELSE adrift
  /\ Answers(i)
  /\ UNCHANGED <<clock, table, check, booking, sitting, contested>>

Comings(i) ==
  \/ SeatComes(i) \/ FreeComes(i) \/ LeaveComes(i) \/ AskComes(i) \/ RetractComes(i)
  \/ PayComes(i) \/ OrderComes(i) \/ MoveComes(i) \/ SweepComes(i) \/ RebookComes(i)

Seating(i)  == SeatLooks(i) \/ SeatChecksHold(i) \/ SeatReleases(i) \/ SeatClaims(i) \/ SeatWrites(i)
Clearing(i) == \/ FreeLooks(i) \/ FreeChecksBills(i) \/ FreeClears(i) \/ FreeHushes(i)
               \/ LeaveHushes(i) \/ LeaveWrites(i)
Billing(i)  == \/ AskLooks(i) \/ AskReadsStamp(i) \/ AskStamps(i) \/ AskTells(i) \/ RetractHushes(i)
               \/ PayReads(i) \/ PaySettles(i) \/ PayHushes(i)
Ordering(i) == OrderInserts(i) \/ OrderPeeks(i) \/ OrderSeats(i)
Moving(i)   == \/ MoveLooks(i) \/ MoveSeesDest(i) \/ MoveChecksHold(i) \/ MoveRefiles(i)
               \/ MoveSits(i) \/ MoveCountsRest(i) \/ MoveVacates(i)
Sweeping(i) == SweepReads(i) \/ SweepReadsBills(i) \/ SweepTurns(i)
Rebooking(i) == RebookChecks(i) \/ RebookWrites(i)

Next ==
  \/ \E i \in Slots : \/ Comings(i) \/ Seating(i) \/ Clearing(i) \/ Billing(i) \/ Ordering(i)
                      \/ Moving(i) \/ Sweeping(i) \/ Rebooking(i) \/ Dies(i)
  \/ Books \/ Withdraws \/ Deletes \/ Restates \/ CheckEnds \/ Tick

Spec == Init /\ [][Next]_vars

-----------------------------------------------------------------------------
(* Properties.                                                             *)

\* "A table holds one party at a time": two parties share one only when a manager
\* or a moved check put one there, or when one sat down while a request that began
\* before was clearing the table.  Waiters, guests' first orders, edits and clears
\* may interleave as they like: the claim is conditional (claimSeat, orders.js).
OneParty == \A t \in Tables : \A p, q \in sitting[t] :
  ~p.displaced /\ ~q.displaced => p = q

\* Two bookings of one table never overlap, unless one was revived by its status
\* or written between another one's check and its write (reservations.js).
NoDoubleBooking == \A b, d \in Bookings :
  /\ b # d /\ Active(b) /\ Active(d)
  /\ booking[b].table = booking[d].table /\ booking[b].table # None
  /\ Overlap(booking[b].window, booking[d].window)
  => b \in contested \/ d \in contested

\* A bill keeps its table: no open check is left on a table that is shown as free,
\* unless it came while the table was being cleared, or checkout cleared it, or the
\* request that was to seat the check has not finished (free, transfer, sweep).
BillKeepsTable == \A c \in Checks :
  Owes(c) /\ table[check[c].table].status = "available" =>
    c \in adrift \/ \E i \in Slots : req[i].op \in {"order", "move"} /\ req[i].check = c

=============================================================================
