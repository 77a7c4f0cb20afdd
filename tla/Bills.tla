--------------------------------- MODULE Bills ---------------------------------
(***************************************************************************)
(* What a check comes to: taking an order, adding a round, splitting,      *)
(* merging, moving a line, voiding (handlers/orders.js).                   *)
(*                                                                         *)
(* Each awaited statement of a request is an action, and other requests    *)
(* run in between: none of these handlers uses a transaction, and most of  *)
(* their UPDATEs are by id alone.  What is paid on a check is Till's; here *)
(* a check is settled in one step.  What its lines do in the kitchen is    *)
(* Kitchen's; here a line is on the bill or struck off.                   *)
(***************************************************************************)
EXTENDS Sums, Integers, Sequences, FiniteSets

CONSTANTS
  Ids,          \* the ids an order may get, numbers
  Extra,        \* Extra[o]: tip, tax and charges less discount of an order taken before
  Standing,     \* the lines of those orders
  Tickets,      \* the ids tills name their orders by
  Prices,       \* what the lines of a round may come to
  Extras,       \* what may be added to a new order
  Seats,        \* into how many checks a check is split
  Ops,          \* the operations the run is about
  Slots,        \* requests that may be under way at once
  MaxRequests,  \* bound: requests and settlements in a behaviour
  MaxFaults     \* bound: statements that fail

AllOps == {"create", "append", "split", "merge", "move", "void", "pay"}

ASSUME IdsAssumption == Ids \subseteq Nat \ {0} /\ IsFiniteSet(Ids)
ASSUME StandingAssumption ==
  /\ DOMAIN Extra \subseteq Ids /\ \A o \in DOMAIN Extra : Extra[o] \in Nat
  /\ Standing \in Seq([order : DOMAIN Extra, no : Nat, price : Nat \ {0}, status : {"open"}])
ASSUME TicketsAssumption == Tickets \subseteq Ids \ DOMAIN Extra
ASSUME MoneyAssumption   == Prices \subseteq Nat \ {0} /\ Extras \subseteq Nat
ASSUME SeatsAssumption   == Seats \in 2 .. 10
ASSUME OpsAssumption     == Ops \subseteq AllOps
ASSUME BoundsAssumption  == MaxRequests \in Nat /\ MaxFaults \in Nat

VARIABLES
  orders,   \* the rows of orders, by id
  lines,    \* the rows of order_items, in the order they were inserted
  jobs,     \* jobs[o]: rows of delivery for order o
  req,      \* req[i]: the request in slot i
  started,  \* history: how many requests came
  torn,     \* history: orders whose requests met, or were cut short
  flat,     \* history: orders whose bill a merge or a move reckoned last
  astray,   \* history: those it took to an order that was closed already
  faults    \* how many statements have failed

rows    == <<orders, lines, jobs>>
history == <<started, torn, flat, astray>>
billsVars == <<rows, req, history, faults>>

Closed == {"completed", "cancelled"}

\* parent and share: for a check that came of a split, whose it is, and how much.
Absent == [status |-> "absent", voided |-> FALSE, paid |-> "unpaid", total |-> 0,
           extra |-> 0, parent |-> 0, share |-> 0]

Pcs == {"free", "insert", "lines", "job", "newjob", "check", "number", "sum", "bill",
        "seat", "retire", "target", "carry", "close", "restSum", "restBill", "cancel",
        "strike"}

\* A request: its order and the other one, its line, what it adds, and what it
\* has read: the next line number, totals, the sum of lines; seat counts checks.
FreeSlot == [op |-> "none", pc |-> "free", order |-> 0, target |-> 0, line |-> 0,
             price |-> 0, extra |-> 0, delivery |-> FALSE, no |-> 0, total |-> 0,
             sum |-> 0, seat |-> 0]

LinesOn(o) == {n \in DOMAIN lines : lines[n].order = o}

\* What the lines of o come to, those that were struck off left out.
Subtotal(o) ==
  SumOver([n \in DOMAIN lines |-> lines[n].price],
          {n \in LinesOn(o) : lines[n].status # "off"})

BillsInit ==
  /\ lines = Standing
  /\ orders = [o \in Ids |->
       IF o \in DOMAIN Extra
       THEN [Absent EXCEPT !.status = "open", !.extra = Extra[o],
                           !.total = Subtotal(o) + Extra[o]]
       ELSE Absent]
  /\ jobs = [o \in Ids |-> 0]
  /\ req = [i \in Slots |-> FreeSlot]
  /\ started = 0 /\ torn = {} /\ flat = {} /\ astray = {} /\ faults = 0

-----------------------------------------------------------------------------
(* Requests.                                                               *)

At(i, pc)  == req[i].pc = pc
Goes(i, r) == req' = [req EXCEPT ![i] = r]
Steps(i, pc) == Goes(i, [req[i] EXCEPT !.pc = pc])
Answers(i) == Goes(i, FreeSlot)

Touches(r) == {r.order, r.target} \ {0}

\* The orders of request r that another request is about.
Met(i, r) == Touches(r) \cap UNION {Touches(req[j]) : j \in Slots \ {i}}

\* A till that sends its order again does not disturb it.
SameTicket(i, r) == r.op = "create" /\ \A j \in Slots \ {i} :
                      r.order \in Touches(req[j]) => req[j].op = "create"

Arrives(i, r) ==
  /\ At(i, "free") /\ started < MaxRequests /\ r.op \in Ops
  /\ Goes(i, r)
  /\ started' = started + 1
  /\ torn' = IF SameTicket(i, r) THEN torn ELSE torn \cup Met(i, r)
  /\ UNCHANGED <<rows, flat, astray, faults>>

Present == {o \in Ids : orders[o].status # "absent"}

\* POST /api/orders.  The total is the lines and the extras whoever reckons it:
\* the till, or priceGuestOrder from the menu.  A till that got no answer sends
\* the order again, under the id it gave it.
CreateArrives(i) == \E o \in Tickets, p \in Prices, e \in Extras, d \in BOOLEAN :
  Arrives(i, [FreeSlot EXCEPT !.op = "create", !.pc = "insert", !.order = o,
                              !.price = p, !.extra = e, !.delivery = d])

AppendArrives(i) == \E o \in Present, p \in Prices :
  Arrives(i, [FreeSlot EXCEPT !.op = "append", !.pc = "check", !.order = o, !.price = p])

SplitArrives(i) == \E o \in Present :
  Arrives(i, [FreeSlot EXCEPT !.op = "split", !.pc = "check", !.order = o])

MergeArrives(i) == \E o, t \in Present :
  o # t /\ Arrives(i, [FreeSlot EXCEPT !.op = "merge", !.pc = "check", !.order = o,
                                       !.target = t])

MoveArrives(i) == \E n \in DOMAIN lines, t \in Present :
  /\ t # lines[n].order
  /\ Arrives(i, [FreeSlot EXCEPT !.op = "move", !.pc = "carry", !.line = n,
                                 !.order = lines[n].order, !.target = t])

VoidArrives(i) == \E o \in Present :
  Arrives(i, [FreeSlot EXCEPT !.op = "void", !.pc = "check", !.order = o])

\* The check is settled (recordPayment and refreshPaymentStatus, in Till).
Settles(o) ==
  /\ "pay" \in Ops /\ started < MaxRequests
  /\ orders[o].status = "open" /\ ~orders[o].voided /\ orders[o].paid = "unpaid"
  /\ orders' = [orders EXCEPT ![o].paid = "paid"]
  /\ started' = started + 1
  /\ torn' = torn \cup {u \in {o} : \E j \in Slots : u \in Touches(req[j])}
  /\ UNCHANGED <<lines, jobs, req, flat, astray, faults>>

-----------------------------------------------------------------------------
(* Taking an order.                                                        *)

Taken(o) == orders[o].status # "absent"

\* The row; an id that is taken fails the primary key, and the request with it.
InsertsOrder(i) ==
  LET r == req[i]
  IN /\ At(i, "insert")
     /\ IF ~Taken(r.order)
        THEN /\ orders' = [orders EXCEPT ![r.order] =
                  [Absent EXCEPT !.status = "open", !.extra = r.extra,
                                 !.total = r.price + r.extra]]
             /\ Steps(i, "lines")
        ELSE Answers(i) /\ UNCHANGED orders
     /\ UNCHANGED <<lines, jobs, history, faults>>

\* insertOrderItems: the lines of a round in one batch, numbered from req.no.
AfterLines(r) == CASE r.op = "append" -> "sum"
                   [] r.op = "create" /\ r.delivery -> "job"
                   [] OTHER -> "free"

Proceeds(i, pc) == IF pc = "free" THEN Answers(i) ELSE Steps(i, pc)

InsertsLines(i) ==
  LET r == req[i]
  IN /\ At(i, "lines")
     /\ lines' = Append(lines, [order |-> r.order, no |-> r.no, price |-> r.price,
                                status |-> "open"])
     /\ Proceeds(i, AfterLines(r))
     /\ UNCHANGED <<orders, jobs, history, faults>>

\* Its catch: a new order stands without its lines, a round is refused.
LinesFail(i) ==
  LET r == req[i]
  IN /\ At(i, "lines") /\ faults < MaxFaults
     /\ faults' = faults + 1
     /\ IF r.op = "create"
        THEN torn' = torn \cup {r.order} /\ Proceeds(i, AfterLines(r))
        ELSE Answers(i) /\ UNCHANGED torn
     /\ UNCHANGED <<rows, started, flat, astray>>

\* createDeliveryJob: one job, looked for first, then inserted.
LooksForJob(i) ==
  /\ At(i, "job")
  /\ Proceeds(i, IF jobs[req[i].order] > 0 THEN "free" ELSE "newjob")
  /\ UNCHANGED <<rows, history, faults>>

InsertsJob(i) ==
  /\ At(i, "newjob")
  /\ jobs' = [jobs EXCEPT ![req[i].order] = @ + 1]
  /\ Answers(i)
  /\ UNCHANGED <<orders, lines, history, faults>>

-----------------------------------------------------------------------------
(* A round on an open check.                                               *)

TakesRounds(o) ==
  ~orders[o].voided /\ orders[o].status \notin Closed /\ orders[o].paid # "paid"

AppendChecks(i) ==
  /\ At(i, "check") /\ req[i].op = "append"
  /\ Proceeds(i, IF TakesRounds(req[i].order) THEN "number" ELSE "free")
  /\ UNCHANGED <<rows, history, faults>>

\* MAX(line_no) + 1, which is 0 for an order without lines.
LineOffset(o) == Max({0} \cup {lines[n].no + 1 : n \in LinesOn(o)})

AppendNumbers(i) ==
  /\ At(i, "number")
  /\ Goes(i, [req[i] EXCEPT !.pc = "lines", !.no = LineOffset(req[i].order)])
  /\ UNCHANGED <<rows, history, faults>>

\* The order whose lines a request adds up.
Reckons(r) == CASE r.op = "append" -> r.order
                [] r.op = "merge"  -> r.target
                [] r.op = "move"   -> IF r.pc \in {"sum", "bill"} THEN r.order ELSE r.target

ReadsLines(i) ==
  /\ At(i, "sum") \/ At(i, "restSum")
  /\ Goes(i, [req[i] EXCEPT !.pc = IF @ = "sum" THEN "bill" ELSE "restBill",
                            !.sum = Subtotal(Reckons(req[i]))])
  /\ UNCHANGED <<rows, history, faults>>

\* The running bill and the status rolled up from the lines, by id alone.
\* Mutant: the new bill leaves out the tip, the tax and the charges.
RunningTotalBare(r) == r.sum

RunningTotal(r) == r.sum + r.extra

AppendBills(i) ==
  LET r == req[i]
  IN /\ At(i, "bill") /\ r.op = "append"
     /\ orders' = [orders EXCEPT
          ![r.order].total = RunningTotal([r EXCEPT !.extra = orders[r.order].extra]),
          ![r.order].status = IF r.sum > 0 THEN "open" ELSE @]
     /\ flat' = flat \ {r.order}
     /\ Answers(i)
     /\ UNCHANGED <<lines, jobs, started, torn, astray, faults>>

-----------------------------------------------------------------------------
(* Splitting a check evenly.                                               *)

Splittable(o) == ~orders[o].voided /\ orders[o].paid # "paid" /\ orders[o].total > 0

SplitChecks(i) == LET o == req[i].order IN
  /\ At(i, "check") /\ req[i].op = "split"
  /\ IF Splittable(o)
     THEN Goes(i, [req[i] EXCEPT !.pc = "seat", !.total = orders[o].total, !.seat = 1])
     ELSE Answers(i)
  /\ UNCHANGED <<rows, history, faults>>

\* Half a unit is rounded up.
EvenShare(total) == (2 * total + Seats) \div (2 * Seats)

\* Mutant: every share is rounded alike.
ShareOfEven(total, seat) == EvenShare(total)

\* The last check absorbs what rounding leaves.
ShareOf(total, seat) ==
  IF seat = Seats THEN total - EvenShare(total) * (Seats - 1) ELSE EvenShare(total)

Spare == (Ids \ Tickets) \ Present

SplitInserts(i) ==
  LET r == req[i]
      c == Min(Spare)
      s == ShareOf(r.total, r.seat)
  IN /\ At(i, "seat") /\ Spare # {}
     /\ orders' = [orders EXCEPT ![c] = [Absent EXCEPT !.status = "open", !.total = s,
                                           !.parent = r.order, !.share = s]]
     /\ Goes(i, [r EXCEPT !.pc = IF r.seat = Seats THEN "retire" ELSE "seat",
                          !.seat = @ + 1])
     /\ UNCHANGED <<lines, jobs, history, faults>>

SplitRetires(i) ==
  /\ At(i, "retire")
  /\ orders' = [orders EXCEPT ![req[i].order].status = "cancelled",
                              ![req[i].order].paid = "split",
                              ![req[i].order].voided = TRUE]
  /\ Answers(i)
  /\ UNCHANGED <<lines, jobs, history, faults>>

-----------------------------------------------------------------------------
(* Merging two checks; moving a line.                                      *)

\* Both orders are read, one after the other, and neither is asked its state.
MergeReadsSource(i) ==
  /\ At(i, "check") /\ req[i].op = "merge"
  /\ Goes(i, [req[i] EXCEPT !.pc = "target", !.total = orders[req[i].order].total])
  /\ UNCHANGED <<rows, history, faults>>

MergeReadsTarget(i) ==
  /\ At(i, "target")
  /\ Goes(i, [req[i] EXCEPT !.pc = "carry", !.total = @ + orders[req[i].target].total])
  /\ UNCHANGED <<rows, history, faults>>

\* What a merge carries over, and a move.
\* Mutant: a merge carries one line.
CarriedOne(r) == LET on == LinesOn(r.order)
                 IN IF r.op = "merge" THEN {n \in on : n = Min(on)} ELSE on \cap {r.line}

Carried(r) == IF r.op = "merge" THEN LinesOn(r.order) ELSE LinesOn(r.order) \cap {r.line}

Carries(i) ==
  LET r == req[i]
  IN /\ At(i, "carry")
     /\ lines' = [n \in DOMAIN lines |->
          IF n \in Carried(r) THEN [lines[n] EXCEPT !.order = r.target] ELSE lines[n]]
     /\ astray' = IF orders[r.target].status \in Closed THEN astray \cup Carried(r)
                                                         ELSE astray
     /\ flat' = flat \cup Touches(r)
     /\ Steps(i, "sum")
     /\ UNCHANGED <<orders, jobs, started, torn, faults>>

\* The totals stand in for the lines only when there are none at all.
MergedTotal(r) == IF r.sum # 0 THEN r.sum ELSE r.total

MergeBills(i) ==
  LET r == req[i]
  IN /\ At(i, "bill") /\ r.op = "merge"
     /\ orders' = [orders EXCEPT ![r.target].total = MergedTotal(r)]
     /\ Steps(i, "close")
     /\ UNCHANGED <<lines, jobs, history, faults>>

MergeCloses(i) ==
  /\ At(i, "close")
  /\ orders' = [orders EXCEPT ![req[i].order].status = "cancelled"]
  /\ Answers(i)
  /\ UNCHANGED <<lines, jobs, history, faults>>

\* A move reckons the order it left, then the one it went to.
MoveBills(i) ==
  LET r == req[i]
  IN /\ r.op = "move" /\ (At(i, "bill") \/ At(i, "restBill"))
     /\ orders' = [orders EXCEPT ![Reckons(r)].total = r.sum]
     /\ Proceeds(i, IF At(i, "bill") THEN "restSum" ELSE "free")
     /\ UNCHANGED <<lines, jobs, history, faults>>

-----------------------------------------------------------------------------
(* Voiding a check: what it does to the order and its lines.               *)

VoidChecks(i) ==
  /\ At(i, "check") /\ req[i].op = "void"
  /\ Proceeds(i, IF orders[req[i].order].voided THEN "free" ELSE "cancel")
  /\ UNCHANGED <<rows, history, faults>>

VoidCancels(i) ==
  /\ At(i, "cancel")
  /\ orders' = [orders EXCEPT ![req[i].order].status = "cancelled",
                              ![req[i].order].voided = TRUE]
  /\ Steps(i, "strike")
  /\ UNCHANGED <<lines, jobs, history, faults>>

VoidStrikes(i) ==
  /\ At(i, "strike")
  /\ lines' = [n \in DOMAIN lines |-> IF lines[n].order = req[i].order
                                      THEN [lines[n] EXCEPT !.status = "off"] ELSE lines[n]]
  /\ Answers(i)
  /\ UNCHANGED <<orders, jobs, history, faults>>

-----------------------------------------------------------------------------
(* A statement fails, or the Worker is ended, after something was written.  *)

Halfway(r) == \/ r.pc \in {"job", "newjob", "sum", "bill", "restSum", "restBill",
                            "retire", "close", "strike"}
              \/ r.pc = "lines" /\ r.op = "create"
              \/ r.pc = "seat" /\ r.seat > 1

Dies(i) ==
  /\ Halfway(req[i]) /\ faults < MaxFaults
  /\ faults' = faults + 1
  /\ torn' = torn \cup Touches(req[i])
  /\ Answers(i)
  /\ UNCHANGED <<rows, started, flat, astray>>

-----------------------------------------------------------------------------
Arrivals(i) == CreateArrives(i) \/ AppendArrives(i) \/ SplitArrives(i)
                 \/ MergeArrives(i) \/ MoveArrives(i) \/ VoidArrives(i)

Creates(i) == InsertsOrder(i) \/ InsertsLines(i) \/ LinesFail(i)
                \/ LooksForJob(i) \/ InsertsJob(i)

Rounds(i) == AppendChecks(i) \/ AppendNumbers(i) \/ ReadsLines(i) \/ AppendBills(i)

Splits(i) == SplitChecks(i) \/ SplitInserts(i) \/ SplitRetires(i)

Merges(i) == MergeReadsSource(i) \/ MergeReadsTarget(i) \/ Carries(i)
               \/ MergeBills(i) \/ MergeCloses(i) \/ MoveBills(i)

Voids(i) == VoidChecks(i) \/ VoidCancels(i) \/ VoidStrikes(i)

BillsNext ==
  \/ \E i \in Slots : \/ Arrivals(i) \/ Creates(i) \/ Rounds(i) \/ Splits(i)
                      \/ Merges(i) \/ Voids(i) \/ Dies(i)
  \/ \E o \in Ids : Settles(o)

BillsSpec == BillsInit /\ [][BillsNext]_billsVars

-----------------------------------------------------------------------------
(* Properties.                                                             *)

\* No request is about order o.
Quiet(o) == \A i \in Slots : o \notin Touches(req[i])

\* An open check whose requests neither met nor failed comes to the lines on it
\* and its extras, whatever rounds were added and lines moved; a merge and a move
\* drop the extras (orders.js:1636-1653, 1823-1829, 1854-1859).  A check of a
\* split has its share instead, until it has lines that are not struck off.
BillIsItsLines == \A o \in Ids \ torn :
  orders[o].status = "open" /\ ~orders[o].voided /\ Quiet(o) /\ Subtotal(o) > 0 =>
    orders[o].total = Subtotal(o) + (IF o \in flat THEN 0 ELSE orders[o].extra)

Parts(o) == {c \in Ids : orders[c].parent = o}

\* "The parts sum to the whole" and "revenue is counted once" (orders.js:1702-1705):
\* a check that was split is retired, and its parts are worth what it was.
SplitCoversBill == \A o \in Ids \ (torn \cup flat) :
  Parts(o) # {} /\ Quiet(o) =>
    /\ orders[o].voided
    /\ SumOver([c \in Ids |-> orders[c].share], Parts(o)) = orders[o].total

\* Food the kitchen is to make is on a check that somebody will be asked to pay,
\* or on the parent of a split: no void, merge or split leaves a line behind on
\* an order that is gone (orders.js:1822-1830, 2513-2519).
FoodIsBilled == \A n \in DOMAIN lines \ astray :
  LET o == lines[n].order
  IN lines[n].status = "open" /\ Quiet(o) /\ o \notin torn =>
       orders[o].status # "cancelled" \/ orders[o].paid = "split"

===============================================================================
