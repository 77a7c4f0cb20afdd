-------------------------------- MODULE Till --------------------------------
(***************************************************************************)
(* Taking money: payments, refunds and voids against orders, and the cash  *)
(* drawers (handlers/payments.js, handlers/orders.js, lib/drawer.js,       *)
(* handlers/resources.js).                                                 *)
(*                                                                         *)
(* A request is a process that other requests overtake at every await, so  *)
(* each awaited statement is an action and what a handler read earlier is  *)
(* kept in its record.  A request that is refused before it writes changes *)
(* nothing and is not modelled; its arrival is its first read.  Amounts are*)
(* whole, so EPSILON (half a birr) makes "settled" an equality.            *)
(***************************************************************************)
EXTENDS Integers, Sequences, FiniteSets, Sums

CONSTANTS
  Orders,       \* the orders, numbered from 1
  Totals,       \* what an order may cost
  Amounts,      \* what a guest may hand over, or a manager give back
  Floats,       \* what a drawer may be opened with
  Ops,          \* the operations the run is about
  Slots,        \* requests that may be under way at once
  MaxRequests,  \* bound: requests in a behaviour
  MaxDrawers,   \* bound: drawers opened
  MaxFaults     \* bound: how often each fault strikes

AllOps == {"record", "verify", "reject", "refund", "void", "settle", "amend",
           "close", "paidin", "paidout"}

\* die: a statement of a request throws or the Worker is evicted; stumble: one
\* throws in void's loop, which catches it; reap: the runtime ends before a
\* deferred tally ran, or it throws; probe: the till cannot be read.
FaultKinds == {"die", "stumble", "reap", "probe"}

ASSUME OrdersAssumption  == Orders \subseteq Nat \ {0}
ASSUME AmountsAssumption == /\ Totals \subseteq Nat \ {0} /\ Totals # {}
                            /\ Amounts \subseteq Nat \ {0} /\ Floats \subseteq Nat
ASSUME OpsAssumption     == Ops \subseteq AllOps
ASSUME BoundsAssumption  == /\ MaxRequests \in Nat /\ MaxDrawers \in Nat
                            /\ MaxFaults \in [FaultKinds -> Nat]

VARIABLES
  orders,     \* orders[o]: payment_status, paid_at set?, voided_at set?, total
  payments,   \* the rows of payments, in the order they were inserted
  drawers,    \* the rows of cashdrawers, in the order they were opened
  req,        \* req[i]: the request in slot i
  deferred,   \* tallies handed to fireAndForget and not run yet
  started,    \* history: how many requests came
  untallied,  \* history: cash that no drawer counts
  faults      \* how often each fault has struck

book == <<orders, payments>>
vars == <<book, drawers, req, deferred, started, untallied, faults>>

PayStatuses == {"unpaid", "partial", "paid", "overpaid", "verifying"}
RowStatuses == {"recorded", "verified", "rejected", "refunded"}
Pcs == {"free", "till", "claim", "check", "release", "insert", "known", "mark",
        "owed", "sum", "store", "end", "write", "rows", "cancel", "give",
        "given", "tally", "count", "move"}

Order  == [pay : PayStatuses, paidAt : BOOLEAN, voided : BOOLEAN, total : Totals]
Row    == [order : Orders, cash : BOOLEAN, amount : Int, status : RowStatuses]
Drawer == [open : BOOLEAN, opening : Nat, sales : Int, in : Nat, out : Nat,
           expected : Int]

\* A request: its operation, what it will do next, its arguments, what it has
\* read, the row it inserted, and due, the cash of that row it has not passed on.
Request == [op : AllOps \cup {"none"}, pc : Pcs, order : Orders \cup {0}, row : Nat,
            amount : Int, cash : BOOLEAN, total : Nat, paidAt : BOOLEAN,
            status : PayStatuses, new : Nat, due : Int,
            todo : SUBSET [row : Nat, amount : Int], drawer : Nat]

FreeSlot == [op |-> "none", pc |-> "free", order |-> 0, row |-> 0, amount |-> 0,
             cash |-> FALSE, total |-> 0, paidAt |-> FALSE, status |-> "unpaid",
             new |-> 0, due |-> 0, todo |-> {}, drawer |-> 0]

\* Which handler a request can be in, where several share a step.
InItsHandler(r) ==
  /\ r.op \in Ops \cup {"none"}
  /\ r.op \notin {"none", "close", "paidin", "paidout"} => r.order \in Orders
  /\ r.pc = "till" => r.op \in {"record", "settle"}
  /\ r.pc \in {"claim", "check", "release"} => r.op = "record"
  /\ r.pc = "known" => r.op = "settle"
  /\ r.pc = "mark" => r.op \in {"verify", "reject", "refund"}
  /\ r.pc \in {"owed", "sum", "store"} =>
       r.op \in {"record", "settle", "verify", "reject", "refund", "amend"}
  /\ r.pc \in {"rows", "cancel", "give", "given", "tally"} => r.op = "void"
  /\ r.pc = "write" => r.op = "amend" /\ r.total \in Totals
  /\ r.pc = "move" \/ r.op \in {"record", "settle"} => r.amount \in Nat

TypeOK ==
  /\ orders \in [Orders -> Order]
  /\ payments \in Seq(Row)
  /\ drawers \in Seq(Drawer)
  /\ req \in [Slots -> Request] /\ \A i \in Slots : InItsHandler(req[i])
  /\ deferred \subseteq [row : Nat, amount : Int]
  /\ started \in Nat /\ untallied \in Int
  /\ faults \in [FaultKinds -> Nat]

Init ==
  /\ orders \in [Orders -> [pay : {"unpaid"}, paidAt : {FALSE}, voided : {FALSE},
                            total : Totals]]
  /\ payments = <<>> /\ drawers = <<>>
  /\ req = [i \in Slots |-> FreeSlot]
  /\ deferred = {} /\ started = 0 /\ untallied = 0
  /\ faults = [f \in FaultKinds |-> 0]

-----------------------------------------------------------------------------
(* What the handlers compute.                                              *)

RowsOf(o) == {n \in DOMAIN payments : payments[n].order = o}

RowAmounts == [n \in DOMAIN payments |-> payments[n].amount]

\* SUM(amount) over the rows that are not rejected.
Paid(o) == SumOver(RowAmounts, {n \in RowsOf(o) : payments[n].status # "rejected"})

\* Mutants: a status the rest of the code does not know; a part-payment that
\* counts as settled.
PayStatusSettled(total, paid) == IF paid >= total THEN "settled" ELSE "unpaid"
PayStatusLenient(total, paid) == IF paid > 0 THEN "paid" ELSE "unpaid"

PayStatus(total, paid) ==
  CASE paid <= 0    -> "unpaid"
    [] paid > 0 /\ paid < total -> "partial"
    [] paid > 0 /\ paid = total -> "paid"
    [] OTHER        -> "overpaid"

OpenDrawers == {d \in DOMAIN drawers : drawers[d].open}

\* ORDER BY created DESC LIMIT 1
Newest(ds) == {d \in ds : \A e \in ds : e <= d}

Ledger(d) == drawers[d].opening + drawers[d].sales + drawers[d].in - drawers[d].out

\* addToOpenDrawerCash: to the newest open drawer, or to none.
Tally(amount) ==
  IF OpenDrawers # {}
  THEN /\ \E d \in Newest(OpenDrawers) :
            drawers' = [drawers EXCEPT ![d].sales = @ + amount]
       /\ UNCHANGED untallied
  ELSE /\ untallied' = untallied + amount
       /\ UNCHANGED drawers

Strike(f) == /\ faults[f] < MaxFaults[f]
             /\ faults' = [faults EXCEPT ![f] = @ + 1]

\* A request takes slot i; a request in slot i goes on, or answers.
Arrives(i, r) == /\ req[i].pc = "free" /\ started < MaxRequests /\ r.op \in Ops
                 /\ req' = [req EXCEPT ![i] = r]
                 /\ started' = started + 1
                 /\ UNCHANGED <<book, drawers, deferred, untallied, faults>>

At(i, pc)    == req[i].pc = pc
Goes(i, pc)  == req' = [req EXCEPT ![i].pc = pc]
Answers(i)   == req' = [req EXCEPT ![i] = FreeSlot]

Insert(row)  == payments' = Append(payments, row)

-----------------------------------------------------------------------------
(* POST /api/payments (recordPayment), with an amount above zero.           *)

RecordArrives(i) == \E o \in Orders, a \in Amounts, c \in BOOLEAN :
  /\ ~orders[o].voided
  /\ Arrives(i, [FreeSlot EXCEPT !.op = "record", !.pc = "till", !.order = o,
                                 !.amount = a, !.cash = c, !.total = orders[o].total])

PassesTill(i) == Goes(i, IF req[i].op = "record" THEN "claim" ELSE "known")

\* isTillOpen; the same gate stands before a settlement (PUT /api/orders/:id).
TillGate(i) ==
  /\ At(i, "till")
  /\ IF OpenDrawers = {} THEN Answers(i) ELSE PassesTill(i)
  /\ UNCHANGED <<book, drawers, deferred, started, untallied, faults>>

\* "Fail-open on error only".
ProbeFails(i) ==
  /\ At(i, "till") /\ Strike("probe") /\ PassesTill(i)
  /\ UNCHANGED <<book, drawers, deferred, started, untallied>>

\* Mutant: a claim that another claim does not stop.
ClaimableTwice == {"unpaid", "partial", "verifying"}

Claimable == {"unpaid", "partial"}

\* The conditional UPDATE to 'verifying'; the loser is refused.
Claims(i) ==
  LET o == req[i].order
  IN /\ At(i, "claim")
     /\ IF orders[o].pay \in Claimable
        THEN orders' = [orders EXCEPT ![o].pay = "verifying"] /\ Goes(i, "check")
        ELSE Answers(i) /\ UNCHANGED orders
     /\ UNCHANGED <<payments, drawers, deferred, started, untallied, faults>>

\* Mutant: the claim is kept when the amount is refused.
AfterRefusalFree == "free"

AfterRefusal == "release"

\* Mutant: earlier part-payments are forgotten.
OutstandingTotal(r) == r.total

Outstanding(r) == r.total - Paid(r.order)

ChecksOverpayment(i) ==
  /\ At(i, "check")
  /\ Goes(i, IF req[i].amount > Outstanding(req[i]) THEN AfterRefusal ELSE "insert")
  /\ UNCHANGED <<book, drawers, deferred, started, untallied, faults>>

ReleasesClaim(i) ==
  LET o == req[i].order
  IN /\ At(i, "release")
     /\ orders' = [orders EXCEPT ![o].pay = IF @ = "verifying" THEN "unpaid" ELSE @]
     /\ Answers(i)
     /\ UNCHANGED <<payments, drawers, deferred, started, untallied, faults>>

\* A transfer starts unverified; cash is settled by being in the drawer.
NewRow(r) == [order |-> r.order, cash |-> r.cash, amount |-> r.amount,
              status |-> IF r.cash THEN "verified" ELSE "recorded"]

CashIn(r) == IF r.cash THEN r.amount ELSE 0

InsertsPayment(i) ==
  /\ At(i, "insert") /\ req[i].op \in {"record", "settle"}
  /\ Insert(NewRow(req[i]))
  /\ req' = [req EXCEPT ![i].pc = "owed", ![i].new = Len(payments) + 1,
                        ![i].due = CashIn(req[i])]
  /\ UNCHANGED <<orders, drawers, deferred, started, untallied, faults>>

-----------------------------------------------------------------------------
(* Settlement of a tab: PUT /api/orders/:id with a paymentBreakdown        *)
(* (recordSubmittedPayments), one line of it.                              *)

SettleArrives(i) == \E o \in Orders, a \in Amounts, c \in BOOLEAN :
  /\ ~orders[o].voided
  /\ Arrives(i, [FreeSlot EXCEPT !.op = "settle", !.pc = "till", !.order = o,
                                 !.amount = a, !.cash = c])

\* The idempotency guard: rows that exist mean this call is the duplicate.
ChecksDuplicate(i) ==
  LET o == req[i].order
  IN /\ At(i, "known")
     /\ IF \E n \in RowsOf(o) : payments[n].status # "rejected"
        THEN Answers(i) ELSE Goes(i, "insert")
     /\ UNCHANGED <<book, drawers, deferred, started, untallied, faults>>

-----------------------------------------------------------------------------
(* refreshPaymentStatus: read the order, read its rows, store the status.   *)

ReadsOrder(i) ==
  LET o == orders[req[i].order]
  IN /\ At(i, "owed")
     /\ req' = [req EXCEPT ![i].pc = "sum", ![i].total = o.total,
                           ![i].paidAt = o.paidAt]
     /\ UNCHANGED <<book, drawers, deferred, started, untallied, faults>>

ReadsRows(i) ==
  /\ At(i, "sum")
  /\ req' = [req EXCEPT ![i].pc = "store",
                        ![i].status = PayStatus(req[i].total, Paid(req[i].order))]
  /\ UNCHANGED <<book, drawers, deferred, started, untallied, faults>>

PaidAt(r) == r.status = "paid" \/ r.paidAt

StoresStatus(i) ==
  LET r == req[i]
  IN /\ At(i, "store")
     /\ orders' = [orders EXCEPT ![r.order].pay = r.status,
                                 ![r.order].paidAt = PaidAt(r)]
     /\ Goes(i, "end")
     /\ UNCHANGED <<payments, drawers, deferred, started, untallied, faults>>

\* After the refresh: recordPayment defers its tally, a settlement awaits it.
Finishes(i) ==
  LET r == req[i]
  IN /\ At(i, "end")
     /\ Answers(i)
     /\ IF r.op = "settle" THEN Tally(r.due) ELSE UNCHANGED <<drawers, untallied>>
     /\ deferred' = IF r.op = "record" /\ r.due # 0
                    THEN deferred \cup {[row |-> r.new, amount |-> r.due]}
                    ELSE deferred
     /\ UNCHANGED <<book, started, faults>>

\* The body of a fireAndForget(addToOpenDrawerCash) runs, some time later.
TalliesLater(t) ==
  /\ t \in deferred
  /\ deferred' = deferred \ {t}
  /\ Tally(t.amount)
  /\ UNCHANGED <<book, req, started, faults>>

-----------------------------------------------------------------------------
(* POST /api/payments/:id/verify and /refund; PUT /api/orders/:id (total).   *)

VerifyArrives(i) == \E n \in DOMAIN payments, op \in {"verify", "reject"} :
  Arrives(i, [FreeSlot EXCEPT !.op = op, !.pc = "mark", !.row = n,
                              !.order = payments[n].order])

\* Any row but a refund, whatever its status, up to its own amount.
RefundArrives(i) == \E n \in DOMAIN payments, a \in Amounts :
  /\ payments[n].amount >= 0 /\ a <= payments[n].amount
  /\ Arrives(i, [FreeSlot EXCEPT !.op = "refund", !.pc = "insert", !.row = n,
                                 !.order = payments[n].order, !.amount = a,
                                 !.cash = payments[n].cash])

\* The negative row of a refund, by hand or by a void.
RefundRow(r) == [order |-> r.order, cash |-> r.cash, amount |-> -r.amount,
                 status |-> "verified"]

\* Mutant: a refund of part takes the whole payment from the drawer.
CashBackWhole(r) == IF r.cash THEN -payments[r.row].amount ELSE 0

CashBack(r) == IF r.cash THEN -r.amount ELSE 0

InsertsRefund(i) ==
  /\ At(i, "insert") /\ req[i].op = "refund"
  /\ Insert(RefundRow(req[i]))
  /\ req' = [req EXCEPT ![i].pc = "mark", ![i].new = Len(payments) + 1,
                        ![i].due = CashBack(req[i])]
  /\ UNCHANGED <<orders, drawers, deferred, started, untallied, faults>>

NewStatus(op) == CASE op = "verify" -> "verified"
                   [] op = "reject" -> "rejected"
                   [] op = "refund" -> "refunded"

\* The status of the row; a refund of cash sends its tally off here.
MarksRow(i) ==
  LET r == req[i]
  IN /\ At(i, "mark")
     /\ payments' = [payments EXCEPT ![r.row].status = NewStatus(r.op)]
     /\ req' = [req EXCEPT ![i].pc = "owed", ![i].due = 0]
     /\ deferred' = IF r.due = 0 THEN deferred
                    ELSE deferred \cup {[row |-> r.new, amount |-> r.due]}
     /\ UNCHANGED <<orders, drawers, started, untallied, faults>>

AmendArrives(i) == \E o \in Orders, t \in Totals :
  /\ ~orders[o].voided
  /\ Arrives(i, [FreeSlot EXCEPT !.op = "amend", !.pc = "write", !.order = o,
                                 !.total = t])

WritesTotal(i) ==
  /\ At(i, "write")
  /\ orders' = [orders EXCEPT ![req[i].order].total = req[i].total]
  /\ Goes(i, "owed")
  /\ UNCHANGED <<payments, drawers, deferred, started, untallied, faults>>

-----------------------------------------------------------------------------
(* DELETE /api/orders/:id: void the order, give its cash payments back.     *)

VoidArrives(i) == \E o \in Orders :
  /\ ~orders[o].voided
  /\ Arrives(i, [FreeSlot EXCEPT !.op = "void", !.pc = "rows", !.order = o])

\* The rows void gives back, as it read them.
GivenBack(o) ==
  {[row |-> n, amount |-> payments[n].amount] :
     n \in {m \in RowsOf(o) : /\ payments[m].amount > 0 /\ payments[m].cash
                              /\ payments[m].status \notin {"rejected", "refunded"}}}

VoidReads(i) ==
  /\ At(i, "rows")
  /\ req' = [req EXCEPT ![i].pc = "cancel",
                        ![i].todo = GivenBack(req[i].order)]
  /\ UNCHANGED <<book, drawers, deferred, started, untallied, faults>>

Cancels(i) ==
  /\ At(i, "cancel")
  /\ orders' = [orders EXCEPT ![req[i].order].voided = TRUE]
  /\ Goes(i, "give")
  /\ UNCHANGED <<payments, drawers, deferred, started, untallied, faults>>

GivesBack(i) == \E p \in req[i].todo :
  LET r == [req[i] EXCEPT !.pc = "given", !.row = p.row, !.amount = p.amount,
                          !.cash = TRUE, !.due = -p.amount, !.todo = @ \ {p}]
  IN /\ At(i, "give")
     /\ Insert(RefundRow(r))
     /\ req' = [req EXCEPT ![i] = r]
     /\ UNCHANGED <<orders, drawers, deferred, started, untallied, faults>>

MarksGiven(i) ==
  /\ At(i, "given")
  /\ payments' = [payments EXCEPT ![req[i].row].status = "refunded"]
  /\ Goes(i, "tally")
  /\ UNCHANGED <<orders, drawers, deferred, started, untallied, faults>>

TalliesGiven(i) ==
  /\ At(i, "tally")
  /\ Tally(req[i].due)
  /\ req' = [req EXCEPT ![i].pc = "give", ![i].due = 0]
  /\ UNCHANGED <<book, deferred, started, faults>>

VoidEnds(i) ==
  /\ At(i, "give") /\ req[i].todo = {}
  /\ Answers(i)
  /\ UNCHANGED <<book, drawers, deferred, started, untallied, faults>>

\* A statement of the loop throws, which neither undoes the void nor ends it.
Stumbles(i) ==
  /\ Strike("stumble")
  /\ \/ \E p \in req[i].todo : At(i, "give") /\ req' = [req EXCEPT ![i].todo = @ \ {p}]
     \/ /\ At(i, "given") \/ At(i, "tally")
        /\ req' = [req EXCEPT ![i].pc = "give", ![i].due = 0]
  /\ untallied' = untallied + req[i].due
  /\ UNCHANGED <<book, drawers, deferred, started>>

-----------------------------------------------------------------------------
(* The drawers: /api/cashdrawer/open, /close, /paid-in, /paid-out.          *)

Opens ==
  /\ Len(drawers) < MaxDrawers
  /\ \E f \in Floats :
       drawers' = Append(drawers, [open |-> TRUE, opening |-> f, sales |-> 0, in |-> 0,
                                   out |-> 0, expected |-> 0])
  /\ UNCHANGED <<book, req, deferred, started, untallied, faults>>

\* WHERE id = ? OR status = 'open' ORDER BY created DESC: the id is optional,
\* and a closed drawer that is named qualifies.
Named == {{}} \cup {{d} : d \in DOMAIN drawers}

CloseArrives(i) == \E named \in Named : \E d \in Newest(named \cup OpenDrawers) :
  Arrives(i, [FreeSlot EXCEPT !.op = "close", !.pc = "count", !.drawer = d,
                              !.amount = Ledger(d)])

Closes(i) ==
  /\ At(i, "count")
  /\ drawers' = [drawers EXCEPT ![req[i].drawer].open = FALSE,
                                ![req[i].drawer].expected = req[i].amount]
  /\ Answers(i)
  /\ UNCHANGED <<book, deferred, started, untallied, faults>>

MoveArrives(i) ==
  \E op \in {"paidin", "paidout"}, a \in Amounts, d \in Newest(OpenDrawers) :
    Arrives(i, [FreeSlot EXCEPT !.op = op, !.pc = "move", !.amount = a, !.drawer = d])

Moves(i) ==
  LET r == req[i]
  IN /\ At(i, "move")
     /\ drawers' = IF r.op = "paidin"
                   THEN [drawers EXCEPT ![r.drawer].in = @ + r.amount]
                   ELSE [drawers EXCEPT ![r.drawer].out = @ + r.amount]
     /\ Answers(i)
     /\ UNCHANGED <<book, deferred, started, untallied, faults>>

-----------------------------------------------------------------------------
\* A request ends where it is: what it wrote stays, the rest does not happen.
Dies(i) ==
  /\ req[i].pc # "free"
  /\ Strike("die")
  /\ untallied' = untallied + req[i].due
  /\ Answers(i)
  /\ UNCHANGED <<book, drawers, deferred, started>>

Reaps(t) ==
  /\ t \in deferred
  /\ Strike("reap")
  /\ deferred' = deferred \ {t}
  /\ untallied' = untallied + t.amount
  /\ UNCHANGED <<book, drawers, req, started>>

Arrivals(i) == \/ RecordArrives(i) \/ SettleArrives(i) \/ VerifyArrives(i)
               \/ RefundArrives(i) \/ AmendArrives(i) \/ VoidArrives(i)
               \/ CloseArrives(i) \/ MoveArrives(i)

Takes(i) == \/ TillGate(i) \/ Claims(i) \/ ChecksOverpayment(i) \/ ReleasesClaim(i)
            \/ ChecksDuplicate(i) \/ InsertsPayment(i) \/ Finishes(i)

Refreshes(i) == ReadsOrder(i) \/ ReadsRows(i) \/ StoresStatus(i)

Voids(i) == \/ VoidReads(i) \/ Cancels(i) \/ GivesBack(i) \/ MarksGiven(i)
            \/ TalliesGiven(i) \/ VoidEnds(i)

Step(i) == \/ Takes(i) \/ Refreshes(i) \/ Voids(i)
           \/ InsertsRefund(i) \/ MarksRow(i) \/ WritesTotal(i) \/ Closes(i) \/ Moves(i)

Fails == \/ \E i \in Slots : Dies(i) \/ Stumbles(i) \/ ProbeFails(i)
         \/ \E t \in deferred : Reaps(t)

Next == \/ \E i \in Slots : Arrivals(i) \/ Step(i)
        \/ \E t \in deferred : TalliesLater(t)
        \/ Opens
        \/ Fails

Spec == Init /\ [][Next]_vars

\* A request that is not cut off goes on to its end.
FairSpec == Spec /\ \A i \in Slots : WF_vars(Step(i))

-----------------------------------------------------------------------------
(***************************************************************************)
(* Properties.                                                             *)
(***************************************************************************)

CashBook == SumOver(RowAmounts, {n \in DOMAIN payments : payments[n].cash})

\* What the drawers have counted, and the cash on its way to one: with a request
\* that has not passed it on, or in a deferred tally.
Tallied == SumOver([d \in DOMAIN drawers |-> drawers[d].sales], DOMAIN drawers)
Carried == SumOver([i \in Slots |-> req[i].due], Slots)
Awaited == SumOver([t \in deferred |-> t.amount], deferred)

\* Every cash row of payments is in a drawer's tally, on its way there, or is
\* known to have found no drawer (the head of drawer.js: expected is opening
\* float + cash sales - refunds). Refunds, voids and settlements included.
CashAccounted == CashBook = Tallied + Carried + Awaited + untallied

\* The requests that hold the claim on order o.
Holds(r) == /\ r.op = "record"
            /\ r.pc \in {"check", "release", "insert", "owed", "sum", "store"}

Holders(o) == {i \in Slots : Holds(req[i]) /\ req[i].order = o}

\* "Only the winner sees meta.changes = 1" (recordPayment): one payment at a
\* time is being taken for an order, and 'verifying' says so.
OneClaim == \A o \in Orders :
  /\ \A i, j \in Holders(o) : i = j
  /\ Holders(o) # {} => orders[o].pay = "verifying"

\* No order takes more than it costs, however many cashiers try (the race guard
\* of recordPayment; §56 "payment greater than the total").
NeverOverpaid == \A o \in Orders : Paid(o) <= orders[o].total

\* No order is "marked paid with no payment behind it" (refreshPaymentStatus).
PaidIsCovered == \A o \in Orders :
  orders[o].pay = "paid" /\ ~orders[o].voided => Paid(o) = orders[o].total

=============================================================================
