-------------------------------- MODULE Stock --------------------------------
(***************************************************************************)
(* The stock ledger: sales, waste, counts, deliveries and their voids      *)
(* (lib/ledger.js, lib/batches.js, handlers/inventory.js,                  *)
(* handlers/purchases.js, the consuming and voiding ends of                *)
(* handlers/orders.js).                                                    *)
(*                                                                         *)
(* A movement is posted in several awaited statements (postMovement): read *)
(* the item, draw on its batches or fill them again, insert the row, store *)
(* the balance.  Each is an action, and other requests run in between.     *)
(* Every caller may drive stock below zero, so no movement is refused, and *)
(* quantities are whole, so nothing is rounded.                            *)
(***************************************************************************)
EXTENDS Integers, Sequences, FiniteSets, Sums

CONSTANTS
  Items,        \* the inventory
  Opening,      \* what is on the shelf when the ledger begins
  OpeningLots,  \* the batches of it, in the order they were received
  Perishable,   \* the items that are tracked by batch
  Orders,       \* the orders, numbered from 1
  Recipe,       \* Recipe[o]: what the lines of order o use, one by one
  Quantities,   \* what may be delivered, wasted or counted
  Expiries,     \* when a delivery may expire; 0 is never
  Sheets,       \* the sheets a count may bring, each the lines of what was counted
  Ops,          \* the operations the run is about
  Slots,        \* requests that may be under way at once
  MaxRequests,  \* bound: requests in a behaviour
  MaxFaults     \* bound: faults in a behaviour

AllOps == {"consume", "void", "adjust", "count", "waste", "purchase", "unbuy"}

Line == [item : Items, qty : Nat \ {0}]
Lot  == [item : Items, expiry : Nat, received : Nat, left : Nat]

ASSUME ItemsAssumption  == Opening \in [Items -> Int] /\ Perishable \subseteq Items
ASSUME LotsAssumption   == OpeningLots \in Seq(Lot)
ASSUME OrdersAssumption == Orders \subseteq Nat \ {0} /\ Recipe \in [Orders -> Seq(Line)]
ASSUME QuantitiesAssumption == Quantities \subseteq Nat \ {0} /\ Expiries \subseteq Nat
ASSUME SheetsAssumption == Sheets \subseteq Seq([item : Items, qty : Nat]) \ {<<>>}
ASSUME OpsAssumption    == Ops \subseteq AllOps
ASSUME BoundsAssumption == MaxRequests \in Nat /\ MaxFaults \in Nat

VARIABLES
  stock,      \* inventory.stock
  moves,      \* the rows of stock_movements, in the order they were inserted
  lots,       \* the rows of inventory_batches, in the order they were received
  orders,     \* orders[o]: consumed_at set?, voided_at set?
  purchases,  \* purchases[p]: voided_at set?
  req,        \* req[i]: the request in slot i
  started,    \* history: how many requests came
  disturbed,  \* history: items with two postings at once, or one cut short
  troubled,   \* history: orders and purchases whose requests crossed or failed
  faults      \* how many faults have struck

shelf == <<stock, moves, lots>>
books == <<orders, purchases>>
vars  == <<shelf, books, req, started, disturbed, troubled, faults>>

\* What a movement is for, by kind and id: an order, a purchase, or neither.
NoRef == [kind |-> "none", id |-> 0]

Pcs == {"free", "claim", "bill", "bought", "cancel", "sales", "already", "weigh",
        "post", "batch", "share", "write", "insert", "set", "snapshot", "shelve", "reopen",
        "close"}

\* A request: its operation and next statement, the order or purchase it is
\* about, its argument, the lines still to weigh in and the movements still to
\* post, and for the one being posted the stock it read, the shares of batches still to write, those it will
\* record, and what was left in the batch it read.
FreeSlot == [op |-> "none", pc |-> "free", ref |-> NoRef, arg |-> 0, expiry |-> 0,
             sheet |-> <<>>, todo |-> <<>>, cur |-> 0, shares |-> {}, alloc |-> {}, left |-> 0]

Init ==
  /\ stock = Opening /\ moves = <<>> /\ lots = OpeningLots
  /\ orders = [o \in Orders |-> [consumed |-> FALSE, voided |-> FALSE]]
  /\ purchases = <<>>
  /\ req = [i \in Slots |-> FreeSlot]
  /\ started = 0 /\ disturbed = {} /\ troubled = {}
  /\ faults = 0

-----------------------------------------------------------------------------
(* Batches.                                                                *)

\* sortForConsumption: the dated first, by date, then by arrival.
Before(a, b) ==
  LET x == lots[a].expiry  y == lots[b].expiry
  IN IF x = y THEN a < b ELSE x # 0 /\ (y = 0 \/ x < y)

OpenLots(item) == {b \in DOMAIN lots : lots[b].item = item /\ lots[b].left > 0}

Least(a, b)    == IF a < b THEN a ELSE b
Greatest(a, b) == IF a > b THEN a ELSE b

\* Each batch gives what the ones before it leave to be found.
Allocate(item, need, before(_, _)) ==
  LET open     == OpenLots(item)
      prior(b) == SumOver([c \in open |-> lots[c].left], {c \in open : before(c, b)})
  IN {[row |-> 0, lot |-> b, qty |-> Least(lots[b].left, need - prior(b))] :
        b \in {c \in open : prior(c) < need}}

AllocateFEFO(item, need) == Allocate(item, need, Before)

RowsOf(ref) == {n \in DOMAIN moves : moves[n].ref = ref}

\* What restoreToBatches finds: every allocation recorded for the reference.
Allocated(ref) == UNION {{[s EXCEPT !.row = n] : s \in moves[n].alloc} : n \in RowsOf(ref)}

\* The share to be written next.
Foremost(shares) ==
  {s \in shares : \A t \in shares \ {s} :
     s.row < t.row \/ (s.row = t.row /\ Before(s.lot, t.lot))}

-----------------------------------------------------------------------------
(* Requests.                                                               *)

At(i, pc)  == req[i].pc = pc
Goes(i, r) == req' = [req EXCEPT ![i] = r]
Answers(i) == Goes(i, FreeSlot)

Busy(i) == ~At(i, "free")

\* Requests that undo, and those they may meet on the same order or purchase.
Undoes(r)  == r.op \in {"void", "unbuy"}
Meets(i, r) == \E j \in Slots \ {i} :
  Busy(j) /\ req[j].ref = r.ref /\ r.ref # NoRef /\ (Undoes(r) \/ Undoes(req[j]))

Arrives(i, r) ==
  /\ At(i, "free") /\ started < MaxRequests /\ r.op \in Ops
  /\ Goes(i, r)
  /\ started' = started + 1
  /\ troubled' = IF Meets(i, r) THEN troubled \cup {r.ref} ELSE troubled
  /\ UNCHANGED <<shelf, books, disturbed, faults>>

OrderRef(o)    == [kind |-> "orders", id |-> o]
PurchaseRef(p) == [kind |-> "purchases", id |-> p]

\* The order is made ready (PUT /api/orders/:id): consumeForOrder reads it.
ConsumeArrives(i) == \E o \in Orders :
  /\ ~orders[o].voided
  /\ Arrives(i, [FreeSlot EXCEPT !.op = "consume", !.pc = "claim", !.ref = OrderRef(o)])

\* DELETE /api/orders/:id, with the consumption to be put back.
VoidArrives(i) == \E o \in Orders :
  /\ ~orders[o].voided
  /\ Arrives(i, [FreeSlot EXCEPT !.op = "void", !.pc = "cancel", !.ref = OrderRef(o)])

\* One movement of the caller's own, outside orders and purchases.
Single(item, qty, type) == <<[item |-> item, qty |-> qty, type |-> type, ref |-> NoRef]>>

\* An adjustment to what the scales say: the difference is taken from the stock as
\* it is now, and posted as a movement.
AdjustArrives(i) == \E x \in Items, target \in Quantities \cup {0} :
  /\ target # stock[x]
  /\ Arrives(i, [FreeSlot EXCEPT !.op = "adjust", !.pc = "post", !.arg = target,
                                 !.todo = Single(x, target - stock[x], "adjustment")])

\* A count of several items: each line is weighed in when its turn comes.
CountArrives(i) == \E sheet \in Sheets :
  Arrives(i, [FreeSlot EXCEPT !.op = "count", !.pc = "weigh", !.sheet = sheet])

WasteArrives(i) == \E x \in Items, q \in Quantities :
  Arrives(i, [FreeSlot EXCEPT !.op = "waste", !.pc = "post", !.arg = q,
                              !.todo = Single(x, -q, "waste")])

PurchaseArrives(i) == \E x \in Items, q \in Quantities, e \in Expiries :
  Arrives(i, [FreeSlot EXCEPT !.op = "purchase", !.pc = "bill", !.arg = q, !.expiry = e,
                              !.todo = Single(x, q, "purchase")])

UnbuyArrives(i) == \E p \in DOMAIN purchases :
  /\ ~purchases[p]
  /\ Arrives(i, [FreeSlot EXCEPT !.op = "unbuy", !.pc = "bought", !.ref = PurchaseRef(p)])

-----------------------------------------------------------------------------
(* Posting a movement.                                                     *)

Posted(i) == Head(req[i].todo)

\* Where a request goes once it has posted everything.
AfterLast == [consume |-> "snapshot", void |-> "close", adjust |-> "free",
              count |-> "free", waste |-> "free", purchase |-> "shelve", unbuy |-> "close"]

\* The request in slot i as r, with the rest of its movements before it.
Continues(i, r) ==
  CASE r.todo # <<>>                    -> Goes(i, [r EXCEPT !.pc = "post"])
    [] r.todo = <<>> /\ r.sheet # <<>> -> Goes(i, [r EXCEPT !.pc = "weigh"])
    [] OTHER -> IF AfterLast[r.op] = "free" THEN Answers(i)
                ELSE Goes(i, [r EXCEPT !.pc = AfterLast[r.op]])

\* A count reads the stock of the next item: what is missing or too much is posted, and
\* a line that agrees moves nothing.
Weighs(i) ==
  /\ At(i, "weigh")
  /\ LET line == Head(req[i].sheet)
         diff == line.qty - stock[line.item]
     IN Continues(i, [req[i] EXCEPT !.sheet = Tail(@),
          !.todo = IF diff = 0 THEN <<>> ELSE Single(line.item, diff, "count")])
  /\ UNCHANGED <<shelf, books, started, disturbed, troubled, faults>>

Posting == {"batch", "share", "write", "insert", "set"}

\* postMovement reads the item.
ReadsItem(i) ==
  /\ At(i, "post")
  /\ Goes(i, [req[i] EXCEPT !.pc = "batch", !.cur = stock[Posted(i).item]])
  /\ disturbed' = disturbed \cup
       {x \in {Posted(i).item} : \E j \in Slots \ {i} :
           req[j].pc \in Posting /\ Posted(j).item = x}
  /\ UNCHANGED <<shelf, books, started, troubled, faults>>

Restores(move) == move.qty > 0 /\ move.type = "void_reversal" /\ move.ref # NoRef

\* What is to be taken from batches, or put back in them.
Plan(move) ==
  CASE move.qty < 0   -> AllocateFEFO(move.item, -move.qty)
    [] Restores(move) -> Allocated(move.ref)
    [] OTHER          -> {}

PlansBatches(i) ==
  /\ At(i, "batch")
  /\ LET shares == Plan(Posted(i)) IN
     Goes(i, [req[i] EXCEPT !.pc = IF shares = {} THEN "insert" ELSE "share",
                            !.shares = shares,
                            !.alloc = IF Posted(i).qty < 0 THEN shares ELSE {}])
  /\ UNCHANGED <<shelf, books, started, disturbed, troubled, faults>>

\* applyAllocation, one batch: read it, store what will be left in it.
ReadsBatch(i) == \E s \in Foremost(req[i].shares) :
  /\ At(i, "share")
  /\ Goes(i, [req[i] EXCEPT !.pc = "write", !.left = lots[s.lot].left])
  /\ UNCHANGED <<shelf, books, started, disturbed, troubled, faults>>

Left(left, qty, restored) == IF restored THEN left + qty ELSE Greatest(0, left - qty)

WritesBatch(i) == \E s \in Foremost(req[i].shares) :
  /\ At(i, "write")
  /\ lots' = [lots EXCEPT ![s.lot].left = Left(req[i].left, s.qty, Restores(Posted(i)))]
  /\ LET rest == req[i].shares \ {s} IN
     Goes(i, [req[i] EXCEPT !.pc = IF rest = {} THEN "insert" ELSE "share",
                            !.shares = rest, !.left = 0])
  /\ UNCHANGED <<stock, moves, books, started, disturbed, troubled, faults>>

\* Mutant: the allocation is not recorded with the movement.
RowBare(move, alloc) == [item |-> move.item, qty |-> move.qty, type |-> move.type,
                         ref |-> move.ref, alloc |-> {}]

RowOf(move, alloc) == [item |-> move.item, qty |-> move.qty, type |-> move.type,
                       ref |-> move.ref, alloc |-> alloc]

InsertsRow(i) ==
  /\ At(i, "insert")
  /\ moves' = Append(moves, RowOf(Posted(i), req[i].alloc))
  /\ Goes(i, [req[i] EXCEPT !.pc = "set", !.alloc = {}])
  /\ UNCHANGED <<stock, lots, books, started, disturbed, troubled, faults>>

\* Mutant: the shelf is kept from going below zero.
BalanceFloored(i) == Greatest(0, req[i].cur + Posted(i).qty)

Balance(i) == req[i].cur + Posted(i).qty

\* The balance computed from the stock it read, stored whatever happened since.
StoresBalance(i) ==
  /\ At(i, "set")
  /\ stock' = [stock EXCEPT ![Posted(i).item] = Balance(i)]
  /\ Continues(i, [req[i] EXCEPT !.todo = Tail(req[i].todo), !.cur = 0])
  /\ UNCHANGED <<moves, lots, books, started, disturbed, troubled, faults>>

-----------------------------------------------------------------------------
(* What comes before and after.                                            *)

\* Mutant: the claim on the order is not conditional.
ClaimableAlways(o) == TRUE

Claimable(o) == ~orders[o].consumed

\* One sale for every line of the recipe.
SalesOf(o) == [k \in DOMAIN Recipe[o] |->
  [item |-> Recipe[o][k].item, qty |-> -Recipe[o][k].qty,
   type |-> "sale", ref |-> OrderRef(o)]]

Claims(i) == LET o == req[i].ref.id IN
  /\ At(i, "claim")
  /\ \/ /\ Claimable(o)
        /\ orders' = [orders EXCEPT ![o].consumed = TRUE]
        /\ Continues(i, [req[i] EXCEPT !.todo = SalesOf(o)])
     \/ /\ ~Claimable(o)
        /\ Answers(i)
        /\ UNCHANGED orders
  /\ UNCHANGED <<shelf, purchases, started, disturbed, troubled, faults>>

\* The recipe and its cost are kept with the order's lines.
Snapshots(i) ==
  /\ At(i, "snapshot")
  /\ Answers(i)
  /\ UNCHANGED <<shelf, books, started, disturbed, troubled, faults>>

\* The catch of consumeForOrder: the claim is released.
Reopens(i) ==
  /\ At(i, "reopen")
  /\ orders' = [orders EXCEPT ![req[i].ref.id].consumed = FALSE]
  /\ Answers(i)
  /\ UNCHANGED <<shelf, purchases, started, disturbed, troubled, faults>>

Cancels(i) ==
  /\ At(i, "cancel")
  /\ orders' = [orders EXCEPT ![req[i].ref.id].voided = TRUE]
  /\ Goes(i, [req[i] EXCEPT !.pc = "sales"])
  /\ UNCHANGED <<shelf, purchases, started, disturbed, troubled, faults>>

\* The members of a set of numbers, from the least on.
InOrder(S) ==
  CHOOSE q \in Bijection(1 .. Cardinality(S), S) :
    \A a, b \in DOMAIN q : a < b => q[a] < q[b]

Rows(ref, type) ==
  LET hits == InOrder({n \in RowsOf(ref) : moves[n].type = type})
  IN [k \in DOMAIN hits |-> moves[hits[k]]]

\* Mutant: the reversal has the sign of the movement it undoes.
ReversalSame(row) == [item |-> row.item, qty |-> row.qty, type |-> "void_reversal",
                      ref |-> row.ref]

Reversal(row) == [item |-> row.item, qty |-> -row.qty, type |-> "void_reversal",
                  ref |-> row.ref]

Reversals(rows) == [k \in DOMAIN rows |-> Reversal(rows[k])]

ReadsSales(i) == LET sales == Rows(req[i].ref, "sale") IN
  /\ At(i, "sales")
  /\ IF sales = <<>> THEN Answers(i)
     ELSE Goes(i, [req[i] EXCEPT !.pc = "already", !.todo = Reversals(sales)])
  /\ UNCHANGED <<shelf, books, started, disturbed, troubled, faults>>

ChecksReversed(i) ==
  /\ At(i, "already")
  /\ IF Rows(req[i].ref, "void_reversal") # <<>> THEN Answers(i)
     ELSE Continues(i, req[i])
  /\ UNCHANGED <<shelf, books, started, disturbed, troubled, faults>>

BooksPurchase(i) == LET ref == PurchaseRef(Len(purchases) + 1) IN
  /\ At(i, "bill")
  /\ purchases' = Append(purchases, FALSE)
  /\ Continues(i, [req[i] EXCEPT !.ref = ref, !.todo[1].ref = ref])
  /\ UNCHANGED <<shelf, orders, started, disturbed, troubled, faults>>

\* Only the perishable, and what came with a date, get a batch.
Shelves(i) == \E n \in RowsOf(req[i].ref) :
  /\ At(i, "shelve")
  /\ LET r    == req[i]
         item == moves[n].item
     IN lots' = IF item \in Perishable \/ r.expiry # 0
                THEN Append(lots, [item |-> item, expiry |-> r.expiry,
                                   received |-> r.arg, left |-> r.arg])
                ELSE lots
  /\ Answers(i)
  /\ UNCHANGED <<stock, moves, books, started, disturbed, troubled, faults>>

ReadsBought(i) ==
  /\ At(i, "bought")
  /\ Continues(i, [req[i] EXCEPT !.todo = Reversals(Rows(req[i].ref, "purchase"))])
  /\ UNCHANGED <<shelf, books, started, disturbed, troubled, faults>>

\* An order may be consumed again once it was reversed; a purchase is voided.
Closes(i) == LET r == req[i] IN
  /\ At(i, "close")
  /\ \/ /\ r.op = "void"
        /\ orders' = [orders EXCEPT ![r.ref.id].consumed = FALSE]
        /\ UNCHANGED purchases
     \/ /\ r.op = "unbuy"
        /\ purchases' = [purchases EXCEPT ![r.ref.id] = TRUE]
        /\ UNCHANGED orders
  /\ Answers(i)
  /\ UNCHANGED <<shelf, started, disturbed, troubled, faults>>

-----------------------------------------------------------------------------
(* Failures.                                                               *)

Strikes == faults < MaxFaults /\ faults' = faults + 1

\* The batch modules swallow a failed read of the batches, and any failure while
\* filling them again: the movement is posted without.
Swallows(i) == \/ At(i, "batch") /\ (Posted(i).qty < 0 \/ Restores(Posted(i)))
               \/ req[i].pc \in {"share", "write"} /\ Restores(Posted(i))

\* History: what is known to be wrong after a request was cut off where it is.
Marks(i) ==
  /\ disturbed' = disturbed \cup
       {x \in Items : req[i].pc \in Posting /\ Posted(i).item = x}
  /\ troubled' = IF req[i].ref = NoRef THEN troubled ELSE troubled \cup {req[i].ref}

\* An awaited statement fails.
Throws(i) ==
  /\ Busy(i) /\ Strikes
  /\ \/ /\ Swallows(i)
        /\ Goes(i, [req[i] EXCEPT !.pc = "insert", !.shares = {}, !.alloc = {}, !.left = 0])
     \/ /\ ~Swallows(i) /\ req[i].op = "consume" /\ req[i].pc \notin {"claim", "reopen"}
        /\ Goes(i, [FreeSlot EXCEPT !.op = "consume", !.pc = "reopen", !.ref = req[i].ref])
     \/ /\ ~Swallows(i) /\ (req[i].op # "consume" \/ req[i].pc \in {"claim", "reopen"})
        /\ Answers(i)
  /\ Marks(i)
  /\ UNCHANGED <<shelf, books, started>>

\* The Worker is ended in the middle of a request.
Evicted(i) ==
  /\ Busy(i) /\ Strikes
  /\ Answers(i)
  /\ Marks(i)
  /\ UNCHANGED <<shelf, books, started>>

-----------------------------------------------------------------------------
Arrival(i) ==
  \/ ConsumeArrives(i) \/ VoidArrives(i) \/ AdjustArrives(i) \/ CountArrives(i)
  \/ WasteArrives(i)   \/ PurchaseArrives(i) \/ UnbuyArrives(i)

PostStep(i) ==
  \/ Weighs(i)
  \/ ReadsItem(i)   \/ PlansBatches(i) \/ ReadsBatch(i)
  \/ WritesBatch(i) \/ InsertsRow(i)   \/ StoresBalance(i)

OrderStep(i)    == \/ Claims(i)  \/ Snapshots(i)  \/ Reopens(i)
                   \/ Cancels(i) \/ ReadsSales(i) \/ ChecksReversed(i)
PurchaseStep(i) == BooksPurchase(i) \/ Shelves(i) \/ ReadsBought(i)

Fault(i) == Throws(i) \/ Evicted(i)

Next == \E i \in Slots :
  Arrival(i) \/ PostStep(i) \/ OrderStep(i) \/ PurchaseStep(i) \/ Closes(i) \/ Fault(i)

Spec == Init /\ [][Next]_vars

-----------------------------------------------------------------------------
(* Properties.                                                             *)

RowSum(rows)  == SumOver([n \in DOMAIN moves |-> moves[n].qty], rows)
AtRest(ref)   == \A i \in Slots : req[i].ref # ref
Sound(ref)    == AtRest(ref) /\ ref \notin troubled

\* Of every item whose postings neither overlapped nor were cut short, the stock
\* is the opening stock and the sum of its movements, less the one movement that
\* was inserted and whose balance is not stored yet (ledger.js:113-194).
StockIsLedger == \A x \in Items \ disturbed :
  LET late == {i \in Slots : At(i, "set") /\ Posted(i).item = x}
  IN stock[x] + SumOver([i \in late |-> Posted(i).qty], late)
       = Opening[x] + RowSum({n \in DOMAIN moves : moves[n].item = x})

ShareSum(shares, b) == SumOver([s \in shares |-> s.qty], {s \in shares : s.lot = b})

\* What the movements say they drew from batch b.
Recorded(b) == SumOver([n \in DOMAIN moves |-> ShareSum(moves[n].alloc, b)], DOMAIN moves)

\* What has been drawn from batch b by shares already written, not yet recorded.
Drawn(i, b) == ShareSum(req[i].alloc, b) - ShareSum(req[i].alloc \cap req[i].shares, b)

GivenBack(b) == \E n \in DOMAIN moves :
  /\ moves[n].ref.kind = "orders" /\ orders[moves[n].ref.id].voided
  /\ \E s \in moves[n].alloc : s.lot = b

\* What was received of a batch is what is left of it and what the movements say
\* they took from it, as long as nothing was put back in it: every draw on a
\* batch is on a movement row, so that it can be put back (batches.js:20-26).
BatchesAddUp == \A b \in DOMAIN lots :
  lots[b].item \notin disturbed /\ ~GivenBack(b) =>
    lots[b].received = lots[b].left
      + Recorded(b) + SumOver([i \in Slots |-> Drawn(i, b)], Slots)

\* However many times an order is made ready, at once or again, its recipe is
\* taken from the shelf once: an order that is consumed has one sale for each
\* line, one that is not has none (ledger.js:292-303, orders.js:2326-2327).
ConsumedOnce == \A o \in Orders :
  Sound(OrderRef(o)) /\ ~orders[o].voided =>
    LET sold(line) == Cardinality({n \in RowsOf(OrderRef(o)) :
                        moves[n].item = line.item /\ moves[n].qty = -line.qty})
        used(line) == Cardinality({k \in DOMAIN Recipe[o] : Recipe[o][k] = line})
    IN IF orders[o].consumed
       THEN /\ Cardinality(RowsOf(OrderRef(o))) = Len(Recipe[o])
            /\ \A k \in DOMAIN Recipe[o] : sold(Recipe[o][k]) = used(Recipe[o][k])
       ELSE RowsOf(OrderRef(o)) = {}

\* What a voided order took, and what a voided purchase brought, is undone by its
\* own movements to the last unit of every item (ledger.js:417-446,
\* purchases.js:367-394).
VoidedIsGivenBack ==
  LET net(ref, x) == RowSum({n \in RowsOf(ref) : moves[n].item = x})
      voided == {OrderRef(o) : o \in {u \in Orders : orders[u].voided}}
                  \cup {PurchaseRef(p) : p \in {q \in DOMAIN purchases : purchases[q]}}
  IN \A ref \in voided : Sound(ref) => \A x \in Items : net(ref, x) = 0

=============================================================================
