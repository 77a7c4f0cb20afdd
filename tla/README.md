# fufut-api in TLA+

fufut-api is the back end of a cafe: a Cloudflare Worker (`src/src/`) over a D1 database, and a
box in the cafe (`src/local/`) that runs the same handlers over SQLite when the line is down and
exchanges its writes with the Worker. This directory holds TLA+ modules of its stateful cores, the
TLC configurations that check them, and TLAPS proofs about them.

Three things make this code hard to test, and they decide what is modelled:

* **There are no transactions across statements.** A handler awaits statement after statement, and
  at every `await` other requests run, on one isolate or on many. What was read may be stale when
  it is used.
* **Any request may stop at any await**: a statement throws, or the Worker is evicted. Little of
  the code repairs what was half done.
* **Two databases drift.** The line is down for hours, answers are lost, requests the box gave up
  on go on being served.

So every module makes each awaited statement an action of its own and keeps what a handler read
earlier in the record of its request.

## 1. Inventory

| Component | State it keeps | Operations | What must be true | Modules |
|---|---|---|---|---|
| Journal and sync (`local/sync.js`, `handlers/sync.js`, `lib/outbox.js`, `lib/ownership.js`, `lib/db.js`) | `sync_outbox`, two cursors on the box, one with an epoch on the Worker, reconciliation list | `d1Run`, `d1Batch` and their capture; `push`, `pull`, `prune`, heartbeat; `/push`, `/pull` | no write lost, order kept, nothing pruned too early, no silent divergence, everything arrives | `Sync`, `Ownership`, `Delivery` |
| Backup and restore (`local/backup.js`) | a copy of the whole database | snapshot, restore by hand | what a restore makes diverge is known | `SyncRestore` |
| Payments and the till (`handlers/payments.js`, `lib/drawer.js`, `handlers/resources.js`, parts of `handlers/orders.js`) | `payments`, `orders.payment_status/paid_at`, `cashdrawers` | record, verify, reject, refund, settle, void, change of total, open, close, paid-in, paid-out | one claim at a time, never overpaid, paid means covered, cash is in a drawer | `Till`, `TillClaim` |
| Stock ledger (`lib/ledger.js`, `lib/batches.js`, `handlers/inventory.js`, `handlers/purchases.js`) | `inventory.stock`, `stock_movements`, `inventory_batches`, `orders.consumed_at`, `purchases.voided_at` | consume, void, adjust, count, waste, receive, void a delivery | stock follows its movements, batches add up, an order is consumed once, a void gives back | `Stock` |
| Tables, seating, bill requests (`handlers/tables.js`, `lib/staleness.js`, parts of `handlers/orders.js` and `handlers/payments.js`) | `tables.status/seated_at/bill_requested_at` | seat, free, check out, ask for the bill and retract, seat by a first order, move a check, overstay sweep | one party per table, no bill left on a table shown as free | `Floor` |
| Reservations (`handlers/reservations.js`, `lib/booking.js`) | bookings | book, edit, restate, release, no-show, delete; hold a table | no two bookings of a table overlap | `Floor` |
| Checks (`handlers/orders.js`) | orders, their lines, totals and shares, delivery rows | create, append, split, merge, move a line, void | a bill is its lines, parts are worth the whole, food is on somebody's bill | `Bills` |
| The pass and delivery jobs (`handlers/orders.js`, `handlers/delivery.js`, `lib/timing.js`) | the status of orders, lines and jobs, the pickup pings | taps on a line, a ticket, a station; acceptance, rounds, auto-close, void, a driver's steps, settlement, assignment | a ready order is made, announced once, and a void is final on both sides | `Kitchen` |
| Alerts (`handlers/alerts.js`, `lib/rules.js`) | `alerts` | sweep, ping, acknowledge | one row per breach, resolved only when over, following the rows in the end | `Alerts` |
| Read quota (`lib/quota.js`) | a meter per isolate, the day's count and the pinned mode in KV | count, look, store, pin, roll over | the day's count is not overstated | `Quota` |
| Poll cache and live updates (`lib/microcache.js`, `index.js`, `handlers/sse.js`) | answers and channel payloads per isolate, screens' connections | get, keep, flush, age; probe, build, share, send | a write is read back, a new order is announced once, screens come to show the board | `Live` |
| Time clock, shift gate, breaks; leave, overtime, adjustments, payroll, rates (`handlers/hr.js`, `lib/payroll.js`) | `timeclock`, `break_records`, claims, `payroll_runs`, settings | clock in and out, break, classify, claim, decide, set a rate, confirm, run | nothing credited twice, nobody leaves owing, a run pays what was approved | `Shifts`, `Payroll` |
| Zones (`handlers/tables.js:66-362`) | one settings row, each table's zone | add, rename, remove, store the list | an edit is what the floor offers | `Zones` |
| Recipes (`handlers/recipes.js`, `lib/ledger.js`) | versions of recipes and their lines | revise, archive; a sale chooses | a sale uses what was written | `Recipes` |
| Menu (`handlers/menu.js`) | one value in KV, rows in D1 | save, add, edit, remove, 86, id repair | the rows follow the menu, ids are kept | `Menu` |
| Sessions and permissions (`auth.js`, `handlers/session.js`, `lib/role-scopes.js`), venue gate and guest prices, units and costing, the box's D1, KV and R2 stand-ins, content, reports, tasks and handovers, migrations | see section 6 | | | not modelled |

How they interact. Every handler writes through `lib/db.js`, which journals the write for `Sync`.
`PUT /api/orders/:id` settles (`Till`), moves the ticket (`Kitchen`) and consumes (`Stock`, with the
recipe that `Recipes` chooses); `DELETE` gives money back (`Till`), stock back (`Stock`), cancels the
job (`Kitchen`) and the lines (`Bills`). A first order seats its table (`Floor`) and is priced and
refused by the rows of `Menu`. A payment that covers a check frees its table (`Floor`). What `Alerts`
judges are the rows of all of these, what `Live` shows is the board of `Kitchen`, and the mode that
`Quota` sets slows both down. The shift gate (`Shifts`) reads the open checks of `Till` and `Bills`.
`fireAndForget` lets a drawer's tally, the journal's capture and the menu's rows be written after the
answer has gone out. A timer on the box drives the sync cycle, a cron of the Worker the sweeps.

The modules meet through rows of one database. Where one reads what another writes, the reader's
module lets those rows change as they like: `Alerts` its rows, `Shifts` the checks, `Live` the board,
`Floor` the payment of a check. Within the sets a run gives, that allows whatever the other
module would do, so a safety property that holds there holds of the composition as well. `SyncRestore` extends `Sync`, `Live` extends
`Quota` and follows its mode, and `Office` composes the four desks that share `Desk`.

`PROJECT.json` lists the hazards of each part at their lines with the properties that cover them;
section 7 has the others.

## 2. Plan

The order in which it was built, the most important behaviour first:

1. `Sync` with `Ownership`, `Delivery` (what the protocol promises, refined by `Sync`) and
   `SyncRestore`; `Till`; their theorems.
2. `Stock`; `Floor`, tables and bookings.
3. `Bills` and `Kitchen`: what a check comes to, and where its food is.
4. `Alerts`; `Quota` under `Live`.
5. The back office: `Shifts` over `Payroll`, `Zones`, `Recipes`, `Menu`, together in `Office`.
6. The theorems, in the order of what they rest on: cursors and claims; the day's count; bookings,
   parties and bills on the floor; orders in the kitchen; the lemmas on sums, and with them the till's
   cash and the store's ledger, batches, sales and voids; delivery once and in order; polls and
   screens; the clock, the payroll, the recipes and the zones; what a check comes to; the alerts and their
   sweep; the menu, its rows and its ids.

What would come next: the
composition of `Kitchen` and `Stock` (a ticket made ready twice while it is voided); the box's `batch` on its one connection; sessions and their revocation.

Modules that are proved about reach no RECURSIVE operator; sums are folds of the community modules
(`Sums`).

## 3. Modules and code

Conventions. `req[i]` is the request in slot `i`: its operation, the statement it stands before
(`pc`) and what it has read. An action named `...Arrives` is a request with its reads before the
first `await` that matters; each action after it is one awaited statement. Rows are records, ids are
numbers or model values, money is in whole units. Variables marked *history* in their comments are
read by properties only.

**`Ownership`** is `lib/ownership.js` and what replaying one statement does: owner of a table,
`Decide`, `Matches` (a replayed insert that is already there), `Effect`. Row contents are small
numbers; `bump` stands for `SET v = v + 1`, `claim` for a conditional update.

**`Sync`** has the two databases, journals and reconciliation lists, the box's engine and any number
of `/push` requests in flight. `Run`/`Capture`/`CaptureFails` are `d1Run` and its deferred journal
entry, `Batch` is `d1Batch`, where both are one transaction. `HandlerStarts` reads the cursor,
`HandlerSkips` and `HandlerApplies` go through one entry, `HandlerFinishes` writes the cursor:
the Worker keeps nothing between, so `HandlerDies` loses exactly that. On the box `PushSends`,
`PushAcked`, `Timeout`, the pull steps and `Prune` are the cycle of `createSyncEngine`; `Crash` and
`Reimage` restart it with its disk or without. An id is random, so an insert always names a new row.

**`SyncRestore`** extends it with the nightly snapshot (`TakeBackup`) and its restore by hand. What
the file holds is `Disk`; a restored box keeps its journal's epoch and counts on from the snapshot.

**`Delivery`** is what the protocol promises, with no cursor in it: each side takes what the other
journals, exactly once, in order, in the end. `Sync!ExactlyOnceInOrder` is the refinement.

**`Till`** has one record per request in flight. A payment goes `till`, `claim`, `check`, (`release`),
`insert`, `owed`, `sum`, `store`, `end`: `recordPayment` with `refreshPaymentStatus` inlined, one
action per statement. Settlement, refund, verification, void and the drawer's own operations are
sequences of the same kind; tallies handed to `fireAndForget` wait in `deferred`. `Dies` ends a
request at any await; `Stumbles` is a failure inside void's loop, which catches it; `Reaps` loses a
deferred tally; `ProbeFails` is an unreadable till, which the code lets pass. `untallied` is history.
The tolerance of half a birr is an equality. Left out: tips, negative amounts, overpayment on
request, several lines in one settlement, the bill-request reset. **`TillClaim`** extends it with `dropped`
(history): the orders whose claim lost its holder when that request was cut off. `recordPayment` has no
catch, so nothing gives such a claim up.

**`Stock`** posts a movement as `post` (read the item), `batch` (plan: draw, or find what to give
back), `share`/`write` per batch, `insert` (the row with its allocation), `set` (the balance from
the stock it read). The callers put the movements in `todo`: `Claims` for an order's recipe,
`ReadsSales`/`ChecksReversed` for a void, `BooksPurchase`/`Shelves` and `ReadsBought`/`Closes` for a
delivery, one movement for waste and adjustments. A count has a `sheet`, and `Weighs` turns each line
into a difference against the stock as it is when its turn comes. `Throws` follows the code's
catches: the batch module swallows (`Swallows`), consumption releases its claim (`Reopens`),
everything else ends; `Evicted` is the end of the Worker. `disturbed` and `troubled` are history:
items whose postings overlapped or were cut, orders and deliveries whose undoing crossed another
request or that met a failure. Costs and fractions are left out. Every caller lets stock go below
zero, so no movement is refused.

**`Floor`** is two kinds of claim on a table. A party sits down by `PUT` with status occupied: `look`
(who sits there), `held` (a booking that blocks), `unbook` (a manager releases it), `claim`
(`claimSeat`), `write` (the generic update of `handlers/resources.js`, which is unconditional); by
its first order (`insert`, `peek`, `seat`); or with a check that moves (`refile`, `sit`, `remain`,
`vacate`). It leaves by `/free` (which looks at the bills), by checkout (which does not), with a
moved check, or with the sweep, which reads tables and bills once and then turns them one by one. A
booking is inserted under its condition (`Books`), edited after a look (`RebookChecks`,
`RebookWrites`), restated, withdrawn or deleted. `seated_at` is the number of the request that
stamped it, 0 a blank stamp; `at` keeps its time. A table's number stands for its row and for
every spelling of it. `sitting`, `contested` and `adrift` are history: the parties a table was
given, bookings that no look could protect, checks around which the table was cleared. `Dies` ends a
request that has written something; one that has not changed nothing. Left out: `cleared_at`,
servers, guests, QR keys, the link from a booking to an order.

**`Bills`** is what a check comes to. `InsertsOrder`/`InsertsLines`/`LooksForJob`/`InsertsJob` take an
order, with `LinesFail` for the catch that keeps it without lines; `AppendChecks`, `AppendNumbers`,
`InsertsLines`, `ReadsLines`, `AppendBills` add a round; `SplitChecks`, `SplitInserts` (part by part)
and `SplitRetires` split; `MergeReads...`, `Carries`, `MergeBills`, `MergeCloses` merge, and moving a
line is the same with one line and `MoveBills`; `VoidChecks`, `VoidCancels`, `VoidStrikes` void. An
order carries `extra` (tip, tax and charges less the discount) and, as a part of a split, `share`.
Payment is one step (`Settles`), since a split only asks whether it has happened. The extra that a
merge and a move drop, and the lines they take to a closed order, are marked (`flat`, `astray`). The
orders taken before are given by their lines (`Standing`) and what is added to these (`Extra`).

**`Kitchen`** is every write of a status. A tap writes its line (`TapWritesLine`), reads the order and
then the lines, and stores what they roll up to (`WritesRolled`), with the ping of a ticket that just
became ready (`PingLooks`, `PingInserts`). A ticket moves as a whole (`TicketWrites`, `TicketMoves`)
or by the lines of a station (`TicketMovesRead`, `TicketDerives`, `TicketStores`), and its job follows
(`TicketReadsJob`, `TicketWritesJob`). Acceptance and the sweep write conditionally (`AcceptWrites`,
`SweepCloses`); the sweep then serves all lines without looking (`SweepServes`). A void cancels
order, lines and job in three statements. A driver's steps check the job and write it by id
(`AdvanceChecks`, `AdvanceWrites`), and close the order after looking at the payment. `PingResolved`
is the sweep of `Alerts`.

**`Alerts`** has the rules (`StageRule`, `EvaluateOrderReadyNow`, `OtherRule`) over rows that change
as they like. A sweep makes its queries in any order (`SweepLoads`), reads the live alerts
(`SweepReadsLive`) and writes its differences one by one (`SweepRaises`, `SweepRefreshes`,
`SweepResolves`); `SweepLoadFails` fails the sweep, except where the code takes a failure for an empty
answer. Pings look, aim and insert; an acknowledgement picks its rows among those its role may see and
signs them one at a time. Ages are minutes since a row's stamp, and only tell whether a threshold is
passed. A resolved row nobody holds is dropped from the variable. Its specification is `AlertsSpec`, with
fairness `FairAlerts`.

**`Quota`** is one meter per isolate: `CountRowsRead`, the tick (`QuotaTick`) with its look into KV
(`LookAnswered` with what was stored when it was sent or is now; `LookFails`), the store
(`FlushLooked`, `FlushPuts`), a pinned mode, midnight. **`Live`** extends it with the kept answers
(`PollArrives`, `PollReads`, `PollAnswers`, `WriteAnswers` with its flush), the cron's pace, and the
kitchen's channel: a tick probes, builds if the probe moved, and shares (`TickProbes`, `TickReads`,
`TickShares`), or finds that what it saw stands (`TickStands`), or fails (`TickFails`), and in each of the
three sends what it ends with. A `tick[k]` is one of several that a screen may have under way, because
`setInterval` does not wait for the one before; between the probe's reading and its answer others share
and send. The lists are a version number, the board is a set of orders with their stamps and whether they
are paid: `OrderIsPaid` (`refreshPaymentStatus`) changes a row and stamps nothing, as do a claim of
consumption and the clearing of a table. `hidden` (history) says that a change left `MAX(updated_at)` at
a value seen before; `late` and `overtaken` that what a tick saw was replaced, and that its screen was
sent something since it began.

**`Desk`** is what the back office's handlers have in common. **`Shifts`** is the clock with its gate
(`ReadsGate`, `ClockOuts`), breaks, claims and their decision (`DecideArrives`, `Decides`), rates and
their flag (`RateWrites`, `RateFlags`), and the payroll run (`ReadsRows` kind by kind, `InsertsRun`,
`InsertsLine`). A check is `verifying` while a payment holds its claim, and the gate does not see it then.
The settings are what is stored, with the flag's row there or missing, or the defaults of a read that
failed (`Unread`), whose flag is down; `confirmed` and `behind` are history: the rates a manager confirmed,
and whether the flag has yet to follow a change of them. **`Payroll`** is its arithmetic: minutes, classification, overtime, pension, progressive
tax, in whole cents with the code's rounding. **`Zones`**: `ReadsUsage`, `MovesTables`, `ReadsRow`,
`WritesList`, `InsertFails` (two first saves). **`Recipes`**: `Supersedes`, `InsertsRecipe`, `InsertsBom`,
`Retires`, and a sale that picks a row and then reads its lines. **`Menu`**: the blob in KV is
read and put whole (`Puts`); `Follows`, `ReadsIds`, `WritesRow`, `DeletesRow` are the rows' update
after the answer; ids are derived in order from category, name and occurrence (`EnsureMenuIds`,
`Derived`), and the repair adopts those of D1 (`Backfilled`, `Adopted`); a list is put into the order of
its categories by the rank of each dish (`InOrder`). **`Office`** puts the four together; they share no rows.

`MCSync`, `MCSyncRestore`, `MCTill`, `MCTillClaim`, `MCStock`, `MCFloor`, `MCBills`, `MCKitchen`, `MCAlerts`, `MCLive`
and `MCOffice` give the constants their small values.

## 4. Runs

| Run | Bounds | Shows |
|---|---|---|
| `MCSync_faults` | 3 box writes, 1 cloud write, two overlapping pushes, batches of 2, one timeout, Worker death, crash and re-image each | `TypeOK`, `NothingLost`, `PrunedWasTaken`: cursors and pruning never go past what the other side took |
| `MCSync_diverge` | owned and append-only rows, all kinds of statement; one Worker death and one box crash, or a backup and a restore | `NoSilentDivergence`: rows that differ are on a list, still on their way, or were never journalled |
| `MCSync_once` | timeouts and a lost capture, requests served one at a time, replays that may throw, fair | `ExactlyOnceInOrder` (the refinement of `Delivery`), `EverythingTaken` |
| `MCTill_cash` | every operation, two requests at once out of three, each failure once | `TypeOK`, `CashAccounted` |
| `MCTill_claim` | three requests at once, payments and a void, one cut off at any statement, fair | `OneClaim`, `NeverOverpaid`, `PaidIsCovered`, `ClaimReleased` |
| `MCStock_shelf` | milk in two batches and cups, an order of both, a count of both, two requests at once out of three, one failure | `StockIsLedger`, `BatchesAddUp`, `ConsumedOnce`, `VoidedIsGivenBack` |
| `MCFloor_claims` | two tables, one with a party and one occupied with a blank stamp, two checks, two bookings at two overlapping times, two requests at once out of four, one cut off, a clock of two values | `OneParty`, `NoDoubleBooking`, `BillKeepsTable` |
| `MCBills_checks` | two standing checks, one to be taken, four ids to spare, two requests at once out of three (settlements counted), one failure | `BillIsItsLines`, `SplitCoversBill`, `FoodIsBilled` |
| `MCKitchen_pass` | a guest's ticket of two stations, a delivery, each at several stages, two requests at once, one cut short | `ReadyIsMade`, `VoidedStaysGone`, `ReadyIsAnnounced`, `CancelledTogether` |
| `MCAlerts_sweeps` | one thing of any of the seven kinds, two changes of its row, the minute's sweep and one more request, one of them cut short, fair | `OneRowPerBreach`, `ResolvedWhenCleared`, `AlertsFollow` |
| `MCLive_screens` | two isolates; loads of reads, polls or screens, two ticks of one screen at once, each with its faults | `TodayIsNotOverstated`, `ReadsFollowWrites`, `NewOnce`, `BoardFollows` |
| `MCOffice_desks` | one desk at a time, two requests at once out of two or three, one cut short | `NothingTwice`, `NobodyLeavesOwing`, `PayrollStands`, `ZonesAsEdited`, `SoldAsWritten`, `MirrorFollows`, `IdsKept` |

**Why these bounds.** The sync hazards need an entry in the middle of a batch (batches of 2, three
writes), two requests in flight, and one fault in each place. A claim needs three requests: two that
race and one that comes between. A drawer error needs a row, its tally and a close. A stock error
needs two postings of one item, or one posting cut in two; three requests let a delivery, its void
and a sale cross. On the floor three requests are enough for a table to be cleared and two parties to
want it, and a fourth comes while another is edited. A bill goes wrong when one request stores what
another made stale: two at once, and a third to see what it left. In the kitchen the orders begin at
the stages that an earlier request would have brought them to, so two requests are enough for any
pair of writers to cross. An alert needs its row to appear, change and go: two changes under two
raisers. A channel needs two screens that build at once, two ticks of one screen, or a screen that reconnects; the loads of
`MCLive` keep apart what does not interact. At the desks two requests meet, and a third reads what
they left. Two requests of one slot are told apart by nothing: the symmetry used is over the request
slots, checks and bookings, and only in runs of safety properties (`MCOffice_desks` has an action
property, which names no slot but under a quantifier, and no liveness).

**Fairness.** `Sync`'s `Fairness` lets the daemon go on (a `setInterval` on the box starts a cycle
whenever none is running), captures finish (they are promises already under way) and a request
being served take its next step. `Till`'s lets a request that is not cut off take its next step, and `TillClaim`'s is the same.
`Alerts` lets the cron's sweep begin whenever none of its own runs (`index.js` calls it every minute)
and everything under way go on. `Live` lets a screen's interval tick, a tick's statement be answered and a payload's window pass.
Faults are never fair and each strikes a bounded number of times: that the line eventually works is
the assumption behind every liveness property here. Writes and arrivals are never forced;
`AlertsFollow` and `BoardFollows` say what comes of it once they stop. Liveness under timeouts is part
of `ExactlyOnceInOrder`, since `Delivery`'s fairness is part of it.

**What a property leaves out, and why.** Much of this code stores without a condition what it read
before. Where two such writes overlap the result is wrong in the code, and a property that said
otherwise would be false; so history variables mark exactly those places, and the properties hold of
everything else. Each of the places is a hazard of `PROJECT.json` or of section 7.

* `NoSilentDivergence` leaves out rows with a write that was never journalled (`outboxCapture` fails
  open), rows whose numbers a restore used twice, and creator-owned tables: both sides apply each
  other's edit of an order, and two edits made apart stay crossed, on nobody's list.
* `StockIsLedger` and `BatchesAddUp` leave out `disturbed` items, because the balance is stored
  without a condition and an overlapping movement is lost. `ConsumedOnce` and `VoidedIsGivenBack`
  leave out `troubled` orders. Two consumptions of one order at the same time are not trouble: the
  claim has to settle them.
* `OneParty` leaves out a party that a manager or a moved check put on a taken table, and one whose
  table was cleared by a request that began before it sat. `NoDoubleBooking` leaves out bookings
  revived by a bare status and edits that another booking overtook between look and write.
  `BillKeepsTable` leaves out checks that arrived while the table was being cleared, checkout (which
  looks at no bill), and requests that did not finish.
* In `Bills` and `Kitchen`, `torn` are orders whose requests met or were cut short: the totals and
  statuses are stored by id, whatever came between. Two attempts at one ticket are not torn (the code
  makes the second one harmless), nor is the acceptance of a guest's order, which is conditional.
  What is left is every sequence of requests, and those that meet on other orders: a round on a check
  while a line moves between two more, a sweep that read an order before it changed.
* `OneRowPerBreach` leaves out keys that two raisers met on, or a late acknowledgement; `AlertsFollow`
  leaves out nothing.
* `TodayIsNotOverstated` leaves out a look that crossed midnight, `ReadsFollowWrites` what was read
  before a write and kept after its flush, `NewOnce` payloads that two builders shared in the wrong
  order, and a tick that ended after a later one of its own screen with what it had seen before it, `BoardFollows` changes that the probe cannot see and screens in critical mode.
* `ClaimReleased` leaves out the order of the payment that was cut off while it held the claim. The
  other payments of the run must give theirs up, the refused and the overtaken ones too.
* `NobodyLeavesOwing` leaves out the checks that came behind the gate, and those that a payment was
  holding when it looked. `PayrollStands` asks that a run that is not provisional be at the rates a manager
  last confirmed, but for settings that could not be read and for a flag behind its rates (no row for
  it, or a change under way or cut short between its two statements).
* The desks leave out what two requests were about at once (`torn`), a sale that met an edit of its
  dish, and, for the menu, writes that failed. `MirrorFollows` also leaves out menus in which two dishes
  bear one id and, after a repair of ids, all until the menu is next saved whole (a repair changes the
  menu only, and may exchange the ids of two namesakes); `IdsKept` leaves out what is served after a
  repair, which is there to change ids.

**Deadlock.** `Sync`'s daemon never stops, and its runs check for deadlock. The other modules stop
when the bound on requests is reached.

## 5. Proofs

`TimerProofs`, `TillProofs`, `FrontProofs`, `FloorProofs`, `KitchenProofs`, `StockProofs` and
`OfficeProofs` hold for every value of the constants: any rows, writes, batch size, slots, isolates,
screens, tables, bookings, checks, orders, lines, items, recipes, things in breach, staff, requests and
faults, under the named assumptions of the modules and what the table names. `SumProofs` has the
lemmas on sums and on places in an order.

| Theorem | Statement |
|---|---|
| `TimerProofs!TypeCorrect` | `Spec => []TypeOK` |
| `TimerProofs!CursorsLoseNothing` | `Spec => []NothingLost` |
| `TimerProofs!PruningLosesNothing` | `Spec => []PrunedWasTaken` |
| `TimerProofs!DeliversOnceInOrder` | `Spec => DeliveryOf!Safety`, with one slot and no kill, crash or re-image |
| `TimerProofs!AlertsHold` | `AlertsSpec => []AlertsInv`, the inductive invariant of the next two |
| `TimerProofs!BreachesHaveOneRow` | `AlertsSpec => []OneRowPerBreach` |
| `TimerProofs!ResolvedMeansCleared` | `AlertsSpec => ResolvedWhenCleared`, an action property |
| `TillProofs!TypeCorrect` | `Spec => []TypeOK`, with each request at a step of its own handler |
| `TillProofs!ClaimIsExclusive` | `Spec => []OneClaim`, when the operations are among `ClaimOps` |
| `TillProofs!CashIsAccounted` | `Spec => []CashAccounted`, for finitely many slots |
| `TillProofs!NothingOverpaid` | `Spec => []NeverOverpaid`, when the operations are among `ClaimOps` |
| `TillProofs!PaidMeansPaid` | `Spec => []PaidIsCovered`, when the operations are among `ClaimOps` |
| `FrontProofs!DayIsNotOverstated` | `Spec => []TodayIsNotOverstated` |
| `FrontProofs!PollsFollowWrites` | `Spec => []ReadsFollowWrites` |
| `FrontProofs!NewsIsToldOnce` | `Spec => []NewOnce` |
| `FrontProofs!ChecksAreKept` | `BillsSpec => []ChecksInv`, the inductive invariant of the next three |
| `FrontProofs!BillsAreTheirLines` | `BillsSpec => []BillIsItsLines` |
| `FrontProofs!SplitsCoverBills` | `BillsSpec => []SplitCoversBill` |
| `FrontProofs!FoodStaysBilled` | `BillsSpec => []FoodIsBilled` |
| `FloorProofs!BookingsDoNotOverlap` | `Spec => []NoDoubleBooking` |
| `FloorProofs!TableHasOneParty` | `Spec => []OneParty` |
| `FloorProofs!BillsKeepTables` | `Spec => []BillKeepsTable` |
| `KitchenProofs!ReadyMeansMade` | `Spec => []ReadyIsMade` |
| `KitchenProofs!VoidedOrdersStayGone` | `Spec => []VoidedStaysGone` |
| `KitchenProofs!ReadyOrdersAreAnnounced` | `Spec => []ReadyIsAnnounced` |
| `KitchenProofs!OrderAndJobEndTogether` | `Spec => []CancelledTogether` |
| `StockProofs!TypeCorrect` | `Spec => [](TypeOK /\ Known)`: types, and ledger rows name things that exist |
| `StockProofs!LedgerHolds` | `Spec => []StockIsLedger` |
| `StockProofs!BatchesHold` | `Spec => []BatchesAddUp`, for finitely many slots and opening batches that nothing was taken from |
| `StockProofs!VoidsGiveBack` | `Spec => []VoidedIsGivenBack` |
| `StockProofs!TakenOnce` | `Spec => []ConsumedOnce` |
| `OfficeProofs!OfficeHolds` | `Spec => []OfficeInv`, the inductive invariant of the next three |
| `OfficeProofs!NothingHappensTwice` | `Spec => []NothingTwice` |
| `OfficeProofs!PayrollsStand` | `Spec => []PayrollStands` |
| `OfficeProofs!NobodyHasLeftOwing` | `Spec => NobodyLeavesOwing`, an action property |
| `OfficeProofs!RecipesHold` | `Spec => []RecipesInv`, the inductive invariant of the next |
| `OfficeProofs!SalesAreAsWritten` | `Spec => []SoldAsWritten` |
| `OfficeProofs!ZonesHold` | `Spec => []ZonesInv`, the inductive invariant of the next |
| `OfficeProofs!ZonesAreAsEdited` | `Spec => []ZonesAsEdited` |
| `OfficeProofs!MenuHolds` | `Spec => []MenuInv`, the inductive invariant of the next two |
| `OfficeProofs!MirrorsFollow` | `Spec => []MirrorFollows` |
| `OfficeProofs!IdsAreKept` | `Spec => []IdsKept` |

**What they assume.** The modules' assumptions say what the constants are (types, bounds that are
numbers) and what the rows at the beginning look like. Those that say more than a type are few, and
each is what the code keeps once it holds: `TabsAssumption` (an open check is where somebody sits),
`FirstRowsAssumption` (nobody is clocked in twice or on leave twice on one day), `RatesAssumption`
(rates are whole cents), `FirstRecipesAssumption` (the active rows of `recipes` are one for each
variant, as the unique index of the schema has it, and have their lines), `MenuAssumption` (ids are the
rows' primary key; a category is listed once; where a dish of the menu has no id, no other has a derived
one, because ids are derived for a whole menu at once; rows said to be aligned are). The hypotheses of single
theorems are these. Finitely many slots: a Worker serves finitely many requests at once, and without
it a sum over them means nothing. `ClaimOps` (record, void, close, paid-in, paid-out): verification,
settlement and refund write an order's payment status without the claim, and with verification among
them the statements are false of the code (section 7). One slot and no death: with two requests at
once, or one killed between its entries and its cursor, the code applies an entry twice, which is
why `Delivery` is what it promises only when this happens to nobody; answers may still come late or
never, and writes may still go unjournalled. `MCSync_once` checks the refinement with its liveness
under the same conditions.

**Sums.** A balance is a fold over data (`SumOver`, from the community modules' `MapThenSumSet`),
which is defined by a recursion through CHOOSE. The library's induction theorems take an operator
and cannot be used; `SumProofs` proves them again over sets of numbers and of parts
(`NatSetInduction`, `PartsInduction`), shows that the function that the recursion chooses exists
(`SumIterExists`), and has from it the recursion equation (`SumStep`) and what the books use: what an
added, changed or removed element does to a sum (`SumAdd`, `SumChange`, `SumRemove`), that only the
values on the set matter (`SumSame`), and bounds (`SumLe`, `SumNat`). `PlacesRanked`, from the same
induction, says that the places of a finite order are counted without gaps: sorting a list by rank
loses no element and doubles none.

`NothingLost` is not inductive: it speaks of the cursors, and what makes them true is in the requests
still in flight. `PushInv` strengthens it with `CursorsOK` (every journal entry up to the box's
cursor, up to what was pruned, and up to the Worker's cursor when its epoch is the journal's, has
been gone through) and `RequestOK`, for every slot: what a request carries is a stretch of the
journal, everything before its position has been gone through, and the `lastSeq` it would write is
covered. A request of an
earlier epoch carries nothing that matters, which is why a re-image is harmless. Requests may
overlap because each of them is covered on its own: the cursor may go back, but never past what was
done. `PullInv` does the same for the engine's cycle. Three lemmas carry most steps: journals only
grow (`JournalsGrow`), what was taken stays taken (`TakenStays`), and what a request carries stays
true (`CarriesStays`). `PrunedWasTaken` follows because `prune` deletes up to the box's own cursor.

`DeliversOnceInOrder` maps every step of `Sync` to a `Take` of one entry, to a `Journal` or to a
stutter. `OnceInv` adds to the two invariants above that what a side went through is a first part of
the other's journal (`Follows`), that entries have the numbers of writes made (`Numbered`), and what
makes the next entry the right one: the cursor read by the request that is served, or the one the
engine holds, is the number of entries gone through (`CloudInLine`, `BoxInLine`). An answer that was
lost leaves the box's own cursor behind and not the Worker's, so the same entries are sent again and
skipped.

`TimerProofs` also proves `DifferencesAreListed` (`NoSilentDivergence` of `SpecR`), which is not in the
table because it speaks of a part of the code only. `OneByOne` asks for `/push` requests served one at
a time, for writes that are one transaction with their journal entry (`d1Batch`, and not `d1Run`, which most
handlers use), and for no statement like `SET v = v + 1`. Without these the two sides do differ silently
in the code: two requests at once apply older entries over newer ones, two `d1Run` writes of one row are
journalled in the other order when their captures cross, and an increment is counted again by a request
that follows one that died. Deaths, lost and late answers, replays and the restore are in it. Its argument:

`NoSilentDivergence` speaks of the end of an exchange. `SplitInv` says of every moment, for a row that
one side alone has written and nothing of which the other refuses (`Plain`), that the writer's row is
what its whole journal leaves (`IsAfter`), and that the other side's row is what *some* point of that
journal left, not before the entries it has gone through, or is listed (`Mirrors`). This is what makes
dying harmless: after it the last entries are gone through again under a row that is ahead of them. An
insert finds its row and is dropped, an update finds a later content and overwrites it until it is
there again, an update of a row deleted since matches nothing and is listed. It rests on ids being
random (`Births`: a row is inserted once, before anything else is done to it, by one side). At the
end no point but the last is left. Rows that both sides write, and rows of tables that one may only
add to, are refused by one of the two, and `RefusalsListed` has every refusal on its list. `Snapshot`
says all this of the backup as long as the box's journal is as it was then, so that copying it back
takes the box to an earlier cursor of the cloud's journal and no further.

`TypeOK` of `Till` contains `InItsHandler` (a request's step belongs to its operation), without which
the records' fields could not be typed. `OneClaim` is inductive by itself when only `recordPayment`
touches an order's payment status, hence `ClaimOps` = record, void, close, paid-in, paid-out. With
verification among the operations it is false of the code: see section 7.

`CashAccounted` is one sum: the cash rows of `payments` and refunds against the sales tallies of all
drawers, with what is on its way to a drawer and what found none. It says nothing of floats, paid-ins and
paid-outs, nor to which drawer a sale went. `CashInv` adds that what a request still owes the drawer is on its way (`OnItsWay`: it is at
a statement after which the tally comes, or is counted as lost) and that the rows are fresh
(`FreshRows`: no two requests or deferred tallies speak of one row). It needs no claim: the tally is
one UPDATE that adds.

`NeverOverpaid` and `PaidIsCovered` share `Takings`, which adds `PaysIn` for each request and its
order: past its check, a payment still fits under the total; past its sum, the status it will store is
that of what has been paid. Both stay true under the steps of others because whoever would add a
payment needs the claim first, and `OneClaim` says that it is taken.

`TodayIsNotOverstated` speaks of what is stored, and is not inductive: a store puts the greater of what
an isolate counted and what it looked up. `MeterInv` adds where these come from: `InTime` (what an
isolate holds or has under way is about its own day or an earlier one, and no isolate is ahead of the
date), `Honest` (its count, its view, its looks and a pending store for today do not exceed what was
read today) unless a look crossed midnight, and `Tomorrow` (nothing is stored or read for a day that
has not begun, so midnight starts at nothing). It is `rolloverIfNeeded` that makes an isolate honest
again: a meter of an earlier day says nothing of today, and all that uses it rolls it over first. Polls,
screens and the board leave the meters alone (`PollsKeep`, `ScreensKeep`), so the theorem is one of the
whole of `Live`.

`ReadsFollowWrites` is about an answer that has been given; `PollsInv` says the same of what is kept
(`KeptIsRecent`) and of what a poll has read and will keep (`ReadIsRecent`): it shows the last write
that was answered on this isolate, unless it is marked late, which it is exactly when a write was
answered between its read and its keeping. `NewOnce` needs to know what an isolate's channel and its
connections have seen, and what ticks that are still waiting for D1 may end with. `ScreensInv` says, as
long as no older board was shared over a later one (`Untorn`): what is shared had come, and what was told
or may be told yet (`Known`) is on it or has left for good (`ChannelTurn`); a tick that is not `late` saw
what is shared, and what a late one saw has other news (`TickTurn`); and a connection was told none of
the news of what it can still be sent, that of a late tick of its own that none overtook among it (`Behind`),
unless it is the last it was sent (`LineTurn`). A tick that ends after a later one of its own screen
(`overtaken`) may send older news again, and `back` marks the connection it did this to.

The three theorems about `Bills` have one invariant, `ChecksInv`. Its reservation is the properties' own:
an order that is not `torn` has one request at most (`Alone`), but for tills that send the same ticket
again, of which one at most has got past the primary key (`InsertedOnce`). A request breaks the
properties between its statements and restores them by its last, so each is stated with the request
that is about to restore it: `Reckoned` (the total is that of the lines, or somebody who touched them
is to add them up: `Reckoning`), `Fed` (no line to be made is on an order that is gone, or a void is
about to strike them: `Striking`), `Covered` (the parts are worth the whole, or a split has inserted
the parts up to its seat, each worth what it was given: `Splitting`, which counts the even shares so far and
gives the last part the rest). `Knows` is what a request has found out that still holds: the round may be
taken, the sum it read is that of the lines, the source it emptied is empty, the bill it reckons is
`flat`. `Vacant` says that nothing refers to an id before an order has it. A step of a request leaves every
other untorn order alone (`Undisturbed`), so each action has to be looked at only for the orders its own
request is about. The sums are of finitely many lines and parts, by the lemmas of `SumProofs`.
`Bills` and `Live` share the proof module and nothing else.

`AlertsInv` says of each request of `Alerts` what it has found. `FoundOnce`: a sweep has one violation
for a key at most, because each rule is found by the answer to one query (`QueryOf`) and speaks of
each row once; a query that has been asked is not asked again. `FoundAll`: what was in breach ever since the sweep began has been
found, or the query that finds it is still to be asked; and the rows it is to resolve are of keys that were
not. This is where a sweep's eight reads at different moments matter: the key of a row that changed between
them is in `off`, and of the others it makes no difference when they were read. A failed read of the
stock or of the menu puts their keys into `off`, which is what makes the statement true of the code. `Once`
says of a key that is not `torn` that it has one live row at most, that one request at most may raise
it (`RaisedBy`), and that it has none where a sweep or ping is about to insert (`Inserting`): both look
before they insert and nobody else may between. For `ResolvedWhenCleared` it is shown of every other
statement that what is live stays live (`StillLive`). `Alerts` shares the proof module with `Sync` and
nothing else.

The three theorems about `Floor` share `Shape`: the types, each request's record fits the step of the
handler it is at (`Fits`), and what is written was written no later than now (`Filed`). What each adds
is what its requests still know when they write:

* `BooksInv` adds `Looked`: a booking that clashes with the edit a request is about to write was
  itself written after that request began. The insert needs nothing, it is conditional; the edit
  looks first, and a clash written since marks the pair as contested.
* `SeatsInv` adds to `OneParty` that a table which may be claimed holds only displaced parties.
  Every claim is an UPDATE whose WHERE asks for just that, so a claim needs no look before it; what
  clears a table also says whom it displaced.
* `BillsInv` adds `Housed` (a check that owes is on an occupied table, or is adrift, or the request
  that will seat it is under way) and, for `/free`, transfer and sweep, `Cleared`: once a request has
  looked at the bills, whatever owes on its table came after it began. That is the only knowledge
  these handlers have when they clear, and it is why only later comers can be set adrift.

`BillsInv` holds at the start by `TabsAssumption`: a check that is open when the model begins is on a
table where somebody sits.

The four theorems about `Kitchen` have one invariant, `PassInv`, of three parts: `Shape`; `Alone` (an
order whose requests never met has one request at most that may write it); and `Held`. A handler
breaks all four properties between its statements and restores them by its last one, so `Held` says of
an order that nobody is about that they hold (`Right`), and of one that a request is about what that
request still owes and knows at its statement (`Has`, one operator for each handler). What it knows is
what it has read: the status it read tells whether the order is ready now (`Recalls`), which is how a
handler decides to announce; what it has rolled up is fair to the lines (`Fair`), which is what it will
store; a ticket's write has been stored, or a guest's order accepted over it (`Asked`). Each step keeps
`Held` because of `Alone`: the writer is the only one about its order, and no other order is touched. An
acceptance is the exception. It is one conditional UPDATE, so it needs to be alone with nothing, and the
proof shows that what the others know survives it.

In `Stock` the reservation is the same in every theorem: an item is `disturbed` once two requests
post it at the same time or one dies between its row and its balance. `Alone` is the other side of
it: a request at work on an undisturbed item is the only one, and the stock it has read is the stock
there is. From there on:

* `Even` gives the ledger: opening and booked rows make up the stock, or make it up once the request
  that has inserted its row has stored the balance (`Late`). `StockIsLedger` speaks of the last row's
  balance too, and follows at the moments when nobody is late (`EvenMeans`).
* `Holding` gives the batches. A row that has not yet been inserted has already taken from its
  batches, so `BatchesAddUp` counts what requests still have to book; `Shared` says for a request in
  the middle of its allocation which part of its plan the batches show, and `Recordable` that the
  rows that a reversal reads name orders and finite allocations.
* `Settling` gives the void: for an order that is not `troubled`, `Settles` says at each statement
  of the void and of the consumption what of its recipe is in the ledger, what is in `todo`, and who
  works at it; when the void is through nothing is left, and the rows cancel out.
* `Consumed` is the same for the sale: `Consuming` says of an order that is neither voided nor
  troubled that it has no rows before its `consumed` mark, one holder of the claim at most, and rows
  for a first part of its recipe whose rest is in the holder's `todo`; without a holder they are the
  whole recipe.

`OfficeInv` is of four parts. `Shape` is the types and what a step of a handler carries. `Days` is
`NothingTwice` with what it rests on, for people whose requests did not meet: one open entry,
hours within what the clock has run (each entry rounded to its hundredth), leaves apart, one open
break. `Stands` is `PayrollStands`, and rests on the settings: the flag is up, or behind its rates, or the
rates are those a manager confirmed (`Sure`). `Knows` is what
each request has read that still holds unless it is `torn`: the entry and breaks that it found at
the gate, that the claim it decides is still pending, that what a payroll run has read is approved, by another
than its owner, and is `Sure` of its rates, and that what a person owes at the clock-out came to him behind the gate or was held by
a payment when the gate looked. A
claim is read before its decision is written, so this breaks where two decisions of one claim meet,
and there the claim is `torn`. `NobodyLeavesOwing` is an action property of
this invariant: at the last statement of a clock-out, what is owed is in `since`.

`RecipesInv` is what makes a sale right: at most one row of a variant is active and it is the one in
the book (`Shelved`); an inactive or lineless row of the book is being replaced or its request was cut
short (`Tracked`); only one request writes a row's lines (`Revising`). `Sold` then says of a sale that
has found its row, and of one that is over, that it was due when the sale looked and that it has the
lines that were used. A row's lines are written once and then never changed, which is why the note
on a sale says for ever what was taken.

`ZonesInv` speaks of the list an edit holds (`EditHolds`): when it reads, the list that is stored; from
then on a list that offers every zone promised to be in, none promised to be out, the zone it adds or
renames to, and not the one it takes away. `ZonesAsEdited` says nothing of the lists between, and so is
not inductive: an edit that had dropped a zone meanwhile would break it at its last statement. Once the
tables of a zone are moved, those in it were put there since, and the edit knows none of them: that is
why the zone may be open, and not out, when the list is stored. `Without` keeps by rank what a filter
keeps; `RanksAre` shows that every rank is somebody's, and `WithoutIs` that nothing else is lost.

`MenuInv` has two parts. `Mirroring` says of a write that met no other what it still has to do, at each of
its steps (`Has`): before the rows of one dish are changed, that the menu and the rows will line up once
they are (`AfterDish`); in the middle of the synchronisation of a whole menu, that the dishes written so far have their
rows, and that the other rows are those the list had before and those to be deleted (`Written`).
`MirrorFollows` speaks only of the end of it. `Keeping` is about ids. `IdsKept` says that a dish is served
under one id, and is not inductive: what is served next comes from the menu, from a list that an editor
loaded an hour ago, or from the rows when KV has none. So `Borne` collects all that a dish may yet be
known by: the ids already served, the ids that the menu and the list of every request bear once ids are
derived for them, and the rows' while the menu is read from D1; and says it is one for each dish. The steps of
it are lemmas on lists: to derive again changes nothing (a list with ids is as it is), and to add a dish, to remove
one, to rename one or to reorder leaves the ids of the others, because ids are derived for whole menus
(`Old`, `SameIds`) and a list that has any to derive has only random ones beside. The
attempt to prove it corrected the model: `MirrorFollows` used to promise that rows line up after a forced
repair, which is false of the code when two dishes have one name (section 7).

The desks share no rows, so each action of one desk leaves the invariants of the others alone; those
frame lemmas are proved once for each desk.

**Only model-checked.** Liveness: `AlertsFollow`, `BoardFollows`, `EverythingTaken`, `ClaimReleased`,
and the fairness part of `ExactlyOnceInOrder` (the prover has neither ENABLED nor fairness).
Every safety invariant and action property that a run checks is proved, `NoSilentDivergence` under `OneByOne`.

## 6. Not modelled

* **Permissions**: every request is one the caller may make, except where a role is part of what a
  step does (a station's taps, who sees which alert, managers at the desks). `auth.js` and the scope
  tables decide who may send a request; they write nothing the modules read.
* **Venue gate and guest prices**: a function of the hour, two settings and the menu's prices, asked
  before an order is taken. It refuses or prices and keeps nothing.
* **Refusals**: a request that is refused before it writes changes nothing, and is left out unless the
  refusal is what a property is about.
* **Units, expansion and costing of recipes**: decimals and tables of units without a state.
* **The box's D1, KV and R2 stand-ins and its server**: I/O. The one hazard there, a batch that awaits
  on the connection every request uses, breaks the atomicity the other modules assume of a
  statement, so it is named in section 7 and not modelled in them.
* **Content, gallery, reviews, customers, uploads; reports, statistics, health, audit**: single rows,
  or reads. **Tasks, handovers, employee activity**: rows of one writer each. **Migrations,
  bootstrap, scripts**: run by hand, outside any request.
* **A KV that fails.** `kvGetMenu` (`menu.js:223-230`) catches a failed read of KV and takes it for
  "no menu": the save or read that follows then rebuilds the menu from D1. `Menu` has a KV that answers;
  it is empty where it is empty.
* Wording, rounding to cents where no property needs it, currencies, audit rows and timestamps are
  left out, except as an order of events.
* There are type invariants where proofs rest on them, in `Sync`, `Till`, `Live` and `Stock`, and as
  `Shape` in the proofs of `Floor`, `Kitchen` and `Office`, `BillsType` and `AlertsType` in those of
  `Bills` and `Alerts`; elsewhere TLC would stop at an ill-typed step anyway.

## 7. Smaller hazards

`PROJECT.json` lists the hazards the work is ordered by. These are the ones noted beside them while
reading: what the history variables leave out, and what no module has. Each is at its line for a
reviewer of the code.

**Where the code does not do what it or a document says.**

* `src/src/handlers/sync.js:163`: LOCAL-SERVER-DESIGN.md:120-122 says a retry cannot double-apply. `handlePush` reads the cursor at its start and writes it only at line 185, so a push the box timed out on and its retry both apply an entry; for `SET v = v + 1` the effect is doubled.
* `src/local/sync.js:49`: its comment (41-45) and LOCAL-SERVER-DESIGN.md:266-273 say a box restored from backup gets a new epoch. `VACUUM INTO` copies `sync_identity`, the outbox and its counter: the box keeps the old epoch and counts on below the cloud's cursor, and its next writes are skipped and acknowledged. `NoSilentDivergence` marks their rows.
* `src/src/handlers/payments.js:219`: 194-195 says "the claim is reversed on failure so the order can be re-paid". Only a refused overpayment (228) reverses it; any throw or death from 219 on leaves the order `verifying`, and every later payment is answered "already in progress". `ClaimReleased` leaves out the order whose payment died.
* `src/src/handlers/payments.js:331`: 188-193 says only the winner of the claim goes on. `verifyPayment`'s refresh overwrites `verifying` while a payment holds the claim; a second one claims too and both pass the overpayment check.
* `src/src/handlers/orders.js:680`: 673-674 says rows that exist mean "this call is the duplicate". After a part-payment the settlement of the rest is taken for one: it answers ok and books nothing.
* `src/src/lib/ledger.js:149`: batches.js:25-26 says "reversing is exact". `restoreToBatches` runs once for every reversed line and fills every allocation of the order again, so an order with n ingredients gives n times its quantity back to its batches.
* `src/src/handlers/menu.js:300`, `332`, `479`: the INSERTs into `menu_items` have a literal 0 where `available` stands and put availability into `sort_order`. A newly added dish is refused to guests (`orders.js:341`) and alerted as 86'd until the next full save or availability tap.
* `src/src/handlers/menu.js:61`: "the occurrence index keeps those distinct", but a new dish put before a namesake derives the id the namesake already has; rows and deletions then hit the wrong dish.
* `src/src/handlers/sse.js:38-40`: `MAX(updated_at)` is said to catch rows that "leave-the-board alike". An order that leaves without being the newest, or two writes in one millisecond, do not move it, and a screen keeps a ghost. "Every mutating write" (37) is not so: `payments.js:101` (paid or not, and when), `ledger.js:298`, `405` and `444` (the claim of consumption), `tables.js:1011` and `1133` stamp nothing, and the board shows the row as it was until another order moves the maximum.
* `src/src/handlers/sse.js:309`: `setInterval(tick)` does not wait for the tick before. One whose probe fails late sends the screen what it saw, after a later tick has sent more, and the next sends that again: an order is announced twice.
* `src/src/handlers/orders.js:133-135`: "neither can raise it twice" is false where a ping and a sweep overlap. `147-148`: the sweep's own rule does not leave deliveries out.
* `src/src/lib/microcache.js:18-19`: "only for seconds, not minutes": every hit renews the entry, so a key polled more often than its lifetime never expires. `69-73`: the oldest is said to be evicted by use, but a hit does not re-insert the key.
* `src/src/lib/quota.js`: "retry on the next tick" is really after a minute.
* `src/src/handlers/tables.js:1220`: the audit log says "Seated a new party on table ... over the one already there" (1200) before `claimSeat`, whose condition no occupied table meets: without a booking to release, the manager is answered 409 and the entry stands. `test/table-override-audit.test.js:74` expects the write because its database always reports one changed row.
* `src/src/handlers/tables.js:1115`: the block that should stamp `cleared_at` at checkout (1111) reads `current`, which is out of scope there; the catch hides the ReferenceError.
* `src/src/handlers/tables.js:1005`: `/free` stamps checks created no earlier than `seated_at`, but `created` has whole seconds and `seated_at` milliseconds: the order that seated the table looks older than its own sitting.
* `src/src/handlers/tables.js:613`: the sweep, like a transfer (`orders.js:939`), leaves `bill_requested_at` set, against 1086-1088.
* `src/src/handlers/hr.js:771`: "absence of the row already means unverified", against `settingsFromRows` (`payroll.js:255`): without the row the UPDATE matches nothing and the changed rates are read as confirmed.
* `src/src/handlers/hr.js:50-54`: a failed read of the settings runs payroll on the defaults, which say nothing of being unverified.
* `src/src/handlers/hr.js:960`: "a check that is still open": `listOpenChecks` (`orders.js:613`) does not return one that a payment holds (`verifying`), and a refused payment puts it back to `unpaid` (`payments.js:228`) behind the gate.
* `src/src/handlers/hr.js:990`: the refusal at clock-out names a handing-over that no route offers. `employees.js` asks for the status `open` where clock-in writes `active`.
* `src/src/handlers/orders.js:2478`: `taken > 0 && !manager` can never hold there.
* `src/src/lib/rules.js` (`evaluateTimeclock`): shop-local times are read as UTC, three hours late.

**Payments and the till.** `payments.js:228`: a refused overpayment stores `unpaid` whatever was paid
before. `365`: refunds are checked against the original amount each time. `168`: a payment may land on
an order voided since its check. `316`: verification takes a payment in any status. `284`: negative
amounts are stored and not tallied. `120`: the bill-request reset selects only the id and compares
states it did not read. `resources.js:97`: a closed drawer can be closed again. `118`: cash that comes
between close's read and its write is in the columns and not in the expected figure. `db.js:94`: a
deferred tally never runs, or finds the drawer closed. `orders.js:2460`: two voids both give the cash
back. `744-797`: the row of a submitted tip is looked for and then inserted.

**Stock.** `ledger.js:402`: a failure after some movements releases the claim, and the retry posts the
first ones again. `296`: an eviction after the claim leaves the order consumed and nothing deducted.
`batches.js:109`: two draws on one batch, the second stores over the first. `179`: a failed filling is
swallowed. `68`: a movement that needs more than all batches hold, or exactly the first. `inventory.js:82`:
the difference of a count is taken from a stock read before the one it is posted against.
`purchases.js:329`: supplier payments overwrite each other. `367`: two voids of one delivery. `374`: a
voided delivery takes from whatever expires first.

**Orders.** Merging a part of a split, or appending to it, drops its share. Merging and moving drop
discount, tip and tax, and ask for no closed, paid or voided state. A line's PUT asks for no order of
states. Taps on lines neither move the job nor consume stock; a job that skipped `preparing` is stuck.
Splitting or merging a delivery leaves its job behind. `1382`: an order whose lines fail stands with a
warning; one whose request was cut after the INSERT fails its retry on the primary key. `1345`: a
request that ends between an order and its seat. `2254`: a station's handoff stores the status over
whatever the order has become. `1062`: the sweep serves a round that was added in between. `915`: a
transfer takes a table whatever it has become. `641`: a transfer compares names of tables as spelt.
`1353`: a first order seats a table that a booking holds.

**Delivery.** `delivery.js:247`, `249`: settlement completes the order for any payment above zero, whatever
the stage, in two statements. Batch assignment against a stale step drags a job back; a void cancels
even a delivered job; a settlement of a cancelled job completes a voided order.

**Floor.** `tables.js:967`: `/free` looks and then writes. `reservations.js:267`: a bare status revives a
booking without a look. `resources.js:520`: PUT /api/tables with the id in the body passes the gates.
Zones: a rename does not ask for the cap, so a list of more than nine does not validate and the
defaults come back; a removal looks tables up by exact spelling, so others stay and the zone returns;
`331`: tables are moved before the list is checked.

**Alerts.** `515`: a signature lands on a resolved row. `95`: a failed read of stock or menu resolves
every alert of the kind. A ping between a sweep's reads is resolved and raised again a minute later.

**Quota, cache, channel.** A look that crosses midnight poisons the new day; a store that crosses it
loses the old day's tail; isolates are merged by maximum, not by sum; a pin can be undone for a minute
by an older look. A reconnecting screen hears the last announcement again, and one that misses a
refresh never hears of its orders. The three cron sweeps stop in critical mode.

**Desks.** A break that runs at clock-out can never be ended. `persistClassification` does not pass
`onLeave`. A shift over a day counts its remainder. Two payroll runs of one period include the same
claims. Approving a rejected leave can make leaves overlap. Recipes: `190`: two revisions both archive
the row; a sale between the statements consumes nothing; versions restart after archiving by hand.
Menu: PUT with another category drops the fields not sent, without one moves the row to "Other"; POST
on a menu without ids mints ids in D1 only; a forced repair (`104`) may exchange the ids of two dishes of one
name, and their rows keep the other's price and availability until the next whole save; a stale whole save undoes an 86; the rows' errors are
swallowed. `updateTask` away from completed keeps `completed_at`.

**The box.** `lib/db.js:44`: `d1Run` captures after the write, outside its transaction: two writes of
one row can be journalled in the other order, and the other side ends with the older one. `local/d1.js:146`: a batch awaits between BEGIN and COMMIT on the one connection: another
request's statements land inside and roll back with it. `local/seed-from-cloud.js:120`: a seeded box
starts with the cloud's journal and cursors as its own. `local/sync.js:161`: a box that stops before
writing the `in` cursor applies again. `handlers/sync.js:98`: a conditional UPDATE matches nothing on
the other side. `185`: a lost answer leaves the cursors apart until the retry. `ownership.js:81`: both
sides edit a creator-owned row and both edits are applied crosswise, against
LOCAL-SERVER-DESIGN.md:124-127.
