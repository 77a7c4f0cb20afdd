-------------------------------- MODULE Kitchen --------------------------------
(***************************************************************************)
(* The states of an order, of its lines and of its delivery job: taps on a *)
(* line, on a whole ticket or on a station's part of it, acceptance of a   *)
(* guest's order, a new round, the sweep that closes what is paid, a void, *)
(* the pickup ping and the driver's steps (handlers/orders.js,             *)
(* handlers/delivery.js, lib/timing.js).                                   *)
(*                                                                         *)
(* An order's status is written by six handlers, most often from lines or  *)
(* rows read in an earlier statement.  Money is Bills' and Till's, the     *)
(* stock a ready ticket takes is Stock's.                                  *)
(***************************************************************************)
EXTENDS Integers, Sequences, FiniteSets

CONSTANTS
  Orders,       \* the orders of the run
  LineUp,       \* their lines: a sequence of [order, station]
  Guest,        \* the orders that came from a table's code
  Delivery,     \* the orders that are to be delivered
  Stages,       \* Stages[o]: how far along order o may be at first
  Wanted,       \* what a whole ticket may be moved to
  Taps,         \* what a line may be moved to
  Moves,        \* what a driver's job may be moved to
  Ops,          \* the operations the run is about
  Slots,        \* requests that may be under way at once
  MaxRequests,  \* bound: requests in a behaviour
  MaxFaults     \* bound: requests cut short

\* ITEM_FLOW, and the states of an order and of a delivery job.
ItemFlow    == <<"new", "preparing", "ready", "served">>
ItemStates  == {ItemFlow[k] : k \in DOMAIN ItemFlow}
JobStates   == {"none", "new", "confirmed", "preparing", "ready", "assigned", "picked_up",
                "out_for_delivery", "delivered", "cancelled"}
Stations    == {"bar", "kitchen"}

AllStages == {"fresh", "cooking", "passed", "away"}
AllOps    == {"tap", "ticket", "accept", "round", "sweep", "void", "pay", "advance",
              "settle", "assign"}

ASSUME NamesAssumption   == "none" \notin Orders
ASSUME LinesAssumption   == LineUp \in Seq([order : Orders, station : Stations])
ASSUME KindsAssumption   == Guest \subseteq Orders /\ Delivery \subseteq Orders \ Guest
ASSUME StagesAssumption  == Stages \in [Orders -> SUBSET AllStages]
ASSUME StatusAssumption  == Wanted \subseteq ItemStates \cup {"fulfilled", "completed"}
ASSUME TapsAssumption    == Taps \subseteq ItemStates
ASSUME MovesAssumption   == Moves \subseteq JobStates \ {"none", "new"}
ASSUME OpsAssumption     == Ops \subseteq AllOps
ASSUME BoundsAssumption  == MaxRequests \in Nat /\ MaxFaults \in Nat

VARIABLES
  orders,   \* orders[o]: status, voided_at set?, payment_status paid?
  lines,    \* the rows of order_items
  jobs,     \* jobs[o]: the delivery of order o, its status and settled_at set?
  pings,    \* pings[o]: live order-ready-now alerts
  req,      \* req[i]: the request in slot i
  started,  \* history: how many requests came
  torn,     \* history: orders whose requests met, or were cut short
  tapped,   \* history: orders of which a line was tapped after they were voided
  faults    \* how many requests were cut short

rows    == <<orders, lines, jobs, pings>>
history == <<started, torn, tapped>>
vars    == <<rows, req, history, faults>>

Roles == Stations \cup {"floor"}

Pcs == {"free", "line", "before", "lines", "roll", "look", "ping", "check", "write",
        "behind", "move", "derive", "store", "job", "jobWrite", "accepted", "insert",
        "stale", "close", "serve", "cancel", "strike", "drop", "fetch", "paid", "order",
        "settled", "jobMove", "closing"}

\* A request: its order and line, the status it asks for, the role that sends it
\* (a station's role, or the floor's, which may name a station), and what it has
\* read: the order's status, the status rolled up, lines or stale orders.
FreeSlot == [op |-> "none", pc |-> "free", order |-> "none", line |-> 0, want |-> "none",
             role |-> "floor", scope |-> "none", before |-> "none", rolled |-> "none",
             behind |-> {}, stale |-> {}]

\* An order, its lines and its job as far along as each other.
StatusAt == [fresh |-> "new", cooking |-> "preparing", passed |-> "ready",
             away |-> "fulfilled"]
LineAt   == [fresh |-> "new", cooking |-> "preparing", passed |-> "ready",
             away |-> "served"]
JobAt    == [fresh |-> "new", cooking |-> "preparing", passed |-> "ready",
             away |-> "picked_up"]

Init == \E stage \in [Orders -> AllStages] :
  /\ \A o \in Orders : stage[o] \in Stages[o]
  /\ orders = [o \in Orders |-> [status |-> StatusAt[stage[o]], voided |-> FALSE,
                                 paid |-> FALSE]]
  /\ lines = [n \in DOMAIN LineUp |->
       [order |-> LineUp[n].order, station |-> LineUp[n].station,
        status |-> LineAt[stage[LineUp[n].order]]]]
  /\ jobs = [o \in Orders |->
       [status |-> IF o \in Delivery THEN JobAt[stage[o]] ELSE "none", settled |-> FALSE]]
  /\ pings = [o \in Orders |-> IF stage[o] = "passed" /\ o \notin Delivery THEN 1 ELSE 0]
  /\ req = [i \in Slots |-> FreeSlot]
  /\ started = 0 /\ torn = {} /\ tapped = {} /\ faults = 0

-----------------------------------------------------------------------------
(* lib/timing.js.                                                          *)

\* slice(0, indexOf(s)): what indexOf does not find, it gives as -1, and all states
\* but the last are before it.
FlowIndex(s) == IF s \in ItemStates THEN CHOOSE k \in DOMAIN ItemFlow : ItemFlow[k] = s
                                    ELSE Len(ItemFlow)

\* ITEM_FLOW.slice(0, flowIndex(target)).
BehindStates(target) == {ItemFlow[k] : k \in 1 .. FlowIndex(target) - 1}

LinesOn(o) == {n \in DOMAIN lines : lines[n].order = o}
StatesOf(o) == {lines[n].status : n \in LinesOn(o)} \cap ItemStates

\* deriveOrderStatus: ready when nothing is still being made, served when every
\* line has landed; cancelled lines do not count.
DeriveOrderStatus(states) ==
  CASE states = {}                    -> "none"
    [] states = {"served"}            -> "served"
    [] states = {"new"}               -> "new"
    [] "ready" \in states /\ states \subseteq {"ready", "served"} -> "ready"
    [] OTHER                          -> "preparing"

\* ORDER_TO_ITEM_STATUS.
ItemStatusOf(s) == IF s \in {"fulfilled", "completed"} THEN "served" ELSE s

-----------------------------------------------------------------------------
(* Requests.                                                               *)

At(i, pc)    == req[i].pc = pc
Goes(i, r)   == req' = [req EXCEPT ![i] = r]
Steps(i, pc) == Goes(i, [req[i] EXCEPT !.pc = pc])
Answers(i)   == Goes(i, FreeSlot)
Proceeds(i, pc) == IF pc = "free" THEN Answers(i) ELSE Steps(i, pc)

\* The orders a request may write; accepting is conditional and meets nobody.
Touches(r) == IF r.op = "accept" THEN {} ELSE ({r.order} \ {"none"}) \cup r.stale
Met(i, r)  == Touches(r) \cap UNION {Touches(req[j]) : j \in Slots \ {i}}

Arrives(i, r) ==
  /\ At(i, "free") /\ started < MaxRequests /\ r.op \in Ops
  /\ Goes(i, r)
  /\ started' = started + 1
  /\ torn' = torn \cup Met(i, r)
  /\ UNCHANGED <<rows, tapped, faults>>

\* Law 4 on one line: a station's role advances its own station's lines only.
MayTap(role, n) == role \in Stations => lines[n].station = role

\* PUT /api/orders/:orderId/items/:itemId.
TapArrives(i) == \E n \in DOMAIN lines, s \in Taps, role \in Roles :
  /\ MayTap(role, n)
  /\ Arrives(i, [FreeSlot EXCEPT !.op = "tap", !.pc = "line", !.order = lines[n].order,
                                 !.line = n, !.want = s, !.role = role])

\* Law 4 on a ticket: a station's role is held to its station, the floor may name one.
ScopeOf(role, asked) == IF role \in Stations THEN role ELSE asked

\* PUT /api/orders/:id with a status.  Law 3: only the floor serves.
TicketArrives(i) ==
  \E o \in Orders, s \in Wanted, role \in Roles, asked \in Stations \cup {"none"} :
    /\ s = "served" => role = "floor"
    /\ role \in Stations => asked = "none"
    /\ Arrives(i, [FreeSlot EXCEPT !.op = "ticket", !.pc = "check", !.order = o,
                     !.want = s, !.role = role, !.scope = ScopeOf(role, asked)])

Simple(i, op, pc, S) == \E o \in S :
  Arrives(i, [FreeSlot EXCEPT !.op = op, !.pc = pc, !.order = o])

AcceptArrives(i) == Simple(i, "accept", "check", Guest)
RoundArrives(i)  == Simple(i, "round", "check", Orders)
VoidArrives(i)   == Simple(i, "void", "check", Orders)
SettleArrives(i) == Simple(i, "settle", "check", Delivery)
AssignArrives(i) == Simple(i, "assign", "job", Delivery)
SweepArrives(i)  == Arrives(i, [FreeSlot EXCEPT !.op = "sweep", !.pc = "stale"])

AdvanceArrives(i) == \E o \in Delivery, to \in Moves :
  Arrives(i, [FreeSlot EXCEPT !.op = "advance", !.pc = "fetch", !.order = o, !.want = to])

\* The order is paid (Till).
Pays(o) ==
  /\ "pay" \in Ops /\ ~orders[o].paid /\ ~orders[o].voided
  /\ orders' = [orders EXCEPT ![o].paid = TRUE]
  /\ UNCHANGED <<lines, jobs, pings, req, history, faults>>

-----------------------------------------------------------------------------
(* A line is tapped.                                                       *)

\* The line, whatever the order is and whatever the line was.
TapWritesLine(i) ==
  LET r == req[i]
  IN /\ At(i, "line")
     /\ IF lines[r.line].order = r.order
        THEN lines' = [lines EXCEPT ![r.line].status = r.want] /\ Steps(i, "before")
        ELSE Answers(i) /\ UNCHANGED lines
     /\ tapped' = IF orders[r.order].voided THEN tapped \cup {r.order} ELSE tapped
     /\ UNCHANGED <<orders, jobs, pings, started, torn, faults>>

TapReadsOrder(i) ==
  /\ At(i, "before")
  /\ Goes(i, [req[i] EXCEPT !.pc = "lines", !.before = orders[req[i].order].status])
  /\ UNCHANGED <<rows, history, faults>>

\* The lines are read again and rolled up; a round does the same with its own.
ReadsLines(i) ==
  LET rolled == DeriveOrderStatus(StatesOf(req[i].order))
  IN /\ At(i, "lines")
     /\ IF rolled = "none" THEN Answers(i)
        ELSE Goes(i, [req[i] EXCEPT !.pc = "roll", !.rolled = rolled])
     /\ UNCHANGED <<rows, history, faults>>

\* A ticket that just became ready pings whoever waits for it.
BecameReady(r, status) ==
  status = "ready" /\ r.before # "ready" /\ r.order \notin Delivery

\* The status rolled up, by id alone.
WritesRolled(i) ==
  LET r == req[i]
  IN /\ At(i, "roll")
     /\ orders' = [orders EXCEPT ![r.order].status = r.rolled]
     /\ Proceeds(i, IF r.op = "tap" /\ BecameReady(r, r.rolled) THEN "look" ELSE "free")
     /\ UNCHANGED <<lines, jobs, pings, history, faults>>

-----------------------------------------------------------------------------
(* raiseReadyNowPing, behind the answer.                                   *)

\* Mutant: the ping is raised without looking for a live one.
LiveNever(o) == FALSE

Live(o) == pings[o] > 0

PingLooks(i) ==
  /\ At(i, "look")
  /\ Proceeds(i, IF Live(req[i].order) THEN "free" ELSE "ping")
  /\ UNCHANGED <<rows, history, faults>>

PingInserts(i) ==
  /\ At(i, "ping")
  /\ pings' = [pings EXCEPT ![req[i].order] = @ + 1]
  /\ Answers(i)
  /\ UNCHANGED <<orders, lines, jobs, history, faults>>

\* The alert sweep resolves the pings of an order that is no longer ready (Alerts).
PingResolved(o) ==
  /\ pings[o] > 0 /\ orders[o].status # "ready"
  /\ pings' = [pings EXCEPT ![o] = 0]
  /\ UNCHANGED <<orders, lines, jobs, req, history, faults>>

-----------------------------------------------------------------------------
(* A whole ticket, or a station's part of it.                              *)

TicketChecks(i) ==
  LET o == req[i].order
  IN /\ At(i, "check") /\ req[i].op = "ticket"
     /\ IF orders[o].voided THEN Answers(i)
        ELSE Goes(i, [req[i] EXCEPT !.pc = "write", !.before = orders[o].status])
     /\ UNCHANGED <<rows, history, faults>>

\* The status as it was asked for; with a scope, only updated_at is written.
TicketWrites(i) ==
  LET r == req[i]
  IN /\ At(i, "write")
     /\ orders' = IF r.scope = "none" THEN [orders EXCEPT ![r.order].status = r.want]
                                      ELSE orders
     /\ Goes(i, [r EXCEPT !.pc = "behind", !.rolled = r.want])
     /\ UNCHANGED <<lines, jobs, pings, history, faults>>

\* A delivery's job follows the order; anything else may call for a ping.
AfterStatus(r) == CASE r.order \in Delivery       -> "job"
                    [] BecameReady(r, r.rolled) -> "look"
                    [] OTHER                    -> "free"

Behind(r) == {n \in LinesOn(r.order) :
                /\ lines[n].status \in BehindStates(ItemStatusOf(r.want))
                /\ r.scope \in Stations => lines[n].station = r.scope}

Advanced(S, s) == [n \in DOMAIN lines |->
                     IF n \in S THEN [lines[n] EXCEPT !.status = s] ELSE lines[n]]

\* Without a scope one UPDATE moves the lines behind; with one, they are read first.
TicketMoves(i) ==
  LET r == req[i]
  IN /\ At(i, "behind")
     /\ IF r.scope = "none"
        THEN lines' = Advanced(Behind(r), ItemStatusOf(r.want)) /\ Proceeds(i, AfterStatus(r))
        ELSE Goes(i, [r EXCEPT !.pc = "move", !.behind = Behind(r)]) /\ UNCHANGED lines
     /\ UNCHANGED <<orders, jobs, pings, history, faults>>

\* UPDATE ... WHERE id IN (the lines read), whatever they are now.
TicketMovesRead(i) ==
  LET r == req[i]
  IN /\ At(i, "move")
     /\ lines' = Advanced(r.behind, ItemStatusOf(r.want))
     /\ Goes(i, [r EXCEPT !.pc = "derive", !.behind = {}])
     /\ UNCHANGED <<orders, jobs, pings, history, faults>>

\* Mutant: a station's handoff makes the ticket picked up whatever the others do.
EffectiveHasty(derived, want) == want

\* A handoff that finds every line done is "picked up", and not yet served.
EffectiveStatus(derived, want) ==
  CASE derived = "none" -> want
    [] derived = "served" /\ want = "fulfilled" -> want
    [] OTHER -> derived

TicketDerives(i) ==
  LET r == req[i]
  IN /\ At(i, "derive")
     /\ Goes(i, [r EXCEPT !.pc = "store",
          !.rolled = EffectiveStatus(DeriveOrderStatus(StatesOf(r.order)), r.want)])
     /\ UNCHANGED <<rows, history, faults>>

TicketStores(i) ==
  LET r == req[i]
  IN /\ At(i, "store")
     /\ orders' = [orders EXCEPT ![r.order].status = r.rolled]
     /\ Proceeds(i, AfterStatus(r))
     /\ UNCHANGED <<lines, jobs, pings, history, faults>>

\* canTransition, and the table of the moves it allows.
Transitions == [s \in JobStates |->
  CASE s = "new"              -> {"confirmed", "preparing"}
    [] s = "confirmed"        -> {"preparing"}
    [] s = "preparing"        -> {"ready"}
    [] s = "ready"            -> {"assigned"}
    [] s = "assigned"         -> {"picked_up"}
    [] s = "picked_up"        -> {"out_for_delivery", "delivered"}
    [] s = "out_for_delivery" -> {"delivered"}
    [] OTHER                  -> {}]

CanTransition(from, to) ==
  IF to = "cancelled" THEN from \notin {"delivered", "cancelled"}
                      ELSE to \in Transitions[from]

\* syncDeliveryToOrderStatus: the job follows the kitchen, if it may.
Mirrored == {"new", "preparing", "ready"}

TicketReadsJob(i) ==
  LET r == req[i]
  IN /\ At(i, "job") /\ r.op = "ticket"
     /\ Proceeds(i, IF r.rolled \in Mirrored /\ CanTransition(jobs[r.order].status, r.rolled)
                    THEN "jobWrite" ELSE "free")
     /\ UNCHANGED <<rows, history, faults>>

TicketWritesJob(i) ==
  LET r == req[i]
  IN /\ At(i, "jobWrite")
     /\ jobs' = [jobs EXCEPT ![r.order].status = r.rolled]
     /\ Answers(i)
     /\ UNCHANGED <<orders, lines, pings, history, faults>>

-----------------------------------------------------------------------------
(* A guest's order is accepted; a round is added.                          *)

AcceptChecks(i) ==
  /\ At(i, "check") /\ req[i].op = "accept"
  /\ Proceeds(i, IF orders[req[i].order].status = "new" THEN "accepted" ELSE "free")
  /\ UNCHANGED <<rows, history, faults>>

\* Mutant: acceptance is written by id alone.
AcceptableAlways(o) == TRUE

Acceptable(o) == orders[o].status = "new"

AcceptWrites(i) ==
  /\ At(i, "accepted")
  /\ orders' = IF Acceptable(req[i].order)
               THEN [orders EXCEPT ![req[i].order].status = "confirmed"] ELSE orders
  /\ Answers(i)
  /\ UNCHANGED <<lines, jobs, pings, history, faults>>

RoundChecks(i) ==
  LET o == orders[req[i].order]
  IN /\ At(i, "check") /\ req[i].op = "round"
     /\ Proceeds(i, IF ~o.voided /\ ~o.paid /\ o.status \notin {"completed", "cancelled"}
                    THEN "insert" ELSE "free")
     /\ UNCHANGED <<rows, history, faults>>

RoundInserts(i) == \E s \in Stations :
  /\ At(i, "insert")
  /\ lines' = Append(lines, [order |-> req[i].order, station |-> s, status |-> "new"])
  /\ Steps(i, "lines")
  /\ UNCHANGED <<orders, jobs, pings, history, faults>>

-----------------------------------------------------------------------------
(* autoCompleteStaleOrders, a step of the minute sweep.                    *)

Closes(o) == orders[o].status \in {"ready", "served"} /\ orders[o].paid

\* What may have sat too long: any of the orders the query admits.
Sweepable == {o \in Orders \ Delivery : ~orders[o].voided /\ orders[o].paid
                                           /\ orders[o].status \in {"ready", "served"}}

SweepReads(i) == \E S \in SUBSET Sweepable :
  /\ At(i, "stale")
  /\ IF S = {} THEN Answers(i) ELSE Goes(i, [req[i] EXCEPT !.pc = "close", !.stale = S])
  /\ torn' = torn \cup Met(i, [req[i] EXCEPT !.stale = S])
  /\ UNCHANGED <<rows, started, tapped, faults>>

\* On to the next stale order, if there is one.
SweepDrops(i, o) ==
  LET rest == req[i].stale \ {o}
  IN IF rest = {} THEN Answers(i)
     ELSE Goes(i, [req[i] EXCEPT !.pc = "close", !.order = "none", !.stale = rest])

SweepCloses(i) == \E o \in req[i].stale :
  /\ At(i, "close")
  /\ IF Closes(o)
     THEN /\ orders' = [orders EXCEPT ![o].status = "completed"]
          /\ Goes(i, [req[i] EXCEPT !.pc = "serve", !.order = o])
     ELSE SweepDrops(i, o) /\ UNCHANGED orders
  /\ UNCHANGED <<lines, jobs, pings, history, faults>>

SweepServes(i) ==
  LET o == req[i].order
  IN /\ At(i, "serve")
     /\ lines' = Advanced({n \in LinesOn(o) : lines[n].status \in BehindStates("served")},
                          "served")
     /\ SweepDrops(i, o)
     /\ UNCHANGED <<orders, jobs, pings, history, faults>>

-----------------------------------------------------------------------------
(* A void.                                                                 *)

VoidChecks(i) ==
  /\ At(i, "check") /\ req[i].op = "void"
  /\ Proceeds(i, IF orders[req[i].order].voided THEN "free" ELSE "cancel")
  /\ UNCHANGED <<rows, history, faults>>

VoidCancels(i) ==
  /\ At(i, "cancel")
  /\ orders' = [orders EXCEPT ![req[i].order].status = "cancelled",
                              ![req[i].order].voided = TRUE]
  /\ Steps(i, "strike")
  /\ UNCHANGED <<lines, jobs, pings, history, faults>>

VoidStrikes(i) ==
  /\ At(i, "strike")
  /\ lines' = Advanced({n \in LinesOn(req[i].order) : lines[n].status # "served"},
                       "cancelled")
  /\ Steps(i, "drop")
  /\ UNCHANGED <<orders, jobs, pings, history, faults>>

\* Mutant: a void leaves the driver's job.
DroppedNot(o) == jobs

Dropped(o) == IF o \in Delivery THEN [jobs EXCEPT ![o].status = "cancelled"] ELSE jobs

VoidDrops(i) ==
  /\ At(i, "drop")
  /\ jobs' = Dropped(req[i].order)
  /\ Answers(i)
  /\ UNCHANGED <<orders, lines, pings, history, faults>>

-----------------------------------------------------------------------------
(* The driver's job: POST /api/delivery/:id/status, /settle, /batch-assign. *)

AdvanceChecks(i) ==
  LET r == req[i]
  IN /\ At(i, "fetch")
     /\ Proceeds(i, IF CanTransition(jobs[r.order].status, r.want) THEN "jobMove" ELSE "free")
     /\ UNCHANGED <<rows, history, faults>>

AdvanceWrites(i) ==
  LET r == req[i]
  IN /\ At(i, "jobMove")
     /\ jobs' = [jobs EXCEPT ![r.order].status = r.want]
     /\ Proceeds(i, CASE r.want = "delivered" -> "paid"
                      [] r.want = "cancelled" -> "order"
                      [] OTHER -> "free")
     /\ UNCHANGED <<orders, lines, pings, history, faults>>

\* A delivered job closes its order once the money is in.
AdvanceReadsPaid(i) ==
  LET r == req[i]
  IN /\ At(i, "paid")
     /\ Goes(i, [r EXCEPT !.pc = "order",
                          !.rolled = IF orders[r.order].paid THEN "completed" ELSE "served"])
     /\ UNCHANGED <<rows, history, faults>>

AdvanceWritesOrder(i) ==
  LET r == req[i]
  IN /\ At(i, "order")
     /\ orders' = IF r.want = "cancelled"
                  THEN [orders EXCEPT ![r.order].status = "cancelled",
                                      ![r.order].voided = TRUE]
                  ELSE [orders EXCEPT ![r.order].status = r.rolled]
     /\ Answers(i)
     /\ UNCHANGED <<lines, jobs, pings, history, faults>>

\* Cash handed over: once, and only if a payment is on record.
SettleChecks(i) ==
  LET o == req[i].order
  IN /\ At(i, "check") /\ req[i].op = "settle"
     /\ Proceeds(i, IF ~jobs[o].settled /\ orders[o].paid THEN "settled" ELSE "free")
     /\ UNCHANGED <<rows, history, faults>>

SettleWrites(i) ==
  /\ At(i, "settled")
  /\ jobs' = [jobs EXCEPT ![req[i].order].settled = TRUE]
  /\ Steps(i, "closing")
  /\ UNCHANGED <<orders, lines, pings, history, faults>>

SettleCloses(i) ==
  /\ At(i, "closing")
  /\ orders' = [orders EXCEPT ![req[i].order].status = "completed"]
  /\ Answers(i)
  /\ UNCHANGED <<lines, jobs, pings, history, faults>>

Assignable == {"new", "confirmed", "preparing", "ready"}

\* One conditional UPDATE for each job of the batch.
Assigns(i) ==
  LET o == req[i].order
  IN /\ At(i, "job") /\ req[i].op = "assign"
     /\ jobs' = IF jobs[o].status \in Assignable
                THEN [jobs EXCEPT ![o].status = "assigned"] ELSE jobs
     /\ Answers(i)
     /\ UNCHANGED <<orders, lines, pings, history, faults>>

-----------------------------------------------------------------------------
(* A request is cut short after it wrote something.                        *)

Halfway(r) == \/ r.pc \in {"before", "lines", "roll", "look", "ping", "behind", "move",
                            "derive", "store", "jobWrite", "serve", "strike", "drop",
                            "paid", "order", "closing"}
              \/ r.pc = "job" /\ r.op = "ticket"

Dies(i) ==
  /\ Halfway(req[i]) /\ faults < MaxFaults
  /\ faults' = faults + 1
  /\ torn' = torn \cup Touches(req[i])
  /\ Answers(i)
  /\ UNCHANGED <<rows, started, tapped>>

-----------------------------------------------------------------------------
Arrivals(i) == \/ TapArrives(i) \/ TicketArrives(i) \/ AcceptArrives(i) \/ RoundArrives(i)
               \/ SweepArrives(i) \/ VoidArrives(i) \/ AdvanceArrives(i)
               \/ SettleArrives(i) \/ AssignArrives(i)

Lines(i)   == TapWritesLine(i) \/ TapReadsOrder(i) \/ ReadsLines(i) \/ WritesRolled(i)
Pings(i)   == PingLooks(i) \/ PingInserts(i)
Tickets(i) == \/ TicketChecks(i) \/ TicketWrites(i) \/ TicketMoves(i) \/ TicketMovesRead(i)
              \/ TicketDerives(i) \/ TicketStores(i) \/ TicketReadsJob(i)
              \/ TicketWritesJob(i)
Rounds(i)  == AcceptChecks(i) \/ AcceptWrites(i) \/ RoundChecks(i) \/ RoundInserts(i)
Sweeps(i)  == SweepReads(i) \/ SweepCloses(i) \/ SweepServes(i)
Voids(i)   == VoidChecks(i) \/ VoidCancels(i) \/ VoidStrikes(i) \/ VoidDrops(i)
Drives(i)  == \/ AdvanceChecks(i) \/ AdvanceWrites(i) \/ AdvanceReadsPaid(i)
              \/ AdvanceWritesOrder(i) \/ SettleChecks(i) \/ SettleWrites(i)
              \/ SettleCloses(i) \/ Assigns(i)

Next == \/ \E i \in Slots : \/ Arrivals(i) \/ Lines(i) \/ Pings(i) \/ Tickets(i)
                            \/ Rounds(i) \/ Sweeps(i) \/ Voids(i) \/ Drives(i) \/ Dies(i)
        \/ \E o \in Orders : Pays(o) \/ PingResolved(o)

Spec == Init /\ [][Next]_vars

-----------------------------------------------------------------------------
(* Properties.                                                             *)

Quiet(o) == \A i \in Slots : req[i].order # o /\ o \notin req[i].stale
Sound(o) == Quiet(o) /\ o \notin torn

\* "An order only counts as ready when nothing is still being made, and only as
\* served when every line has landed" (timing.js:47-50), whichever of the five
\* handlers wrote its status; a delivery is closed by its driver instead.
ReadyIsMade == \A o \in Orders \ Delivery : Sound(o) =>
  /\ orders[o].status = "ready" => StatesOf(o) \subseteq {"ready", "served"}
  /\ orders[o].status \in {"served", "fulfilled", "completed"} =>
       StatesOf(o) \subseteq {"served"}

\* A voided order stays off the kitchen's and the floor's lists, unless a line of
\* it is tapped again or its driver settles (orders.js:1535, 2066-2075).
VoidedStaysGone == \A o \in Orders \ tapped :
  Sound(o) /\ orders[o].voided /\ ~jobs[o].settled => orders[o].status = "cancelled"

\* An order that is ready for pickup has one ping, not none and not two: "neither
\* can raise it twice" (orders.js:141-143).
ReadyIsAnnounced == \A o \in Orders \ Delivery :
  Sound(o) => pings[o] <= 1 /\ (orders[o].status = "ready" => pings[o] = 1)

\* A driver never carries an order that was voided, and a cancelled job leaves no
\* order to be billed, whichever side was cancelled first.
CancelledTogether == \A o \in Delivery :
  Sound(o) => (orders[o].voided <=> jobs[o].status = "cancelled")

===============================================================================
