-------------------------------- MODULE Shifts --------------------------------
(***************************************************************************)
(* The working day of the staff (handlers/hr.js): clocking in and out with *)
(* the gate on open checks, breaks, attendance, leave, overtime and        *)
(* adjustments with their approval, the payroll run and the settings it    *)
(* reads.                                                                  *)
(*                                                                         *)
(* Every handler reads rows, answers if they forbid what was asked, and    *)
(* then writes by id what it decided: another request may come between.    *)
(* Checks are opened, paid, refunded and voided by Till and Bills; here    *)
(* they change as they like.                                               *)
(***************************************************************************)
EXTENDS Desk, Payroll, Sums, TLC

CONSTANTS
  Staff,        \* who works here
  Managers,     \* those of them who are managers
  Base,         \* the monthly salary, in cents
  Checks,       \* the checks that may be opened
  Rates,        \* what loadSettings may come to
  FirstRates,   \* the settings stored at first
  DefaultRates, \* those of a table that cannot be read
  FirstEntries, \* what timeclock may hold at first: a set of sequences
  FirstClaims,  \* and the claims
  Leaves,       \* the spans of days leave is asked for: a set of [from, to]
  MaxTime       \* bound: minutes

ASSUME StaffAssumption  == Managers \subseteq Staff /\ Base \in Nat
ASSUME RatesAssumption  ==
  /\ {FirstRates, DefaultRates} \subseteq Rates
  /\ \A s \in Rates :
       {s.grace, s.standardDay, s.monthlyHours, s.multipliers["normal"]} \subseteq Int
ASSUME LeavesAssumption == Leaves \subseteq [from : Nat, to : Nat]
ASSUME TimeAssumption   == MaxTime \in Nat

Kinds    == {"overtime", "adjustment", "leave"}
Statuses == {"pending", "approved", "rejected"}

\* Whoever is on shift at first has just come, nobody is there twice, and nobody has
\* leave for a day twice.
OnShift  == [staff : Staff, at : {0}, out : {None}, hours : {0}, status : {""}, overtime : {0}]
ClaimRow == {c \in [kind : Kinds, staff : Staff, amount : Int, taxable : BOOLEAN, from : Nat,
                    to : Nat, status : Statuses, by : Staff \cup {""}] :
               c.status = "approved" => c.by \in Staff \ {c.staff}}

\* Leave that is asked for or granted, of one person.
LeaveOf(row, p) == row.kind = "leave" /\ row.staff = p /\ row.status # "rejected"

Apart(a, b) == a.to < b.from \/ b.to < a.from

ASSUME FirstRowsAssumption ==
  /\ FirstEntries \subseteq Seq(OnShift) /\ FirstClaims \subseteq Seq(ClaimRow)
  /\ \A rows \in FirstEntries : \A m, n \in DOMAIN rows : rows[m].staff = rows[n].staff => m = n
  /\ \A rows \in FirstClaims, p \in Staff : \A m, n \in DOMAIN rows :
       LeaveOf(rows[m], p) /\ LeaveOf(rows[n], p) /\ m # n => Apart(rows[m], rows[n])

\* payment_status, or no check, or a voided one; "paid" is "overpaid" too, and a check
\* is "verifying" while a payment holds the claim on it, or for good if one died of it.
CheckStates == {"none", "unpaid", "partial", "verifying", "paid", "voided"}

VARIABLES
  clock,     \* minutes since the shop opened the books
  entries,   \* timeclock: a sequence of rows
  breaks,    \* break_records: a sequence of [entry, open]
  checks,    \* checks[c]: whose check it is and what is owed on it
  claims,    \* overtime, staff_adjustments and leave_requests: a sequence of rows
  settings,  \* the rates, the flag that they are unverified, whether its row is there;
             \* and history: the rates that a manager confirmed, and whether the flag
             \* is behind a change of them
  runs       \* payroll_runs with their lines: a sequence

shiftRows == <<clock, entries, breaks, checks, claims, settings, runs>>

-----------------------------------------------------------------------------
(* Rows.                                                                   *)

Date(at) == at \div Day
Time(at) == at % Day

\* What a request is about: a member of staff, or a claim.
Clerk(p) == <<"staff", p>>
Claim(n) == <<"claim", n>>

\* openEntryFor: of the open rows of p, a newest by date and time.
IsOpen(n, p) == entries[n].staff = p /\ entries[n].out = None

OpenEntries(p) ==
  LET open == {n \in DOMAIN entries : IsOpen(n, p)}
  IN {n \in open : \A m \in open : entries[m].at <= entries[n].at}

\* What p is asked for at the end of the day.
Owed(p) == {c \in Checks : checks[c].by = p /\ checks[c].state \notin {"none", "paid", "voided"}}

\* Mutant: the gate lets a check go that something was paid on.
OpenChecksUnpaid(p) == {c \in Checks : checks[c].by = p /\ checks[c].state = "unpaid"}

\* openChecksForStaff.
OpenChecks(p) == {c \in Checks : checks[c].by = p /\ checks[c].state \in {"unpaid", "partial"}}

Asks(i, r) == Begins(i, r) /\ UNCHANGED shiftRows

\* subjectStaffId: a manager may act for another.
Acts(by, p) == by = p \/ by \in Managers

\* Migration 007 inserts the flag's row; without it nobody has confirmed anything.
NewSettings(row, unverified) ==
  [rates |-> FirstRates, row |-> row, unverified |-> unverified, behind |-> ~row,
   confirmed |-> FirstRates]

ShiftsInit ==
  /\ clock = 0 /\ breaks = <<>> /\ runs = <<>>
  /\ entries \in FirstEntries /\ claims \in FirstClaims
  /\ checks = [c \in Checks |-> [by |-> "", state |-> "none"]]
  /\ settings \in {NewSettings(TRUE, TRUE), NewSettings(TRUE, FALSE), NewSettings(FALSE, FALSE)}

Ticks ==
  /\ clock < MaxTime /\ counts.desk = "clock"
  /\ clock' = clock + 1
  /\ UNCHANGED <<entries, breaks, checks, claims, settings, runs, req, counts, torn>>

-----------------------------------------------------------------------------
(* Checks.                                                                 *)

\* A check is opened by whoever is at the till; a payment claims it and then refuses
\* the amount, or any change of its payments tells again what they come to; it is voided.
Comes(was, is) ==
  \/ was = "none" /\ is = "unpaid"
  \/ was \in {"unpaid", "partial"} /\ is = "verifying"
  \/ was \notin {"none", "voided"} /\ is \in {"unpaid", "partial", "paid", "voided"}

CheckChanges(c, p, state) ==
  /\ counts.desk = "clock" /\ Changes
  /\ Comes(checks[c].state, state) /\ checks[c].state # state
  /\ checks' = [checks EXCEPT ![c] =
       [by |-> IF checks[c].state = "none" THEN p ELSE checks[c].by, state |-> state]]
  /\ req' = [i \in Slots |->
       IF At(i, "out") /\ state \in {"unpaid", "partial"} /\ c \notin Owed(req[i].key[2])
       THEN [req[i] EXCEPT !.since = @ \cup {c}] ELSE req[i]]
  /\ UNCHANGED <<clock, entries, breaks, claims, settings, runs>>

-----------------------------------------------------------------------------
(* The clock.                                                              *)

ClockInArrives(i, by, p) ==
  /\ Acts(by, p) /\ OpenEntries(p) = {}
  /\ Asks(i, [FreeSlot EXCEPT !.op = "in", !.pc = "in", !.key = Clerk(p)])

ClockIns(i) ==
  /\ At(i, "in")
  /\ entries' = Append(entries, [staff |-> req[i].key[2], at |-> clock, out |-> None,
                                 hours |-> 0, status |-> "", overtime |-> 0])
  /\ Answers(i)
  /\ UNCHANGED <<clock, breaks, checks, claims, settings, runs, counts, torn>>

ClockOutArrives(i, by, p, force) ==
  /\ Acts(by, p) /\ force => by \in Managers
  /\ \E n \in OpenEntries(p) :
       Asks(i, [FreeSlot EXCEPT !.op = "out", !.pc = "gate", !.key = Clerk(p), !.row = n,
                                  !.force = force])

\* The shift gate: with checks still open the clock-out is refused, unless forced.  A
\* check that a payment holds is not among them (history: since).
ReadsGate(i) ==
  /\ At(i, "gate")
  /\ IF OpenChecks(req[i].key[2]) # {} /\ ~req[i].force THEN Answers(i)
     ELSE Goes(i, [Step(i, "out") EXCEPT !.since = {c \in Checks : checks[c].state = "verifying"}])
  /\ UNCHANGED <<clock, entries, breaks, checks, claims, settings, runs, counts, torn>>

ClockOuts(i) ==
  LET n == req[i].row
  IN /\ At(i, "out")
     /\ entries' = [entries EXCEPT ![n].out = Time(clock),
          ![n].hours = Hours(MinutesWorked(Time(entries[n].at), Time(clock)))]
     /\ Answers(i)
     /\ UNCHANGED <<clock, breaks, checks, claims, settings, runs, counts, torn>>

BreakStartArrives(i, p) == \E n \in OpenEntries(p) :
  Asks(i, [FreeSlot EXCEPT !.op = "break", !.pc = "breaks", !.key = Clerk(p), !.row = n])

ReadsBreaks(i) ==
  /\ At(i, "breaks")
  /\ IF \E b \in DOMAIN breaks : breaks[b] = [entry |-> req[i].row, open |-> TRUE]
     THEN Answers(i) ELSE Goes(i, Step(i, "rest"))
  /\ UNCHANGED <<clock, entries, breaks, checks, claims, settings, runs, counts, torn>>

BreakStarts(i) ==
  /\ At(i, "rest")
  /\ breaks' = Append(breaks, [entry |-> req[i].row, open |-> TRUE])
  /\ Answers(i)
  /\ UNCHANGED <<clock, entries, checks, claims, settings, runs, counts, torn>>

BreakEndArrives(i, p) == \E n \in OpenEntries(p), b \in DOMAIN breaks :
  /\ breaks[b] = [entry |-> n, open |-> TRUE]
  /\ \A a \in DOMAIN breaks : a > b => breaks[a] # breaks[b]
  /\ Asks(i, [FreeSlot EXCEPT !.op = "back", !.pc = "back", !.key = Clerk(p), !.row = b])

BreakEnds(i) ==
  /\ At(i, "back")
  /\ breaks' = [breaks EXCEPT ![req[i].row].open = FALSE]
  /\ Answers(i)
  /\ UNCHANGED <<clock, entries, checks, claims, settings, runs, counts, torn>>

\* loadSettings: a read that fails gives the defaults.
RatesRead == {settings.rates, DefaultRates}

\* POST /api/attendance/:id/classify: the row is judged as it was read.
ClassifyArrives(i, n, start, rates) ==
  LET e == entries[n]
  IN Asks(i, [FreeSlot EXCEPT !.op = "classify", !.pc = "classify", !.row = n,
       !.new = ClassifyAttendance([onLeave |-> FALSE, in |-> Time(e.at), out |-> e.out,
                 hours |-> e.hours, start |-> start, end |-> None], rates)])

Classifies(i) ==
  LET n == req[i].row
  IN /\ At(i, "classify")
     /\ entries' = [entries EXCEPT ![n].status = req[i].new.status,
                                   ![n].overtime = req[i].new.overtime]
     /\ Answers(i)
     /\ UNCHANGED <<clock, breaks, checks, claims, settings, runs, counts, torn>>

-----------------------------------------------------------------------------
(* Claims: createOvertime, createAdjustment, createLeave, decide.          *)

NewClaim(kind, p, amount, taxable, from, to) ==
  [kind |-> kind, staff |-> p, amount |-> amount, taxable |-> taxable,
   from |-> from, to |-> to, status |-> "pending", by |-> ""]

\* An hour of overtime is valued at once; the sign of an adjustment is its type's.
OvertimeOf(p) == {NewClaim("overtime", p, OvertimeAmount(100, Base, "normal", rates), TRUE,
                           Date(clock), Date(clock)) : rates \in RatesRead}

AdjustmentsOf(p) == {NewClaim("adjustment", p, amount, taxable, Date(clock), Date(clock)) :
                       amount \in {-100, 100}, taxable \in BOOLEAN}

\* Mutant: only approved leave is in the way.
ClashesApproved(p, l) == {n \in DOMAIN claims :
  /\ claims[n].kind = "leave" /\ claims[n].staff = p /\ claims[n].status = "approved"
  /\ claims[n].from <= l.to /\ l.from <= claims[n].to}

Clashes(p, l) == {n \in DOMAIN claims :
  /\ claims[n].kind = "leave" /\ claims[n].staff = p
  /\ claims[n].status \in {"pending", "approved"}
  /\ claims[n].from <= l.to /\ l.from <= claims[n].to}

ClaimArrives(i, p, c) ==
  /\ c.kind = "leave" => Clashes(p, c) = {}
  /\ Asks(i, [FreeSlot EXCEPT !.op = "claim", !.pc = "claim", !.key = Clerk(p), !.new = c])

Claims(i) ==
  /\ At(i, "claim")
  /\ claims' = Append(claims, req[i].new)
  /\ Answers(i)
  /\ UNCHANGED <<clock, entries, breaks, checks, settings, runs, counts, torn>>

\* Mutant: nobody asks whose claim it is.
DecidableOwn(by, n) == claims[n].status = "pending"

\* selfApproval, and no claim twice.
Decidable(by, n) == claims[n].staff # by /\ claims[n].status = "pending"

DecideArrives(i, by, n, status) ==
  /\ Decidable(by, n)
  /\ Asks(i, [FreeSlot EXCEPT !.op = "decide", !.pc = "decide", !.key = Claim(n), !.row = n,
                                !.new = [status |-> status, by |-> by]])

Decides(i) ==
  /\ At(i, "decide")
  /\ claims' = [claims EXCEPT ![req[i].row].status = req[i].new.status,
                              ![req[i].row].by = req[i].new.by]
  /\ Answers(i)
  /\ UNCHANGED <<clock, entries, breaks, checks, settings, runs, counts, torn>>

-----------------------------------------------------------------------------
(* Settings: putSetting.                                                   *)

\* A rate is stored, and in a second statement the flag that it is unverified.
RateArrives(i, rates) ==
  /\ BandsAreSound(rates.bands)
  /\ Asks(i, [FreeSlot EXCEPT !.op = "rate", !.pc = "rate", !.new = rates])

RateWrites(i) ==
  /\ At(i, "rate")
  /\ settings' = [settings EXCEPT !.rates = req[i].new, !.behind = TRUE]
  /\ Goes(i, Step(i, "flag"))
  /\ UNCHANGED <<clock, entries, breaks, checks, claims, runs, counts, torn>>

\* Whichever of RATE_KEYS it is; an UPDATE, of a row that may not be there.
RateFlags(i) ==
  /\ At(i, "flag")
  /\ settings' = IF settings.row THEN [settings EXCEPT !.unverified = TRUE, !.behind = FALSE]
                  ELSE settings
  /\ Answers(i)
  /\ UNCHANGED <<clock, entries, breaks, checks, claims, runs, counts, torn>>

\* The manager puts the flag down: an UPDATE, or an INSERT if there is no row.
ConfirmArrives(i) == Asks(i, [FreeSlot EXCEPT !.op = "confirm", !.pc = "confirm"])

Confirms(i) ==
  /\ At(i, "confirm")
  /\ settings' = [settings EXCEPT !.row = TRUE, !.unverified = FALSE, !.behind = FALSE,
                                  !.confirmed = settings.rates]
  /\ Answers(i)
  /\ UNCHANGED <<clock, entries, breaks, checks, claims, runs, counts, torn>>

-----------------------------------------------------------------------------
(* runPayroll, of a period that takes in every day so far.                 *)

\* Defaults are not marked unverified.
Unread == [rates |-> DefaultRates, row |-> FALSE, unverified |-> FALSE, behind |-> TRUE,
           confirmed |-> DefaultRates]

PayrollArrives(i, loaded) == Asks(i, [FreeSlot EXCEPT !.op = "payroll", !.pc = "rows",
  !.new = loaded, !.todo = {"overtime", "adjustment"}])

\* "A pending claim is a request, not a liability."
Payable(kind) == {n \in DOMAIN claims : claims[n].kind = kind /\ claims[n].status = "approved"}

\* The tables are read side by side.
ReadsRows(i, kind) ==
  LET left == req[i].todo \ {kind}
  IN /\ At(i, "rows") /\ kind \in req[i].todo
     /\ Goes(i, [req[i] EXCEPT !.todo = left, !.pc = IF left = {} THEN "run" ELSE "rows",
                   !.found = @ \cup {[n |-> n, row |-> claims[n]] : n \in Payable(kind)}])
     /\ UNCHANGED <<clock, entries, breaks, checks, claims, settings, runs, counts, torn>>

LineOf(p, found, s) ==
  LET rows(kind) == {[n |-> f.n, amount |-> f.row.amount, taxable |-> f.row.taxable] :
                       f \in {g \in found : g.row.staff = p /\ g.row.kind = kind}}
  IN PayrollLine(Base, rows("overtime"), rows("adjustment"), s)

\* The run is stored with its totals, and then a line for each person.
InsertsRun(i) ==
  /\ At(i, "run")
  /\ runs' = Append(runs, [provisional |-> req[i].new.unverified, at |-> req[i].new,
                           claims |-> {f.n : f \in req[i].found},
                           net |-> MapThenSumSet(LAMBDA p :
                             LineOf(p, req[i].found, req[i].new.rates).net, Staff),
                           lines |-> <<>>])
  /\ Goes(i, [Step(i, "lines") EXCEPT !.row = Len(runs) + 1])
  /\ UNCHANGED <<clock, entries, breaks, checks, claims, settings, counts, torn>>

InsertsLine(i) ==
  LET k    == req[i].row
      left == Staff \ DOMAIN runs[k].lines
      p    == CHOOSE p \in left : TRUE
  IN /\ At(i, "lines")
     /\ runs' = [runs EXCEPT ![k].lines = (p :> LineOf(p, req[i].found, req[i].new.rates)) @@ @]
     /\ IF left = {p} THEN Answers(i) ELSE Goes(i, req[i])
     /\ UNCHANGED <<clock, entries, breaks, checks, claims, settings, counts, torn>>

-----------------------------------------------------------------------------
ClockArrives(i) == \E p \in Staff :
  \/ \E by \in Staff : \/ ClockInArrives(i, by, p)
                       \/ \E force \in BOOLEAN : ClockOutArrives(i, by, p, force)
  \/ BreakStartArrives(i, p) \/ BreakEndArrives(i, p)
  \/ \E n \in DOMAIN entries, start \in {None, 0}, rates \in RatesRead :
       ClassifyArrives(i, n, start, rates)

ClaimsArrive(i) ==
  \/ \E p \in Staff : \E c \in OvertimeOf(p) \cup AdjustmentsOf(p)
                            \cup {NewClaim("leave", p, 0, FALSE, l.from, l.to) : l \in Leaves} :
       ClaimArrives(i, p, c)
  \/ \E by \in Managers, n \in DOMAIN claims, status \in {"approved", "rejected"} :
       DecideArrives(i, by, n, status)

ShiftsArrive(i) ==
  \/ counts.desk = "clock" /\ ClockArrives(i)
  \/ /\ counts.desk = "pay"
     /\ \/ ClaimsArrive(i) \/ ConfirmArrives(i)
        \/ \E loaded \in {settings, Unread} : PayrollArrives(i, loaded)
        \/ \E rates \in Rates : RateArrives(i, rates)

ShiftsStep(i) ==
  \/ ClockIns(i) \/ ReadsGate(i) \/ ClockOuts(i)
  \/ ReadsBreaks(i) \/ BreakStarts(i) \/ BreakEnds(i) \/ Classifies(i)
  \/ Claims(i) \/ Decides(i) \/ RateWrites(i) \/ RateFlags(i) \/ Confirms(i)
  \/ \E kind \in Kinds : ReadsRows(i, kind)
  \/ InsertsRun(i) \/ InsertsLine(i)

ShiftsNext == counts.desk \in {"clock", "pay"} /\
  \/ Ticks
  \/ \E i \in Slots : ShiftsArrive(i) \/ ShiftsStep(i)
  \/ \E c \in Checks, p \in Staff, state \in CheckStates : CheckChanges(c, p, state)

-----------------------------------------------------------------------------
(* Properties.                                                             *)

\* Two taps on clock-in do not "double-count the hours" (hr.js:937): nobody is
\* credited more than has gone by, up to the rounding of each shift ...
HoursOnce(p) ==
  LET mine == {n \in DOMAIN entries : entries[n].staff = p}
  IN 120 * SumOver([n \in mine |-> entries[n].hours], mine) <= 200 * clock + 60 * Cardinality(mine)

\* ... nor on leave twice on one day (hr.js:321-332) ...
LeaveOnce(p) ==
  LET leave == {n \in DOMAIN claims : LeaveOf(claims[n], p) /\ Claim(n) \notin torn}
  IN \A m, n \in leave : m # n => Apart(claims[m], claims[n])

\* ... nor on two breaks (hr.js:1801-1809); unless two of his requests met, or two
\* decisions on the leave.
NothingTwice == \A p \in Staff : Clerk(p) \notin torn =>
  /\ HoursOnce(p) /\ LeaveOnce(p)
  /\ \A a, b \in DOMAIN breaks :
       breaks[a] = breaks[b] /\ breaks[a].open /\ entries[breaks[a].entry].staff = p => a = b

\* Nobody is clocked out with checks of his still open, "how a bill is never collected"
\* (hr.js:959-972); but by a manager's force, and but for the checks that came to be
\* owed behind the gate, or that a payment was holding when it looked: listOpenChecks
\* (orders.js:613) does not see those, whatever becomes of the payment.
NobodyLeavesOwing == [][\A i \in Slots :
  At(i, "out") /\ ~req[i].force /\ req'[i] = FreeSlot /\ entries' # entries
    => Owed(req[i].key[2]) \subseteq req[i].since]_shiftRows

\* What a payroll run pays was approved, by somebody else than its owner, and stays so:
\* "a pending claim is a request, not a liability" (hr.js:433-435, 259-268); unless two
\* decided on it at once.
PaidWasApproved(k) == \A n \in runs[k].claims :
  \/ claims[n].status = "approved" /\ claims[n].by \in Staff \ {claims[n].staff}
  \/ Claim(n) \in torn

\* A run that does not say it is provisional is at the rates a manager confirmed
\* (hr.js:549-550, 767-771); but for one whose settings could not be read (hr.js:50-54),
\* and one that read a flag behind its rates: one with no row, which stays down, or
\* one that a change cut short or still under way has not put up.
AtConfirmed(s) == s.behind \/ s.rates = s.confirmed

\* A payroll run, read again when it is paid out, still stands: what it pays has been
\* approved, and it says so if its rates are nobody's.
PayrollStands == \A k \in DOMAIN runs :
  PaidWasApproved(k) /\ (runs[k].provisional \/ AtConfirmed(runs[k].at))

===============================================================================
