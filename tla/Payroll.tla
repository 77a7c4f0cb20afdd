-------------------------------- MODULE Payroll --------------------------------
(***************************************************************************)
(* The arithmetic of attendance and pay (lib/payroll.js, and the clock's   *)
(* in handlers/hr.js): operators without a state, over minutes, hundredths *)
(* of an hour, cents and per cents.  Settings are a record of what the     *)
(* manager has stored, read by settingsFromRows.                           *)
(***************************************************************************)
EXTENDS Integers, Sequences, FiniteSets

LOCAL INSTANCE FiniteSetsExt

CONSTANT Day     \* the minutes of a day

ASSUME DayAssumption == Day \in Nat \ {0}

None == -1       \* a time or a ceiling that is not there

\* round2, and Math.round of a quotient: halves go up.
Round2(n, d) == (2 * n + d) \div (2 * d)

AtLeast0(n) == IF n < 0 THEN 0 ELSE n

-----------------------------------------------------------------------------
(* Attendance.                                                             *)

MinutesBetween(a, b) == IF a = None \/ b = None THEN None ELSE b - a

\* A wrap is a shift past midnight.
MinutesWorked(from, to) == IF to < from THEN to + Day - from ELSE to - from

\* Hundredths of an hour.
Hours(minutes) == Round2(minutes * 100, 60)

\* Hours come from the row, or from its two times.
HoursWorked(e) ==
  CASE e.hours # 0 -> e.hours
    [] e.hours = 0 /\ e.out = None -> 0
    [] OTHER -> Hours(MinutesWorked(e.in, e.out))

\* Minutes beyond the grace; none if either time is not there.
Beyond(from, to, grace) ==
  IF from = None \/ to = None \/ MinutesBetween(from, to) <= grace
  THEN 0 ELSE MinutesBetween(from, to)

Classified(status, late, early, hours, overtime) ==
  [status |-> status, late |-> late, early |-> early, hours |-> hours, overtime |-> overtime]

ClassifyAttendance(e, s) ==
  LET late  == Beyond(e.start, e.in, s.grace)
      early == Beyond(e.out, e.end, s.grace)
      hours == HoursWorked(e)
      status == IF late > 0 THEN "late" ELSE IF early > 0 THEN "early-departure" ELSE "present"
  IN IF e.onLeave THEN Classified("on-leave", 0, 0, 0, 0)
     ELSE IF e.in = None THEN Classified("absent", 0, 0, 0, 0)
     ELSE Classified(status, late, early, hours, AtLeast0(hours - s.standardDay))

-----------------------------------------------------------------------------
(* Pay.                                                                    *)

\* One claim, valued at the settings of the day it is made; the multiplier is in tenths.
OvertimeAmount(hours, base, kind, s) ==
  IF s.monthlyHours <= 0 THEN 0
  ELSE Round2(hours * base * s.multipliers[IF kind \in DOMAIN s.multipliers
                                           THEN kind ELSE "normal"],
              1000 * s.monthlyHours)

\* The first band that reaches the pay; the last one if none does.
BandOf(pay, bands) ==
  LET reach == {k \in DOMAIN bands : bands[k].upTo = None \/ pay <= bands[k].upTo}
  IN bands[IF reach = {} THEN Len(bands) ELSE Min(reach)]

IncomeTax(pay, bands) ==
  IF pay <= 0 \/ bands = <<>> THEN 0
  ELSE LET b == BandOf(pay, bands) IN AtLeast0(Round2(pay * b.rate, 100) - b.deduct)

\* incomeBandError: what putSetting lets in.
BandsAreSound(bands) ==
  /\ Len(bands) \in 1 .. 12
  /\ \A k \in DOMAIN bands :
       /\ bands[k].rate \in 0 .. 99 /\ bands[k].deduct >= 0
       /\ IF bands[k].upTo = None THEN k = Len(bands)
          ELSE bands[k].upTo > (IF k = 1 THEN 0 ELSE bands[k - 1].upTo)

\* A payslip: pension on the base alone, tax on what is left of the gross, tips in
\* neither.  Overtime and adjustments are sets of claims with their amounts, a
\* deduction's below zero.
PayrollLine(base, overtime, adjustments, s) ==
  LET amount(S)  == MapThenSumSet(LAMBDA c : c.amount, S)
      bonuses    == {a \in adjustments : a.amount >= 0}
      taxed      == amount({a \in bonuses : a.taxable})
      gross      == base + amount(overtime) + taxed
      pension    == Round2(base * s.employee, 100)
      tax        == IncomeTax(AtLeast0(gross - pension), s.bands)
  IN [gross |-> gross, pension |-> pension, tax |-> tax,
      employer |-> Round2(base * s.employer, 100),
      net |-> gross + amount(bonuses) - taxed - tax - pension
                + amount(adjustments \ bonuses)]

===============================================================================
