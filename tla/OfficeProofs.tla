------------------------------ MODULE OfficeProofs ------------------------------
(***************************************************************************)
(* What Office promises of the clock, the payroll, the recipes, the zones  *)
(* and the menu, proved.                                                   *)
(*                                                                         *)
(* The promises of Shifts speak of rows alone.  What keeps them is what a  *)
(* request has read and still holds when it writes: nobody on shift, no    *)
(* break open, no leave in the way, a claim nobody has decided on.  It     *)
(* holds because another request about the same would have told `torn`.    *)
(* OfficeInv therefore has four parts: Shape (the rows, and which row each *)
(* request is at), Days (what a person has been credited, granted and      *)
(* started), Stands (what the runs pay) and Knows (what each request has   *)
(* read).  The other desks' rows are not in it: they leave these alone.    *)
(* RecipesInv, ZonesInv and MenuInv, at the end, do for the recipes, the   *)
(* floor plan and the menu what OfficeInv does here.                       *)
(***************************************************************************)
EXTENDS Office, SumProofs, SequenceTheorems

-----------------------------------------------------------------------------
(* What the rows of the clock and of the payroll are, whichever desk is open,  *)
(* and what its requests are while one of these is.                             *)

Marks == {"", "late", "early-departure", "present", "on-leave", "absent"}
Ops   == {"none", "in", "out", "break", "back", "classify", "claim", "decide", "rate", "confirm",
          "payroll"}

Entry   == [staff : Staff, at : Nat, out : Int, hours : Nat, status : Marks, overtime : Int]
Break   == [entry : Nat, open : BOOLEAN]
Check   == [by : Staff \cup {""}, state : CheckStates]
Setting == [rates : Rates, row : BOOLEAN, unverified : BOOLEAN, behind : BOOLEAN,
            confirmed : Rates]
Verdict == [status : Statuses, by : Staff]
Result  == [status : Marks, late : Int, early : Int, hours : Int, overtime : Int]
Found   == [n : Nat, row : ClaimRow]

Clerks    == {Clerk(p) : p \in Staff}
ShiftKeys == {House} \cup Clerks \cup {Claim(n) : n \in Nat}

ShiftPcs == {"free", "in", "gate", "out", "breaks", "rest", "back", "classify",
             "claim", "decide", "rate", "flag", "confirm", "rows", "run", "lines"}

News == {<<>>} \cup Result \cup ClaimRow \cup Verdict \cup Rates \cup Setting

Request == [op : Ops, pc : ShiftPcs, key : ShiftKeys, row : Nat, force : BOOLEAN,
            new : News, todo : SUBSET Kinds, found : SUBSET Found, since : SUBSET Checks]

\* Settings that say they are unverified, or are what was confirmed.
Sure(s) == s.unverified \/ AtConfirmed(s)

Paying == {"rows", "run", "lines"}

IsSeq(s) == \E S : s \in Seq(S)

\* A request's row and what it will write fit its step.
Fits(r, es, bs, cs) ==
  /\ r.pc \in {"in", "gate", "out", "breaks", "rest"} => r.key \in Clerks
  /\ r.pc \in {"gate", "out", "breaks", "rest"} =>
       r.row \in DOMAIN es /\ es[r.row].staff = r.key[2]
  /\ r.pc = "back" => r.row \in DOMAIN bs
  /\ r.pc = "classify" => r.row \in DOMAIN es /\ r.new \in Result
  /\ r.pc = "claim" => r.new \in ClaimRow /\ r.key = Clerk(r.new.staff)
  /\ r.pc = "decide" => /\ r.row \in DOMAIN cs /\ r.key = Claim(r.row)
                         /\ r.new \in Verdict /\ r.new.by # cs[r.row].staff
  /\ r.pc = "rate" => r.new \in Rates
  /\ r.pc \in Paying => r.new \in Setting /\ \A f \in r.found : f.n \in DOMAIN cs

RunFields == {"provisional", "at", "claims", "net", "lines"}

Rows ==
  /\ clock \in Nat
  /\ entries \in Seq(Entry)
  /\ \A n \in DOMAIN entries : /\ entries[n].at <= clock
                               /\ entries[n].out = None => entries[n].hours = 0
  /\ breaks \in Seq(Break)
  /\ \A b \in DOMAIN breaks : breaks[b].entry \in DOMAIN entries
  /\ checks \in [Checks -> Check]
  /\ claims \in Seq(ClaimRow)
  /\ settings \in Setting
  /\ IsSeq(runs)
  /\ \A k \in DOMAIN runs : DOMAIN runs[k] = RunFields /\ runs[k].claims \subseteq DOMAIN claims

AtShifts == counts.desk \in {"clock", "pay"}

Asked ==
  /\ req \in [Slots -> Request]
  /\ \A i \in Slots : Fits(req[i], entries, breaks, claims)
  /\ \A i, j \in Slots : i # j /\ ~At(i, "free") /\ ~At(j, "free") /\ req[i].key = req[j].key
                           => req[i].key \in torn

Shape == Rows /\ "desk" \in DOMAIN counts /\ (AtShifts => Asked)

-----------------------------------------------------------------------------
(* Numbers.                                                                *)

\* Rounding gives a whole number, half a unit off at most.
LEMMA RoundIs ==
  ASSUME NEW n \in Int, NEW d \in Nat \ {0}
  PROVE  /\ Round2(n, d) \in Int
         /\ 2 * d * Round2(n, d) <= 2 * n + d
         /\ n >= 0 => Round2(n, d) >= 0
<1> DEFINE a == 2 * n + d
           b == 2 * d
<1>1. a \in Int /\ b \in Nat \ {0}
  OBVIOUS
<1>2. a \div b \in Int /\ b * (a \div b) <= a /\ (a >= 0 => a \div b >= 0)
  <2> HIDE DEF a, b
  <2> QED
    BY <1>1
<1> QED
  BY <1>2 DEF Round2

\* Dates and times of a clock.
LEMMA DayParts ==
  ASSUME NEW at \in Nat
  PROVE  /\ Date(at) \in Nat /\ Time(at) \in 0 .. Day - 1
         /\ at = Day * Date(at) + Time(at)
<1>1. Day \in Nat \ {0}
  BY DayAssumption
<1> QED
  BY <1>1 DEF Date, Time

\* A shift counts no more minutes than went by, and less than a day of them.
LEMMA MinutesAreWorked ==
  ASSUME NEW a \in Nat, NEW b \in Nat, a <= b
  PROVE  MinutesWorked(Time(a), Time(b)) \in 0 .. b - a
<1> DEFINE qa == Date(a)
           qb == Date(b)
           ta == Time(a)
           tb == Time(b)
<1>1. Day \in Nat \ {0}
  BY DayAssumption
<1>2. /\ qa \in Nat /\ ta \in 0 .. Day - 1 /\ a = Day * qa + ta
      /\ qb \in Nat /\ tb \in 0 .. Day - 1 /\ b = Day * qb + tb
  BY DayParts
<1> HIDE DEF qa, qb, ta, tb
<1>3. PICK q \in Int : q = qb - qa
  BY <1>2
<1>4. b - a = Day * q + tb - ta
  <2>1. Day * q = Day * qb - Day * qa
    BY <1>1, <1>2, <1>3
  <2> QED
    BY <2>1, <1>1, <1>2
<1>5. q >= 0
  <2>1. SUFFICES ASSUME q <= -1 PROVE FALSE
    BY <1>3
  <2>2. Day * q <= -Day
    BY <2>1, <1>1
  <2> QED
    BY <2>2, <1>1, <1>2, <1>4
<1>6. CASE tb < ta
  <2>1. q >= 1
    BY <1>2, <1>4, <1>5, <1>6, <1>1
  <2>2. Day * q >= Day
    BY <2>1, <1>1
  <2> QED
    BY <2>2, <1>1, <1>2, <1>4, <1>6 DEF MinutesWorked, ta, tb
<1>7. CASE tb >= ta
  <2>1. Day * q >= 0
    BY <1>5, <1>1
  <2> QED
    BY <2>1, <1>1, <1>2, <1>4, <1>7 DEF MinutesWorked, ta, tb
<1> QED
  BY <1>2, <1>6, <1>7

\* Hundredths of an hour, and what they may add to the minutes.
LEMMA HoursAre ==
  ASSUME NEW m \in Nat
  PROVE  Hours(m) \in Nat /\ 120 * Hours(m) <= 200 * m + 60
<1>1. m * 100 \in Nat /\ 60 \in Nat \ {0}
  OBVIOUS
<1> QED
  BY <1>1, RoundIs DEF Hours

\* Whatever the minutes are, the hundredths are a whole number.
LEMMA HoursType == ASSUME NEW m \in Int PROVE Hours(m) \in Int
<1>1. m * 100 \in Int /\ 60 \in Nat \ {0}
  OBVIOUS
<1> QED
  BY <1>1, RoundIs DEF Hours

\* A classification is a record of a status and numbers.
LEMMA ClassifiedType ==
  ASSUME NEW in \in Nat, NEW out \in Int, NEW hours \in Int, NEW start \in {None, 0},
         NEW s \in Rates
  PROVE  ClassifyAttendance([onLeave |-> FALSE, in |-> in, out |-> out, hours |-> hours,
                             start |-> start, end |-> None], s) \in Result
<1> DEFINE e == [onLeave |-> FALSE, in |-> in, out |-> out, hours |-> hours,
                 start |-> start, end |-> None]
<1>1. s.grace \in Int /\ s.standardDay \in Int /\ None \in Int /\ Day \in Nat
  BY RatesAssumption, DayAssumption DEF None
<1>2. \A a, b \in Int : Beyond(a, b, s.grace) \in Int
  BY <1>1 DEF Beyond, MinutesBetween
<1>3. Beyond(start, in, s.grace) \in Int /\ Beyond(out, None, s.grace) \in Int
  <2>1. start \in Int /\ in \in Int
    BY DEF None
  <2> QED
    BY <1>1, <1>2, <2>1
<1>4. MinutesWorked(in, out) \in Int
  BY <1>1 DEF MinutesWorked
<1>5. HoursWorked(e) \in Int
  BY <1>4, HoursType DEF HoursWorked
<1>6. AtLeast0(HoursWorked(e) - s.standardDay) \in Int
  BY <1>1, <1>5 DEF AtLeast0
<1>7. e.onLeave = FALSE /\ e.in # None
  BY DEF None
<1>8. e.start = start /\ e.in = in /\ e.out = out /\ e.end = None
  OBVIOUS
<1> HIDE DEF e
<1> DEFINE st == IF Beyond(start, in, s.grace) > 0 THEN "late"
                 ELSE IF Beyond(out, None, s.grace) > 0 THEN "early-departure" ELSE "present"
<1>9. ClassifyAttendance(e, s) =
        Classified(st, Beyond(start, in, s.grace), Beyond(out, None, s.grace),
                   HoursWorked(e), AtLeast0(HoursWorked(e) - s.standardDay))
  BY <1>7, <1>8 DEF ClassifyAttendance
<1>10. st \in Marks
  BY DEF Marks
<1> HIDE DEF st
<1> QED
  BY <1>3, <1>5, <1>6, <1>9, <1>10 DEF Classified, Result, e

\* A sequence of whatever.
LEMMA AnySeq ==
  ASSUME NEW s, IsSeq(s)
  PROVE  /\ Len(s) \in Nat /\ DOMAIN s = 1 .. Len(s)
         /\ \A x : /\ IsSeq(Append(s, x)) /\ DOMAIN Append(s, x) = 1 .. Len(s) + 1
                   /\ Append(s, x)[Len(s) + 1] = x
                   /\ \A k \in DOMAIN s : Append(s, x)[k] = s[k]
         /\ \A k, x : /\ IsSeq([s EXCEPT ![k] = x])
                      /\ DOMAIN [s EXCEPT ![k] = x] = DOMAIN s
<1>1. PICK S : s \in Seq(S)
  BY DEF IsSeq
<1>2. Len(s) \in Nat /\ DOMAIN s = 1 .. Len(s)
  BY <1>1
<1>3. ASSUME NEW x
      PROVE  /\ IsSeq(Append(s, x)) /\ DOMAIN Append(s, x) = 1 .. Len(s) + 1
             /\ Append(s, x)[Len(s) + 1] = x
             /\ \A k \in DOMAIN s : Append(s, x)[k] = s[k]
  <2> DEFINE T == S \cup {x}
  <2>1. s \in Seq(T) /\ x \in T
    BY <1>1
  <2> HIDE DEF T
  <2>2. Append(s, x) \in Seq(T) /\ Len(Append(s, x)) = Len(s) + 1
    BY <2>1, AppendProperties
  <2> QED
    BY <2>1, <2>2, AppendProperties DEF IsSeq
<1>4. ASSUME NEW k, NEW x
      PROVE  /\ IsSeq([s EXCEPT ![k] = x])
             /\ DOMAIN [s EXCEPT ![k] = x] = DOMAIN s
  <2> DEFINE T == S \cup {x}
             t == [s EXCEPT ![k] = x]
  <2>1. s \in Seq(T) /\ x \in T
    BY <1>1
  <2>2. DOMAIN t = 1 .. Len(s)
    BY <1>2
  <2>3. \A n \in 1 .. Len(s) : t[n] \in T
    BY <1>2, <2>1
  <2>4. t = [n \in 1 .. Len(s) |-> t[n]]
    BY <2>2
  <2> HIDE DEF T, t
  <2>5. t \in Seq(T)
    BY <1>2, <2>3, <2>4, SeqDef
  <2> QED
    BY <2>2, <2>5, <1>2 DEF IsSeq, t
<1> QED
  BY <1>2, <1>3, <1>4

\* Rows only come; whose they are stays.
Grow(es, es2, bs, bs2, cs, cs2) ==
  /\ DOMAIN es \subseteq DOMAIN es2 /\ \A n \in DOMAIN es : es2[n].staff = es[n].staff
  /\ DOMAIN bs \subseteq DOMAIN bs2
  /\ DOMAIN cs \subseteq DOMAIN cs2 /\ \A n \in DOMAIN cs : cs2[n].staff = cs[n].staff

\* A request fits rows that have come.
LEMMA FitsGrow ==
  ASSUME NEW es, NEW es2, NEW bs, NEW bs2, NEW cs, NEW cs2, Grow(es, es2, bs, bs2, cs, cs2),
         NEW r, Fits(r, es, bs, cs)
  PROVE  Fits(r, es2, bs2, cs2)
<1>1. /\ r.pc \in {"gate", "out", "breaks", "rest"} => es2[r.row].staff = es[r.row].staff
      /\ r.pc = "decide" => cs2[r.row].staff = cs[r.row].staff
  BY DEF Grow, Fits
<1> QED
  BY <1>1 DEF Grow, Fits

\* A free slot is a request that fits any rows.
LEMMA FreeFits ==
  ASSUME NEW es, NEW bs, NEW cs
  PROVE  FreeSlot \in Request /\ Fits(FreeSlot, es, bs, cs) /\ FreeSlot.pc = "free"
<1>1. FreeSlot.pc = "free"
  BY DEF FreeSlot
<1>2. FreeSlot \in Request
  BY DEF FreeSlot, Request, Ops, ShiftPcs, ShiftKeys, News
<1> QED
  BY <1>1, <1>2 DEF Fits, Paying

\* A step of a request.
LEMMA StepIs ==
  ASSUME NEW r \in Request, NEW pc \in ShiftPcs
  PROVE  /\ [r EXCEPT !.pc = pc] \in Request /\ [r EXCEPT !.pc = pc].pc = pc
         /\ [r EXCEPT !.pc = pc].key = r.key /\ [r EXCEPT !.pc = pc].row = r.row
         /\ [r EXCEPT !.pc = pc].new = r.new /\ [r EXCEPT !.pc = pc].found = r.found
         /\ [r EXCEPT !.pc = pc].since = r.since /\ [r EXCEPT !.pc = pc].force = r.force
BY DEF Request

\* A request arrives.
LEMMA ComesIn ==
  ASSUME Shape, AtShifts, NEW i \in Slots, NEW r \in Request, Asks(i, r),
         Fits(r, entries, breaks, claims)
  PROVE  Shape'
<1>1. /\ req' = [req EXCEPT ![i] = r] /\ At(i, "free") /\ UNCHANGED shiftRows
      /\ counts' = [counts EXCEPT !.requests = @ + 1]
      /\ torn' = torn \cup {k \in {r.key} : \E j \in Slots \ {i} : ~At(j, "free") /\ req[j].key = k}
  BY DEF Asks, Begins, Goes
<1>2. "desk" \in DOMAIN counts'
  BY <1>1 DEF Shape
<1>3. Rows'
  BY <1>1 DEF Shape, Rows, shiftRows
<1>4. Asked'
  <2>1. req' \in [Slots -> Request]
    BY <1>1 DEF Shape, Asked
  <2>2. \A j \in Slots : req'[j] = IF j = i THEN r ELSE req[j]
    BY <1>1 DEF Shape, Asked
  <2>3. \A j \in Slots : Fits(req'[j], entries', breaks', claims')
    BY <1>1, <2>2 DEF Shape, Asked, shiftRows
  <2>4. ASSUME NEW j \in Slots, NEW k \in Slots, j # k, req'[j].pc # "free", req'[k].pc # "free",
               req'[j].key = req'[k].key
        PROVE  req'[j].key \in torn'
    <3>1. CASE j # i /\ k # i
      BY <1>1, <2>2, <2>4, <3>1 DEF Shape, Asked, At
    <3>2. CASE j = i
      BY <1>1, <2>2, <2>4, <3>2 DEF At
    <3>3. CASE k = i
      BY <1>1, <2>2, <2>4, <3>3 DEF At
    <3> QED
      BY <3>1, <3>2, <3>3
  <2> QED
    BY <2>1, <2>3, <2>4 DEF Asked, At
<1> QED
  BY <1>2, <1>3, <1>4 DEF Shape

\* A request goes on, or is answered.
LEMMA Proceeds ==
  ASSUME Shape, AtShifts, NEW i \in Slots, ~At(i, "free"), NEW r \in Request, Goes(i, r),
         counts' = counts /\ torn' = torn, r.key = req[i].key \/ r.pc = "free", Rows',
         Grow(entries, entries', breaks, breaks', claims, claims'),
         Fits(r, entries', breaks', claims')
  PROVE  Shape'
<1>1. req' = [req EXCEPT ![i] = r]
  BY DEF Goes
<1>2. req' \in [Slots -> Request]
  BY <1>1 DEF Shape, Asked
<1>3. \A j \in Slots : req'[j] = IF j = i THEN r ELSE req[j]
  BY <1>1 DEF Shape, Asked
<1>4. \A j \in Slots : Fits(req'[j], entries', breaks', claims')
  <2> SUFFICES ASSUME NEW j \in Slots, j # i PROVE Fits(req[j], entries', breaks', claims')
    BY <1>3
  <2>1. Fits(req[j], entries, breaks, claims)
    BY DEF Shape, Asked
  <2> QED
    BY <2>1, FitsGrow
<1>5. ASSUME NEW j \in Slots, NEW k \in Slots, j # k, req'[j].pc # "free", req'[k].pc # "free",
             req'[j].key = req'[k].key
      PROVE  req'[j].key \in torn'
  <2>1. req[j].pc # "free" /\ req[k].pc # "free" /\ req[j].key = req'[j].key
                           /\ req[k].key = req'[k].key
    BY <1>3, <1>5 DEF At
  <2> QED
    BY <2>1, <1>5 DEF Shape, Asked, At
<1>6. Asked'
  BY <1>2, <1>4, <1>5 DEF Asked, At
<1>7. "desk" \in DOMAIN counts'
  BY DEF Shape
<1>8. Shape'
  BY <1>6, <1>7 DEF Shape
<1> QED
  BY <1>8

\* Rows of a sequence, one appended or one changed.
LEMMA Appended ==
  ASSUME NEW S, NEW s \in Seq(S), NEW x \in S
  PROVE  /\ Append(s, x) \in Seq(S) /\ DOMAIN s = 1 .. Len(s) /\ Len(s) \in Nat
         /\ DOMAIN Append(s, x) = 1 .. Len(s) + 1 /\ Append(s, x)[Len(s) + 1] = x
         /\ \A k \in DOMAIN s : Append(s, x)[k] = s[k]
         /\ DOMAIN s \subseteq DOMAIN Append(s, x) /\ Len(s) + 1 \notin DOMAIN s
BY AppendProperties

\* ... and one changed.
LEMMA Replaced ==
  ASSUME NEW S, NEW s \in Seq(S), NEW k \in DOMAIN s, NEW x \in S
  PROVE  /\ [s EXCEPT ![k] = x] \in Seq(S) /\ DOMAIN [s EXCEPT ![k] = x] = DOMAIN s
         /\ \A n \in DOMAIN s : [s EXCEPT ![k] = x][n] = IF n = k THEN x ELSE s[n]
         /\ Len([s EXCEPT ![k] = x]) = Len(s)
BY ExceptSeq

\* With the rows as they were, everything grows.
LEMMA SameGrow ==
  ASSUME NEW es, NEW bs, NEW cs PROVE Grow(es, es, bs, bs, cs, cs)
BY DEF Grow

\* A step that leaves the rows of the clock, the breaks and the claims alone.
LEMMA Steps ==
  ASSUME Shape, AtShifts, NEW i \in Slots, ~At(i, "free"), NEW r \in Request, Goes(i, r),
         counts' = counts /\ torn' = torn, r.key = req[i].key \/ r.pc = "free", UNCHANGED shiftRows,
         Fits(r, entries, breaks, claims)
  PROVE  Shape'
<1>1. /\ entries' = entries /\ breaks' = breaks /\ claims' = claims
  BY DEF shiftRows
<1>2. Rows'
  BY DEF Shape, Rows, shiftRows
<1>3. Grow(entries, entries', breaks, breaks', claims, claims')
  BY <1>1, SameGrow
<1>4. Fits(r, entries', breaks', claims')
  BY <1>1
<1> QED
  BY <1>2, <1>3, <1>4, Proceeds

\* An answer, with rows as they may be.
LEMMA Answered ==
  ASSUME Shape, AtShifts, NEW i \in Slots, ~At(i, "free"), Answers(i),
         counts' = counts /\ torn' = torn, Rows',
         Grow(entries, entries', breaks, breaks', claims, claims')
  PROVE  Shape'
BY FreeFits, Proceeds DEF Answers

\* The entry that a clock-in writes, and what a clock-out makes of one.
NewEntry(p, now) ==
  [staff |-> p, at |-> now, out |-> None, hours |-> 0, status |-> "", overtime |-> 0]

\* It is an entry of that person, with nothing credited yet.
LEMMA NewEntryIs ==
  ASSUME NEW p \in Staff, NEW now \in Nat
  PROVE  LET x == NewEntry(p, now)
         IN x \in Entry /\ x.hours = 0 /\ x.staff = p /\ x.at = now
<1>1. NewEntry(p, now) \in Entry
  BY DEF NewEntry, Entry, None, Marks
<1> QED
  BY <1>1 DEF NewEntry

\* Clocking in appends an entry (ClockIns keeps Shape).
LEMMA ClockInsShape ==
  ASSUME Shape, AtShifts, NEW i \in Slots, ClockIns(i)
  PROVE  /\ Shape' /\ req[i].key \in Clerks
         /\ entries' = Append(entries, NewEntry(req[i].key[2], clock))
         /\ NewEntry(req[i].key[2], clock) \in Entry
<1>1. Rows /\ Fits(req[i], entries, breaks, claims) /\ req[i].pc = "in"
  BY DEF Shape, Asked, ClockIns, At
<1>2. PICK p \in Staff : req[i].key = Clerk(p)
  BY <1>1 DEF Fits, Clerks
<1>3. req[i].key[2] = p
  BY <1>2 DEF Clerk
<1> DEFINE x == NewEntry(req[i].key[2], clock)
<1>4. x \in Entry /\ x.at = clock /\ x.hours = 0
  <2>1. clock \in Nat
    BY <1>1 DEF Rows
  <2> QED
    BY <2>1, <1>3, NewEntryIs
<1>5. entries' = Append(entries, x) /\ UNCHANGED <<clock, breaks, checks, claims, settings, runs>>
  BY DEF ClockIns, NewEntry
<1> HIDE DEF x
<1>6. /\ entries' \in Seq(Entry) /\ DOMAIN entries \subseteq DOMAIN entries'
      /\ \A n \in DOMAIN entries : entries'[n] = entries[n]
      /\ \A n \in DOMAIN entries' : n \in DOMAIN entries \/ entries'[n] = x
  BY <1>1, <1>4, <1>5, Appended DEF Rows
<1>7. Rows'
  BY <1>1, <1>4, <1>5, <1>6 DEF Rows
<1>8. Grow(entries, entries', breaks, breaks', claims, claims')
  BY <1>5, <1>6 DEF Grow
<1>9. ~At(i, "free") /\ Answers(i) /\ counts' = counts /\ torn' = torn
  BY DEF ClockIns, At
<1>10. Shape'
  BY <1>7, <1>8, <1>9, Answered
<1> QED
  BY <1>2, <1>4, <1>5, <1>10 DEF Clerks, x

\* A request at work.
LEMMA AtWork ==
  ASSUME Shape, AtShifts, NEW i \in Slots
  PROVE  Rows /\ req \in [Slots -> Request] /\ req[i] \in Request
         /\ Fits(req[i], entries, breaks, claims)
BY DEF Shape, Asked

\* The gate leaves the rows alone (ReadsGate keeps Shape).
LEMMA ReadsGateShape == ASSUME Shape, AtShifts, NEW i \in Slots, ReadsGate(i) PROVE Shape'
<1>1. Rows /\ Fits(req[i], entries, breaks, claims) /\ req[i] \in Request /\ req[i].pc = "gate"
  BY AtWork DEF ReadsGate, At
<1>2. ~At(i, "free") /\ UNCHANGED shiftRows /\ counts' = counts /\ torn' = torn
  BY DEF ReadsGate, At, shiftRows
<1>3. CASE Answers(i)
  BY <1>2, <1>3, FreeFits, Steps DEF Answers
<1>4. CASE Goes(i, [Step(i, "out") EXCEPT !.since = {c \in Checks : checks[c].state = "verifying"}])
  <2> DEFINE r == [req[i] EXCEPT !.pc = "out",
                                 !.since = {c \in Checks : checks[c].state = "verifying"}]
  <2>1. r \in Request /\ r.pc = "out" /\ r.key = req[i].key /\ r.row = req[i].row
    BY <1>1 DEF ShiftPcs, Request
  <2>2. Goes(i, r)
    BY <1>1, <1>4 DEF Step, Request
  <2> HIDE DEF r
  <2>3. Fits(r, entries, breaks, claims)
    BY <1>1, <2>1 DEF Fits, Paying
  <2> QED
    BY <1>2, <2>1, <2>2, <2>3, Steps
<1> QED
  BY <1>3, <1>4 DEF ReadsGate

\* So does the look at the breaks (ReadsBreaks keeps Shape).
LEMMA ReadsBreaksShape == ASSUME Shape, AtShifts, NEW i \in Slots, ReadsBreaks(i) PROVE Shape'
<1>1. Rows /\ Fits(req[i], entries, breaks, claims) /\ req[i] \in Request /\ req[i].pc = "breaks"
  BY AtWork DEF ReadsBreaks, At
<1>2. ~At(i, "free") /\ UNCHANGED shiftRows /\ counts' = counts /\ torn' = torn
  BY DEF ReadsBreaks, At, shiftRows
<1>3. CASE Answers(i)
  BY <1>2, <1>3, FreeFits, Steps DEF Answers
<1>4. CASE Goes(i, Step(i, "rest"))
  <2> DEFINE r == [req[i] EXCEPT !.pc = "rest"]
  <2>1. r \in Request /\ r.pc = "rest" /\ r.key = req[i].key /\ r.row = req[i].row
    BY <1>1, StepIs DEF ShiftPcs
  <2>2. Goes(i, r)
    BY <1>4 DEF Step
  <2> HIDE DEF r
  <2>3. Fits(r, entries, breaks, claims)
    BY <1>1, <2>1 DEF Fits, Paying
  <2> QED
    BY <1>2, <2>1, <2>2, <2>3, Steps
<1> QED
  BY <1>3, <1>4 DEF ReadsBreaks

\* What a clock-out makes of an entry.
Ended(e, now) ==
  [e EXCEPT !.out = Time(now), !.hours = Hours(MinutesWorked(Time(e.at), Time(now)))]

\* Clocking out ends the entry it was about (ClockOuts keeps Shape).
LEMMA ClockOutsShape ==
  ASSUME Shape, AtShifts, NEW i \in Slots, ClockOuts(i)
  PROVE  /\ Shape' /\ req[i].row \in DOMAIN entries
         /\ Ended(entries[req[i].row], clock) \in Entry
         /\ entries' = [entries EXCEPT ![req[i].row] = Ended(entries[req[i].row], clock)]
<1> DEFINE n == req[i].row
           x == Ended(entries[n], clock)
<1>1. Rows /\ Fits(req[i], entries, breaks, claims) /\ req[i].pc = "out"
  BY AtWork DEF ClockOuts, At
<1>2. n \in DOMAIN entries /\ entries[n] \in Entry /\ entries[n].at <= clock /\ clock \in Nat
      /\ entries[n].at \in Nat
  <2>1. n \in DOMAIN entries
    BY <1>1 DEF Fits
  <2>2. entries[n] \in Entry /\ entries[n].at <= clock /\ clock \in Nat
    BY <1>1, <2>1 DEF Rows
  <2> QED
    BY <2>1, <2>2 DEF Entry
<1>3. Time(clock) \in Nat
  BY <1>2, DayParts, DayAssumption
<1>4. Hours(MinutesWorked(Time(entries[n].at), Time(clock))) \in Nat
  <2>1. MinutesWorked(Time(entries[n].at), Time(clock)) \in Nat
    BY <1>2, MinutesAreWorked
  <2> QED
    BY <2>1, HoursAre
<1>5. x \in Entry /\ x.at = entries[n].at /\ x.staff = entries[n].staff /\ x.out # None
  <2> DEFINE h == Hours(MinutesWorked(Time(entries[n].at), Time(clock)))
             t == Time(clock)
  <2>1. x = [entries[n] EXCEPT !.out = t, !.hours = h]
    BY DEF Ended
  <2>2. h \in Nat /\ t \in Nat
    BY <1>3, <1>4
  <2> HIDE DEF h, t, x
  <2>3. x \in Entry
    <3> DEFINE e == entries[n]
    <3>1. e \in Entry /\ h \in Nat /\ t \in Int /\ x = [e EXCEPT !.out = t, !.hours = h]
      BY <1>2, <2>1, <2>2
    <3> HIDE DEF e
    <3> QED
      BY <3>1 DEF Entry
  <2>4. x.at = entries[n].at /\ x.staff = entries[n].staff /\ x.out = t
    BY <1>2, <2>1 DEF Entry
  <2>5. t # None
    BY <2>2 DEF None
  <2> QED
    BY <2>3, <2>4, <2>5
<1>6. entries' = [entries EXCEPT ![n] = x] /\ UNCHANGED <<clock, breaks, checks, claims, settings, runs>>
  BY <1>2 DEF ClockOuts, Ended
<1> HIDE DEF x
<1>7. /\ entries' \in Seq(Entry) /\ DOMAIN entries' = DOMAIN entries
      /\ \A m \in DOMAIN entries : entries'[m] = IF m = n THEN x ELSE entries[m]
  BY <1>1, <1>2, <1>5, <1>6, Replaced DEF Rows
<1>8. Rows'
  BY <1>1, <1>2, <1>5, <1>6, <1>7 DEF Rows
<1>9. Grow(entries, entries', breaks, breaks', claims, claims')
  BY <1>5, <1>6, <1>7 DEF Grow
<1>10. ~At(i, "free") /\ Answers(i) /\ counts' = counts /\ torn' = torn
  BY DEF ClockOuts, At
<1>11. Shape'
  BY <1>8, <1>9, <1>10, Answered
<1> QED
  BY <1>2, <1>5, <1>6, <1>11 DEF x

\* A classification leaves times and hours alone (Classifies keeps Shape).
LEMMA ClassifiesShape ==
  ASSUME Shape, AtShifts, NEW i \in Slots, Classifies(i)
  PROVE  /\ Shape' /\ DOMAIN entries' = DOMAIN entries
         /\ \A m \in DOMAIN entries :
              /\ entries'[m].staff = entries[m].staff /\ entries'[m].at = entries[m].at
              /\ entries'[m].out = entries[m].out /\ entries'[m].hours = entries[m].hours
<1> DEFINE n == req[i].row
           x == [entries[n] EXCEPT !.status = req[i].new.status, !.overtime = req[i].new.overtime]
<1>1. Rows /\ Fits(req[i], entries, breaks, claims) /\ req[i].pc = "classify"
  BY AtWork DEF Classifies, At
<1>2. n \in DOMAIN entries /\ entries[n] \in Entry /\ req[i].new \in Result
  BY <1>1 DEF Fits, Rows
<1>3. req[i].new.status \in Marks /\ req[i].new.overtime \in Int
  BY <1>2 DEF Result
<1>4. /\ x \in Entry /\ x.at = entries[n].at /\ x.staff = entries[n].staff
      /\ x.out = entries[n].out /\ x.hours = entries[n].hours
  BY <1>2, <1>3 DEF Entry
<1>5. entries' = [entries EXCEPT ![n] = x] /\ UNCHANGED <<clock, breaks, checks, claims, settings, runs>>
  BY <1>2 DEF Classifies
<1> HIDE DEF x
<1>6. /\ entries' \in Seq(Entry) /\ DOMAIN entries' = DOMAIN entries
      /\ \A m \in DOMAIN entries : entries'[m] = IF m = n THEN x ELSE entries[m]
  BY <1>1, <1>2, <1>4, <1>5, Replaced DEF Rows
<1>7. Rows'
  BY <1>1, <1>2, <1>4, <1>5, <1>6 DEF Rows
<1>8. Grow(entries, entries', breaks, breaks', claims, claims')
  BY <1>4, <1>5, <1>6 DEF Grow
<1>9. ~At(i, "free") /\ Answers(i) /\ counts' = counts /\ torn' = torn
  BY DEF Classifies, At
<1>10. Shape'
  BY <1>7, <1>8, <1>9, Answered
<1> QED
  BY <1>4, <1>6, <1>10

\* A break that starts is appended (BreakStarts keeps Shape).
LEMMA BreakStartsShape ==
  ASSUME Shape, AtShifts, NEW i \in Slots, BreakStarts(i)
  PROVE  /\ Shape' /\ DOMAIN breaks \subseteq DOMAIN breaks'
         /\ Len(breaks) + 1 \notin DOMAIN breaks
         /\ DOMAIN breaks' = DOMAIN breaks \cup {Len(breaks) + 1}
         /\ \A b \in DOMAIN breaks : breaks'[b] = breaks[b]
         /\ breaks'[Len(breaks) + 1] = [entry |-> req[i].row, open |-> TRUE]
         /\ \A b \in DOMAIN breaks' : breaks'[b].entry \in DOMAIN entries
<1> DEFINE x == [entry |-> req[i].row, open |-> TRUE]
<1>1. Rows /\ Fits(req[i], entries, breaks, claims) /\ req[i].pc = "rest" /\ req[i] \in Request
  BY AtWork DEF BreakStarts, At
<1>2. x \in Break /\ x.entry \in DOMAIN entries
  <2>1. req[i].row \in Nat
    BY <1>1 DEF Request
  <2> QED
    BY <2>1, <1>1 DEF Break, Fits
<1>3. breaks' = Append(breaks, x) /\ UNCHANGED <<clock, entries, checks, claims, settings, runs>>
  BY DEF BreakStarts
<1>4. breaks \in Seq(Break)
  BY <1>1 DEF Rows
<1>5. /\ breaks' \in Seq(Break) /\ DOMAIN breaks \subseteq DOMAIN breaks'
      /\ DOMAIN breaks = 1 .. Len(breaks) /\ Len(breaks) \in Nat
      /\ DOMAIN breaks' = 1 .. Len(breaks) + 1 /\ breaks'[Len(breaks) + 1] = x
      /\ \A b \in DOMAIN breaks : breaks'[b] = breaks[b]
  <2> HIDE DEF x
  <2> QED
    BY <1>2, <1>3, <1>4, Appended
<1>6. \A b \in DOMAIN breaks' : breaks'[b].entry \in DOMAIN entries
  <2> SUFFICES ASSUME NEW b \in DOMAIN breaks' PROVE breaks'[b].entry \in DOMAIN entries
    OBVIOUS
  <2>1. b \in DOMAIN breaks \/ b = Len(breaks) + 1
    BY <1>5
  <2>2. \A a \in DOMAIN breaks : breaks[a].entry \in DOMAIN entries
    BY <1>1 DEF Rows
  <2> HIDE DEF x
  <2> QED
    BY <2>1, <2>2, <1>2, <1>5
<1>7. Rows'
  BY <1>1, <1>3, <1>5, <1>6 DEF Rows
<1>8. Grow(entries, entries', breaks, breaks', claims, claims')
  BY <1>3, <1>5 DEF Grow
<1>9. ~At(i, "free") /\ Answers(i) /\ counts' = counts /\ torn' = torn
  BY DEF BreakStarts, At
<1>10. Shape'
  BY <1>7, <1>8, <1>9, Answered
<1> QED
  BY <1>5, <1>6, <1>10

\* A break that ends is open no more (BreakEnds keeps Shape).
LEMMA BreakEndsShape ==
  ASSUME Shape, AtShifts, NEW i \in Slots, BreakEnds(i)
  PROVE  /\ Shape' /\ DOMAIN breaks' = DOMAIN breaks
         /\ \A b \in DOMAIN breaks : /\ breaks'[b].entry = breaks[b].entry
                                     /\ breaks'[b].open => breaks[b].open
<1> DEFINE n == req[i].row
           x == [breaks[n] EXCEPT !.open = FALSE]
<1>1. Rows /\ Fits(req[i], entries, breaks, claims) /\ req[i].pc = "back"
  BY AtWork DEF BreakEnds, At
<1>2. n \in DOMAIN breaks /\ breaks[n] \in Break
  BY <1>1 DEF Fits, Rows
<1>3. x \in Break /\ x.entry = breaks[n].entry /\ x.open = FALSE
  BY <1>2 DEF Break
<1>4. breaks' = [breaks EXCEPT ![n] = x] /\ UNCHANGED <<clock, entries, checks, claims, settings, runs>>
  BY <1>2 DEF BreakEnds
<1> HIDE DEF x
<1>5. /\ breaks' \in Seq(Break) /\ DOMAIN breaks' = DOMAIN breaks
      /\ \A m \in DOMAIN breaks : breaks'[m] = IF m = n THEN x ELSE breaks[m]
  BY <1>1, <1>2, <1>3, <1>4, Replaced DEF Rows
<1>6. Rows'
  BY <1>1, <1>2, <1>3, <1>4, <1>5 DEF Rows
<1>7. Grow(entries, entries', breaks, breaks', claims, claims')
  BY <1>4, <1>5 DEF Grow
<1>8. ~At(i, "free") /\ Answers(i) /\ counts' = counts /\ torn' = torn
  BY DEF BreakEnds, At
<1>9. Shape'
  BY <1>6, <1>7, <1>8, Answered
<1> QED
  BY <1>3, <1>5, <1>9

\* A claim is appended (Claims keeps Shape).
LEMMA ClaimsShape ==
  ASSUME Shape, AtShifts, NEW i \in Slots, Claims(i)
  PROVE  /\ Shape' /\ Len(claims) + 1 \notin DOMAIN claims
         /\ DOMAIN claims' = DOMAIN claims \cup {Len(claims) + 1}
         /\ \A n \in DOMAIN claims : claims'[n] = claims[n]
         /\ claims'[Len(claims) + 1] = req[i].new
<1> DEFINE x == req[i].new
<1>1. Rows /\ Fits(req[i], entries, breaks, claims) /\ req[i].pc = "claim"
  BY AtWork DEF Claims, At
<1>2. x \in ClaimRow
  BY <1>1 DEF Fits
<1>3. claims' = Append(claims, x) /\ UNCHANGED <<clock, entries, breaks, checks, settings, runs>>
  BY DEF Claims
<1> HIDE DEF x
<1>4. claims \in Seq(ClaimRow)
  BY <1>1 DEF Rows
<1>5. /\ claims' \in Seq(ClaimRow) /\ DOMAIN claims \subseteq DOMAIN claims'
      /\ DOMAIN claims = 1 .. Len(claims) /\ Len(claims) \in Nat
      /\ DOMAIN claims' = 1 .. Len(claims) + 1 /\ claims'[Len(claims) + 1] = x
      /\ \A b \in DOMAIN claims : claims'[b] = claims[b]
  BY <1>2, <1>3, <1>4, Appended
<1>6. Rows'
  BY <1>1, <1>3, <1>5 DEF Rows
<1>7. Grow(entries, entries', breaks, breaks', claims, claims')
  BY <1>3, <1>5 DEF Grow
<1>8. ~At(i, "free") /\ Answers(i) /\ counts' = counts /\ torn' = torn
  BY DEF Claims, At
<1>9. Shape'
  BY <1>6, <1>7, <1>8, Answered
<1> QED
  BY <1>5, <1>9 DEF x

\* A decision changes one status and nothing else (Decides keeps Shape).
LEMMA DecidesShape ==
  ASSUME Shape, AtShifts, NEW i \in Slots, Decides(i)
  PROVE  /\ Shape' /\ DOMAIN claims' = DOMAIN claims
         /\ req[i].row \in DOMAIN claims /\ req[i].key = Claim(req[i].row)
         /\ \A n \in DOMAIN claims :
              /\ claims'[n].kind = claims[n].kind /\ claims'[n].staff = claims[n].staff
              /\ claims'[n].from = claims[n].from /\ claims'[n].to = claims[n].to
              /\ n # req[i].row => claims'[n].status = claims[n].status
<1> DEFINE n == req[i].row
           x == [claims[n] EXCEPT !.status = req[i].new.status, !.by = req[i].new.by]
<1>1. Rows /\ Fits(req[i], entries, breaks, claims) /\ req[i].pc = "decide"
  BY AtWork DEF Decides, At
<1>2. n \in DOMAIN claims /\ req[i].key = Claim(n) /\ req[i].new \in Verdict
      /\ req[i].new.by # claims[n].staff
  BY <1>1 DEF Fits
<1>3. claims[n] \in ClaimRow /\ claims \in Seq(ClaimRow)
  BY <1>1, <1>2 DEF Rows
<1>4. /\ x \in ClaimRow /\ x.kind = claims[n].kind /\ x.staff = claims[n].staff
      /\ x.from = claims[n].from /\ x.to = claims[n].to
  BY <1>2, <1>3 DEF ClaimRow, Verdict
<1>5. claims' = [claims EXCEPT ![n] = x] /\ UNCHANGED <<clock, entries, breaks, checks, settings, runs>>
  BY <1>2 DEF Decides
<1> HIDE DEF x
<1>6. /\ claims' \in Seq(ClaimRow) /\ DOMAIN claims' = DOMAIN claims
      /\ \A m \in DOMAIN claims : claims'[m] = IF m = n THEN x ELSE claims[m]
  BY <1>2, <1>3, <1>4, <1>5, Replaced
<1>7. Rows'
  BY <1>1, <1>5, <1>6 DEF Rows
<1>8. Grow(entries, entries', breaks, breaks', claims, claims')
  BY <1>4, <1>5, <1>6 DEF Grow
<1>9. ~At(i, "free") /\ Answers(i) /\ counts' = counts /\ torn' = torn
  BY DEF Decides, At
<1>10. Shape'
  BY <1>7, <1>8, <1>9, Answered
<1> QED
  BY <1>2, <1>4, <1>6, <1>10

\* A change of the settings, by a request that then answers or goes on.
LEMMA SettingsChange ==
  ASSUME Shape, settings' \in Setting,
         UNCHANGED <<clock, entries, breaks, checks, claims, runs>>
  PROVE  Rows' /\ Grow(entries, entries', breaks, breaks', claims, claims')
<1>1. Grow(entries, entries', breaks, breaks', claims, claims')
  <2>1. entries' = entries /\ breaks' = breaks /\ claims' = claims
    OBVIOUS
  <2> QED
    BY <2>1, SameGrow
<1>2. Rows'
  BY DEF Shape, Rows
<1> QED
  BY <1>1, <1>2

\* The first statement of a change of rates leaves the flag behind.
LEMMA RateWritesShape ==
  ASSUME Shape, AtShifts, NEW i \in Slots, RateWrites(i)
  PROVE  Shape' /\ Sure(settings')
<1> DEFINE r == [req[i] EXCEPT !.pc = "flag"]
<1>1. Rows /\ Fits(req[i], entries, breaks, claims) /\ req[i] \in Request /\ req[i].pc = "rate"
  BY AtWork DEF RateWrites, At
<1>2. r \in Request /\ r.pc = "flag" /\ r.key = req[i].key
  BY <1>1, StepIs DEF ShiftPcs
<1>3. ~At(i, "free") /\ Goes(i, r) /\ counts' = counts /\ torn' = torn
  BY DEF RateWrites, At, Step
<1> HIDE DEF r
<1>4. settings' = [settings EXCEPT !.rates = req[i].new, !.behind = TRUE]
      /\ UNCHANGED <<clock, entries, breaks, checks, claims, runs>>
  BY DEF RateWrites
<1>5. req[i].new \in Rates /\ settings \in Setting
  BY <1>1 DEF Fits, Rows
<1>6. settings' \in Setting /\ Sure(settings')
  BY <1>4, <1>5 DEF Setting, Sure, AtConfirmed
<1>7. Fits(r, entries', breaks', claims')
  BY <1>2 DEF Fits, Paying
<1>8. Rows' /\ Grow(entries, entries', breaks, breaks', claims, claims')
  BY <1>4, <1>6, SettingsChange
<1> QED
  BY <1>2, <1>3, <1>6, <1>7, <1>8, Proceeds

\* The second one puts the flag up, if there is a row of it.
LEMMA RateFlagsShape ==
  ASSUME Shape, AtShifts, Sure(settings), NEW i \in Slots, RateFlags(i)
  PROVE  Shape' /\ Sure(settings')
<1>1. settings \in Setting
  BY DEF Shape, Rows
<1>2. settings' \in {settings, [settings EXCEPT !.unverified = TRUE, !.behind = FALSE]}
      /\ UNCHANGED <<clock, entries, breaks, checks, claims, runs>>
  BY DEF RateFlags
<1>3. settings' \in Setting /\ Sure(settings')
  BY <1>1, <1>2 DEF Setting, Sure
<1>4. Rows' /\ Grow(entries, entries', breaks, breaks', claims, claims')
  BY <1>2, <1>3, SettingsChange
<1>5. ~At(i, "free") /\ Answers(i) /\ counts' = counts /\ torn' = torn
  BY DEF RateFlags, At
<1> QED
  BY <1>3, <1>4, <1>5, Answered

\* A confirmation puts it down.
LEMMA ConfirmsShape ==
  ASSUME Shape, AtShifts, NEW i \in Slots, Confirms(i)
  PROVE  Shape' /\ Sure(settings')
<1>1. settings \in Setting
  BY DEF Shape, Rows
<1>2. settings' = [settings EXCEPT !.row = TRUE, !.unverified = FALSE, !.behind = FALSE,
                                   !.confirmed = settings.rates]
      /\ UNCHANGED <<clock, entries, breaks, checks, claims, runs>>
  BY DEF Confirms
<1>3. settings' \in Setting /\ Sure(settings')
  BY <1>1, <1>2 DEF Setting, Sure, AtConfirmed
<1>4. Rows' /\ Grow(entries, entries', breaks, breaks', claims, claims')
  BY <1>2, <1>3, SettingsChange
<1>5. ~At(i, "free") /\ Answers(i) /\ counts' = counts /\ torn' = torn
  BY DEF Confirms, At
<1> QED
  BY <1>3, <1>4, <1>5, Answered

\* What a payroll run has read when it has read one more table.
Reads(r, kind, more) ==
  [r EXCEPT !.todo = r.todo \ {kind}, !.pc = IF r.todo \ {kind} = {} THEN "run" ELSE "rows",
            !.found = r.found \cup more]

PayableRows(kind) == {[n |-> n, row |-> claims[n]] : n \in Payable(kind)}

\* A payroll run reads one more table (ReadsRows keeps Shape).
LEMMA ReadsRowsShape ==
  ASSUME Shape, AtShifts, NEW i \in Slots, NEW kind \in Kinds, ReadsRows(i, kind)
  PROVE  LET r == Reads(req[i], kind, PayableRows(kind))
         IN /\ Shape' /\ req' = [req EXCEPT ![i] = r] /\ r.pc \in Paying /\ r.new = req[i].new
            /\ r.found = req[i].found \cup PayableRows(kind) /\ r.key = req[i].key
<1> DEFINE r == Reads(req[i], kind, PayableRows(kind))
<1>1. Rows /\ Fits(req[i], entries, breaks, claims) /\ req[i] \in Request /\ req[i].pc = "rows"
  BY AtWork DEF ReadsRows, At
<1>2. PayableRows(kind) \subseteq Found /\ \A f \in PayableRows(kind) : f.n \in DOMAIN claims
  <2>1. claims \in Seq(ClaimRow)
    BY <1>1 DEF Rows
  <2>2. \A n \in DOMAIN claims : n \in Nat /\ claims[n] \in ClaimRow
    BY <2>1
  <2> SUFFICES ASSUME NEW f \in PayableRows(kind) PROVE f \in Found /\ f.n \in DOMAIN claims
    OBVIOUS
  <2>3. PICK n \in Payable(kind) : f = [n |-> n, row |-> claims[n]]
    BY DEF PayableRows
  <2>4. n \in DOMAIN claims
    BY DEF Payable
  <2> QED
    BY <2>2, <2>3, <2>4 DEF Found
<1>3. /\ r \in Request /\ r.pc \in {"run", "rows"} /\ r.new = req[i].new
      /\ r.found = req[i].found \cup PayableRows(kind) /\ r.key = req[i].key
  <2> DEFINE more == PayableRows(kind)
             pc == IF req[i].todo \ {kind} = {} THEN "run" ELSE "rows"
             left == req[i].todo \ {kind}
  <2>1. pc \in {"run", "rows"}
    OBVIOUS
  <2>2. r = [req[i] EXCEPT !.todo = left, !.pc = pc, !.found = req[i].found \cup more]
    BY DEF Reads
  <2>3. req[i].found \cup more \in SUBSET Found /\ left \in SUBSET Kinds /\ pc \in ShiftPcs
    BY <1>1, <1>2, <2>1 DEF Request, ShiftPcs
  <2> HIDE DEF more, pc, left, r
  <2>4. r \in Request
    BY <1>1, <2>2, <2>3 DEF Request
  <2>5. r.pc = pc /\ r.new = req[i].new /\ r.found = req[i].found \cup more /\ r.key = req[i].key
    BY <1>1, <2>2 DEF Request
  <2> QED
    BY <2>1, <2>4, <2>5 DEF more
<1>4. Goes(i, r)
  BY DEF ReadsRows, Reads, PayableRows
<1>5. ~At(i, "free") /\ UNCHANGED shiftRows /\ counts' = counts /\ torn' = torn
  BY DEF ReadsRows, At, shiftRows
<1> HIDE DEF r
<1>6. req' = [req EXCEPT ![i] = r] /\ r.pc \in Paying
  BY <1>3, <1>4 DEF Goes, Paying
<1>7. Fits(r, entries, breaks, claims)
  BY <1>1, <1>2, <1>3 DEF Fits, Paying
<1>8. Shape'
  BY <1>3, <1>4, <1>5, <1>7, Steps
<1> QED
  BY <1>3, <1>6, <1>8 DEF r

\* A run is appended with what was read (InsertsRun keeps Shape).
LEMMA InsertsRunShape ==
  ASSUME Shape, AtShifts, NEW i \in Slots, InsertsRun(i)
  PROVE  /\ Shape' /\ Len(runs) + 1 \notin DOMAIN runs
         /\ DOMAIN runs' = DOMAIN runs \cup {Len(runs) + 1}
         /\ \A k \in DOMAIN runs : runs'[k] = runs[k]
         /\ runs'[Len(runs) + 1].provisional = req[i].new.unverified
         /\ runs'[Len(runs) + 1].at = req[i].new
         /\ runs'[Len(runs) + 1].claims = {f.n : f \in req[i].found}
<1> DEFINE r == [[req[i] EXCEPT !.pc = "lines"] EXCEPT !.row = Len(runs) + 1]
<1>1. Rows /\ Fits(req[i], entries, breaks, claims) /\ req[i] \in Request /\ req[i].pc = "run"
  BY AtWork DEF InsertsRun, At
<1>2. PICK net : runs' = Append(runs, [provisional |-> req[i].new.unverified,
                           at |-> req[i].new,
                           claims |-> {f.n : f \in req[i].found}, net |-> net, lines |-> <<>>])
  BY DEF InsertsRun
<1> DEFINE x == [provisional |-> req[i].new.unverified, at |-> req[i].new,
                 claims |-> {f.n : f \in req[i].found}, net |-> net, lines |-> <<>>]
<1>3. /\ DOMAIN x = RunFields /\ x.provisional = req[i].new.unverified
      /\ x.at = req[i].new /\ x.claims = {f.n : f \in req[i].found}
  BY DEF RunFields
<1>4. runs' = Append(runs, x)
  BY <1>2
<1> HIDE DEF x
<1>5. /\ Len(runs) \in Nat /\ DOMAIN runs = 1 .. Len(runs)
      /\ IsSeq(runs') /\ DOMAIN runs' = 1 .. Len(runs) + 1 /\ runs'[Len(runs) + 1] = x
      /\ \A k \in DOMAIN runs : runs'[k] = runs[k]
  <2>1. IsSeq(runs)
    BY <1>1 DEF Rows
  <2> QED
    BY <2>1, <1>4, AnySeq
<1>6. /\ Len(runs) + 1 \notin DOMAIN runs
      /\ DOMAIN runs' = DOMAIN runs \cup {Len(runs) + 1}
  BY <1>5
<1>7. UNCHANGED <<clock, entries, breaks, checks, claims, settings>>
      /\ counts' = counts /\ torn' = torn /\ ~At(i, "free")
  BY DEF InsertsRun, At
<1>8. x.claims \subseteq DOMAIN claims
  BY <1>1, <1>3 DEF Fits, Paying
<1>9. Rows'
  <2>1. \A k \in DOMAIN runs' : DOMAIN runs'[k] = RunFields /\ runs'[k].claims \subseteq DOMAIN claims'
    <3> SUFFICES ASSUME NEW k \in DOMAIN runs'
                 PROVE  DOMAIN runs'[k] = RunFields /\ runs'[k].claims \subseteq DOMAIN claims
      BY <1>7
    <3>1. CASE k \in DOMAIN runs
      <4>1. DOMAIN runs[k] = RunFields /\ runs[k].claims \subseteq DOMAIN claims
        BY <1>1, <3>1 DEF Rows
      <4> QED
        BY <4>1, <3>1, <1>5
    <3>2. CASE k = Len(runs) + 1
      BY <3>2, <1>3, <1>5, <1>8
    <3> QED
      BY <3>1, <3>2, <1>6
  <2> QED
    BY <1>1, <1>5, <1>7, <2>1 DEF Rows
<1>10. r \in Request /\ r.pc = "lines" /\ r.key = req[i].key /\ r.new = req[i].new
       /\ r.found = req[i].found
  <2> DEFINE q == [req[i] EXCEPT !.pc = "lines"]
  <2>1. q \in Request /\ q.pc = "lines" /\ q.key = req[i].key /\ q.new = req[i].new
        /\ q.found = req[i].found
    BY <1>1, StepIs DEF ShiftPcs
  <2>2. r = [q EXCEPT !.row = Len(runs) + 1]
    OBVIOUS
  <2>3. Len(runs) + 1 \in Nat
    BY <1>5
  <2> HIDE DEF q, r
  <2> QED
    BY <2>1, <2>2, <2>3 DEF Request
<1>11. Goes(i, r)
  BY DEF InsertsRun, Step
<1> HIDE DEF r
<1>12. Fits(r, entries', breaks', claims')
  BY <1>1, <1>7, <1>10 DEF Fits, Paying
<1>13. Grow(entries, entries', breaks, breaks', claims, claims')
  BY <1>7, SameGrow
<1>14. Shape'
  BY <1>7, <1>9, <1>10, <1>11, <1>12, <1>13, Proceeds
<1> QED
  BY <1>3, <1>5, <1>6, <1>14

\* A line is added to its run, which stays what it was (InsertsLine keeps Shape).
LEMMA InsertsLineShape ==
  ASSUME Shape, AtShifts, NEW i \in Slots, InsertsLine(i)
  PROVE  /\ Shape' /\ DOMAIN runs' = DOMAIN runs
         /\ \A k \in DOMAIN runs : /\ runs'[k].claims = runs[k].claims
                                    /\ runs'[k].at = runs[k].at
                                    /\ runs'[k].provisional = runs[k].provisional
         /\ req' = req \/ req' = [req EXCEPT ![i] = FreeSlot]
<1>1. Rows /\ Fits(req[i], entries, breaks, claims) /\ req[i] \in Request /\ req[i].pc = "lines"
      /\ req \in [Slots -> Request]
  BY AtWork DEF InsertsLine, At
<1>2. PICK h : runs' = [runs EXCEPT ![req[i].row].lines = h]
  BY DEF InsertsLine
<1>3. UNCHANGED <<clock, entries, breaks, checks, claims, settings>>
      /\ counts' = counts /\ torn' = torn /\ ~At(i, "free") /\ (Answers(i) \/ Goes(i, req[i]))
  BY DEF InsertsLine, At
<1>4. IsSeq(runs') /\ DOMAIN runs' = DOMAIN runs
  <2>1. IsSeq(runs)
    BY <1>1 DEF Rows
  <2>2. PICK y : runs' = [runs EXCEPT ![req[i].row] = y]
    BY <1>2
  <2> QED
    BY <2>1, <2>2, AnySeq
<1>5. \A k \in DOMAIN runs : DOMAIN runs[k] = RunFields /\ runs[k].claims \subseteq DOMAIN claims
  BY <1>1 DEF Rows
<1>6. ASSUME NEW k \in DOMAIN runs
      PROVE  /\ runs'[k].claims = runs[k].claims /\ runs'[k].at = runs[k].at
             /\ runs'[k].provisional = runs[k].provisional /\ DOMAIN runs'[k] = RunFields
  <2>1. DOMAIN runs[k] = RunFields
    BY <1>5
  <2>2. runs'[k] = IF k = req[i].row THEN [runs[k] EXCEPT !.lines = h] ELSE runs[k]
    BY <1>2
  <2> QED
    BY <2>1, <2>2 DEF RunFields
<1>7. Rows'
  BY <1>1, <1>3, <1>4, <1>5, <1>6 DEF Rows
<1>8. Grow(entries, entries', breaks, breaks', claims, claims')
  BY <1>3, SameGrow
<1>9. Shape' /\ (req' = req \/ req' = [req EXCEPT ![i] = FreeSlot])
  <2>1. CASE Answers(i)
    BY <1>3, <1>7, <1>8, <2>1, Answered DEF Answers, Goes
  <2>2. CASE Goes(i, req[i])
    <3>1. req' = req
      BY <1>1, <2>2 DEF Goes
    <3>2. Fits(req[i], entries', breaks', claims')
      BY <1>1, <1>3
    <3> QED
      BY <1>1, <1>3, <1>7, <1>8, <2>2, <3>1, <3>2, Proceeds
  <2> QED
    BY <1>3, <2>1, <2>2
<1> QED
  BY <1>4, <1>6, <1>9

\* Time goes by (Ticks keeps Shape).
LEMMA TicksShape == ASSUME Shape, Ticks PROVE Shape'
<1>1. clock' = clock + 1 /\ UNCHANGED <<entries, breaks, checks, claims, settings, runs, req, counts, torn>>
  BY DEF Ticks
<1>2. Rows'
  <2>1. \A n \in DOMAIN entries : entries[n].at \in Nat
    <3>1. entries \in Seq(Entry)
      BY DEF Shape, Rows
    <3>2. \A n \in DOMAIN entries : entries[n] \in Entry
      BY <3>1
    <3> QED
      BY <3>2 DEF Entry
  <2> QED
    BY <1>1, <2>1 DEF Shape, Rows
<1>3. AtShifts' => Asked'
  BY <1>1 DEF Shape, Asked, AtShifts, At
<1> QED
  BY <1>1, <1>2, <1>3 DEF Shape

\* What a change of a check tells the requests that have passed the gate.
Heard(r, cs) == [r EXCEPT !.since = r.since \cup cs]

\* Nothing but `since` changes in a request that hears of a check.
LEMMA HeardIs ==
  ASSUME NEW r \in Request, NEW cs \in SUBSET Checks
  PROVE  /\ Heard(r, cs) \in Request /\ Heard(r, cs).since = r.since \cup cs
         /\ Heard(r, cs).pc = r.pc /\ Heard(r, cs).key = r.key /\ Heard(r, cs).row = r.row
         /\ Heard(r, cs).new = r.new /\ Heard(r, cs).found = r.found
         /\ Heard(r, cs).force = r.force
BY DEF Heard, Request

\* A check changes, and is heard of (CheckChanges keeps Shape).
LEMMA CheckChangesShape ==
  ASSUME Shape, AtShifts, NEW c \in Checks, NEW p \in Staff, NEW state \in CheckStates,
         CheckChanges(c, p, state)
  PROVE  /\ Shape' /\ torn' = torn /\ UNCHANGED <<clock, entries, breaks, claims, settings, runs>>
         /\ \A j \in Slots : req'[j] = req[j] \/ req'[j] = Heard(req[j], {c})
<1>1. Rows /\ req \in [Slots -> Request]
  BY DEF Shape, Asked
<1>2. /\ torn' = torn /\ UNCHANGED <<clock, entries, breaks, claims, settings, runs>>
      /\ counts' = [counts EXCEPT !.changes = @ + 1]
      /\ checks' = [checks EXCEPT ![c] = [by |-> IF checks[c].state = "none" THEN p ELSE checks[c].by,
                                          state |-> state]]
      /\ req' = [i \in Slots |->
           IF At(i, "out") /\ state \in {"unpaid", "partial"} /\ c \notin Owed(req[i].key[2])
           THEN Heard(req[i], {c}) ELSE req[i]]
  BY DEF CheckChanges, Changes, Heard
<1>3. \A j \in Slots : req'[j] = req[j] \/ req'[j] = Heard(req[j], {c})
  BY <1>2
<1>4. checks' \in [Checks -> Check]
  <2>1. [by |-> IF checks[c].state = "none" THEN p ELSE checks[c].by, state |-> state] \in Check
    BY <1>1 DEF Rows, Check
  <2> QED
    BY <1>1, <1>2, <2>1 DEF Rows
<1>5. Rows'
  BY <1>1, <1>2, <1>4 DEF Rows
<1>6. \A j \in Slots : /\ req'[j] \in Request /\ req'[j].pc = req[j].pc
                       /\ req'[j].key = req[j].key /\ req'[j].row = req[j].row
                       /\ req'[j].new = req[j].new /\ req'[j].found = req[j].found
  <2> SUFFICES ASSUME NEW j \in Slots
               PROVE  /\ req'[j] \in Request /\ req'[j].pc = req[j].pc
                      /\ req'[j].key = req[j].key /\ req'[j].row = req[j].row
                      /\ req'[j].new = req[j].new /\ req'[j].found = req[j].found
    OBVIOUS
  <2>1. req[j] \in Request /\ {c} \in SUBSET Checks
    BY <1>1
  <2> QED
    BY <1>3, <2>1, HeardIs
<1>7. req' \in [Slots -> Request]
  BY <1>2, <1>6
<1>8. \A j \in Slots : Fits(req'[j], entries', breaks', claims')
  <2> SUFFICES ASSUME NEW j \in Slots PROVE Fits(req'[j], entries, breaks, claims)
    BY <1>2
  <2>1. Fits(req[j], entries, breaks, claims)
    BY DEF Shape, Asked
  <2> QED
    BY <2>1, <1>6 DEF Fits
<1>9. \A j, k \in Slots : j # k /\ req'[j].pc # "free" /\ req'[k].pc # "free"
         /\ req'[j].key = req'[k].key => req'[j].key \in torn'
  <2> SUFFICES ASSUME NEW j \in Slots, NEW k \in Slots, j # k, req'[j].pc # "free",
                      req'[k].pc # "free", req'[j].key = req'[k].key
               PROVE  req'[j].key \in torn
    BY <1>2
  <2>1. req[j].pc # "free" /\ req[k].pc # "free" /\ req[j].key = req[k].key
        /\ req'[j].key = req[j].key
    BY <1>6
  <2>2. \A a, b \in Slots : a # b /\ req[a].pc # "free" /\ req[b].pc # "free"
          /\ req[a].key = req[b].key => req[a].key \in torn
    BY DEF Shape, Asked, At
  <2> QED
    BY <2>1, <2>2
<1>10. Asked'
  BY <1>7, <1>8, <1>9 DEF Asked, At
<1>11. "desk" \in DOMAIN counts'
  BY <1>2 DEF Shape
<1> QED
  BY <1>2, <1>3, <1>5, <1>10, <1>11 DEF Shape

-----------------------------------------------------------------------------
(* The invariant.                                                          *)

Open(e, p) == e.staff = p /\ e.out = None

Mine(es, p) == {n \in DOMAIN es : es[n].staff = p}

Total(es, p) == SumOver([n \in Mine(es, p) |-> es[n].hours], Mine(es, p))

\* What p has been credited, and what a shift under way may still add.
Worked(es, now, p) ==
  /\ \A m, n \in DOMAIN es : Open(es[m], p) /\ Open(es[n], p) => m = n
  /\ \A n \in DOMAIN es : Open(es[n], p) =>
       120 * Total(es, p) + 60 <= 200 * es[n].at + 60 * Cardinality(Mine(es, p))
  /\ 120 * Total(es, p) <= 200 * now + 60 * Cardinality(Mine(es, p))

Away(cs, tn, p) ==
  \A m, n \in DOMAIN cs :
    LeaveOf(cs[m], p) /\ LeaveOf(cs[n], p) /\ Claim(m) \notin tn /\ Claim(n) \notin tn /\ m # n
      => Apart(cs[m], cs[n])

Rested(es, bs, p) ==
  \A a, b \in DOMAIN bs :
    bs[a].open /\ bs[b].open /\ bs[a].entry = bs[b].entry /\ es[bs[a].entry].staff = p => a = b

Days(es, bs, cs, now, tn) ==
  \A p \in Staff : Clerk(p) \notin tn => Worked(es, now, p) /\ Away(cs, tn, p) /\ Rested(es, bs, p)

\* What a request has read, and still holds if nobody else is about the same.
KnowsDay(r, es, bs, tn) ==
  r.key \notin tn =>
    /\ r.pc = "in" => \A n \in DOMAIN es : ~Open(es[n], r.key[2])
    /\ r.pc \in {"gate", "out"} => Open(es[r.row], r.key[2])
    /\ r.pc = "rest" => \A b \in DOMAIN bs : ~(bs[b].entry = r.row /\ bs[b].open)

KnowsClaim(r, cs, tn) ==
  r.key \notin tn =>
    /\ r.pc = "claim" /\ r.new.kind = "leave" =>
         \A n \in DOMAIN cs : LeaveOf(cs[n], r.new.staff) /\ Claim(n) \notin tn => Apart(cs[n], r.new)
    /\ r.pc = "decide" => cs[r.row].status = "pending"

KnowsPay(r, cs, tn) ==
  r.pc \in Paying =>
    /\ Sure(r.new)
    /\ \A f \in r.found : cs[f.n].status = "approved" \/ Claim(f.n) \in tn

\* What is owed by whoever is past the gate came behind it, or a payment held it.
Owing == {"unpaid", "partial", "verifying"}

KnowsOwed(r, ks) ==
  r.pc = "out" /\ ~r.force =>
    \A c \in Checks : ks[c].by = r.key[2] /\ ks[c].state \in Owing => c \in r.since

Knows(r, es, bs, cs, ks, tn) ==
  KnowsDay(r, es, bs, tn) /\ KnowsClaim(r, cs, tn) /\ KnowsPay(r, cs, tn) /\ KnowsOwed(r, ks)

Stands(rs, cs, tn) == \A k \in DOMAIN rs :
  /\ \A n \in rs[k].claims : cs[n].status = "approved" \/ Claim(n) \in tn
  /\ rs[k].provisional \/ AtConfirmed(rs[k].at)

OfficeInv ==
  /\ Shape
  /\ Days(entries, breaks, claims, clock, torn)
  /\ Sure(settings)
  /\ Stands(runs, claims, torn)
  /\ AtShifts => \A i \in Slots : Knows(req[i], entries, breaks, claims, checks, torn)

-----------------------------------------------------------------------------
(* Arrivals.                                                               *)

\* A request that has come, and knows what it has read.
Enters(i, r) ==
  /\ r \in Request /\ Asks(i, r) /\ Fits(r, entries, breaks, claims)
  /\ Knows(r, entries, breaks, claims, checks, torn)

\* Who clocks in unmet is not on shift (ClockInArrives).
LEMMA ClockInEnters ==
  ASSUME OfficeInv, NEW i \in Slots, NEW p \in Staff, NEW by, ClockInArrives(i, by, p)
  PROVE  \E r : Enters(i, r)
<1> DEFINE r == [FreeSlot EXCEPT !.op = "in", !.pc = "in", !.key = Clerk(p)]
<1>1. r \in Request /\ r.pc = "in" /\ r.key = Clerk(p)
  <2>1. Clerk(p) \in ShiftKeys
    BY DEF ShiftKeys, Clerks
  <2> QED
    BY <2>1 DEF FreeSlot, Request, Ops, ShiftPcs, News
<1>2. Asks(i, r) /\ OpenEntries(p) = {}
  BY DEF ClockInArrives
<1> HIDE DEF r
<1>3. Fits(r, entries, breaks, claims)
  BY <1>1 DEF Fits, Clerks, Paying
<1>4. Clerk(p) \notin torn => \A n \in DOMAIN entries : ~Open(entries[n], p)
  <2> SUFFICES ASSUME Clerk(p) \notin torn, NEW n \in DOMAIN entries, Open(entries[n], p)
               PROVE  FALSE
    OBVIOUS
  <2>1. \A m \in DOMAIN entries : Open(entries[m], p) => m = n
    BY DEF OfficeInv, Days, Worked
  <2>2. entries[n].at \in Nat
    <3>1. entries[n] \in Entry
      BY DEF OfficeInv, Shape, Rows
    <3> QED
      BY <3>1 DEF Entry
  <2>3. n \in OpenEntries(p)
    BY <2>1, <2>2 DEF OpenEntries, IsOpen, Open
  <2> QED
    BY <2>3, <1>2
<1>5. r.key[2] = p
  BY <1>1 DEF Clerk
<1>6. Knows(r, entries, breaks, claims, checks, torn)
  BY <1>1, <1>4, <1>5 DEF Knows, KnowsDay, KnowsClaim, KnowsPay, KnowsOwed, Paying
<1> QED
  BY <1>1, <1>2, <1>3, <1>6 DEF Enters

\* Who clocks out unmet is on shift, in the row that was read (ClockOutArrives).
LEMMA ClockOutEnters ==
  ASSUME OfficeInv, NEW i \in Slots, NEW p \in Staff, NEW by, NEW force \in BOOLEAN,
         ClockOutArrives(i, by, p, force)
  PROVE  \E r : Enters(i, r)
<1>1. PICK n \in OpenEntries(p) :
        Asks(i, [FreeSlot EXCEPT !.op = "out", !.pc = "gate", !.key = Clerk(p), !.row = n,
                                 !.force = force])
  BY DEF ClockOutArrives
<1> DEFINE r == [FreeSlot EXCEPT !.op = "out", !.pc = "gate", !.key = Clerk(p), !.row = n,
                                 !.force = force]
<1>2. n \in DOMAIN entries /\ n \in Nat /\ Open(entries[n], p)
  <2>1. entries \in Seq(Entry)
    BY DEF OfficeInv, Shape, Rows
  <2>2. n \in DOMAIN entries /\ Open(entries[n], p)
    BY DEF OpenEntries, IsOpen, Open
  <2> QED
    BY <2>1, <2>2
<1>3. r \in Request /\ r.pc = "gate" /\ r.key = Clerk(p) /\ r.row = n
  <2>1. Clerk(p) \in ShiftKeys
    BY DEF ShiftKeys, Clerks
  <2> QED
    BY <1>2, <2>1 DEF FreeSlot, Request, Ops, ShiftPcs, News
<1> HIDE DEF r
<1>4. r.key[2] = p
  BY <1>3 DEF Clerk
<1>5. Fits(r, entries, breaks, claims)
  BY <1>2, <1>3, <1>4 DEF Fits, Clerks, Paying, Open
<1>6. Knows(r, entries, breaks, claims, checks, torn)
  BY <1>2, <1>3, <1>4 DEF Knows, KnowsDay, KnowsClaim, KnowsPay, KnowsOwed, Paying
<1> QED
  BY <1>1, <1>3, <1>5, <1>6 DEF Enters, r

\* A break is asked for in a row of its own clerk (BreakStartArrives).
LEMMA BreakStartEnters ==
  ASSUME OfficeInv, NEW i \in Slots, NEW p \in Staff, BreakStartArrives(i, p)
  PROVE  \E r : Enters(i, r)
<1>1. PICK n \in OpenEntries(p) :
        Asks(i, [FreeSlot EXCEPT !.op = "break", !.pc = "breaks", !.key = Clerk(p), !.row = n])
  BY DEF BreakStartArrives
<1> DEFINE r == [FreeSlot EXCEPT !.op = "break", !.pc = "breaks", !.key = Clerk(p), !.row = n]
<1>2. n \in DOMAIN entries /\ n \in Nat /\ Open(entries[n], p)
  <2>1. entries \in Seq(Entry)
    BY DEF OfficeInv, Shape, Rows
  <2>2. n \in DOMAIN entries /\ Open(entries[n], p)
    BY DEF OpenEntries, IsOpen, Open
  <2> QED
    BY <2>1, <2>2
<1>3. r \in Request /\ r.pc = "breaks" /\ r.key = Clerk(p) /\ r.row = n
  <2>1. Clerk(p) \in ShiftKeys
    BY DEF ShiftKeys, Clerks
  <2> QED
    BY <1>2, <2>1 DEF FreeSlot, Request, Ops, ShiftPcs, News
<1> HIDE DEF r
<1>4. r.key[2] = p
  BY <1>3 DEF Clerk
<1>5. Fits(r, entries, breaks, claims)
  BY <1>2, <1>3, <1>4 DEF Fits, Clerks, Paying, Open
<1>6. Knows(r, entries, breaks, claims, checks, torn)
  BY <1>2, <1>3, <1>4 DEF Knows, KnowsDay, KnowsClaim, KnowsPay, KnowsOwed, Paying
<1> QED
  BY <1>1, <1>3, <1>5, <1>6 DEF Enters, r

\* A break is ended that is there (BreakEndArrives).
LEMMA BreakEndEnters ==
  ASSUME OfficeInv, NEW i \in Slots, NEW p \in Staff, BreakEndArrives(i, p)
  PROVE  \E r : Enters(i, r)
<1>1. PICK b \in DOMAIN breaks :
        Asks(i, [FreeSlot EXCEPT !.op = "back", !.pc = "back", !.key = Clerk(p), !.row = b])
  BY DEF BreakEndArrives
<1> DEFINE r == [FreeSlot EXCEPT !.op = "back", !.pc = "back", !.key = Clerk(p), !.row = b]
<1>2. b \in Nat
  <2>1. breaks \in Seq(Break)
    BY DEF OfficeInv, Shape, Rows
  <2> QED
    BY <2>1
<1>3. r \in Request /\ r.pc = "back" /\ r.row = b
  <2>1. Clerk(p) \in ShiftKeys
    BY DEF ShiftKeys, Clerks
  <2> QED
    BY <1>2, <2>1 DEF FreeSlot, Request, Ops, ShiftPcs, News
<1> HIDE DEF r
<1>4. Fits(r, entries, breaks, claims)
  BY <1>1, <1>3 DEF Fits, Paying
<1>5. Knows(r, entries, breaks, claims, checks, torn)
  BY <1>3 DEF Knows, KnowsDay, KnowsClaim, KnowsPay, KnowsOwed, Paying
<1> QED
  BY <1>1, <1>3, <1>4, <1>5 DEF Enters, r

\* A classification brings a result for a row that is there (ClassifyArrives).
LEMMA ClassifyEnters ==
  ASSUME OfficeInv, NEW i \in Slots, NEW n \in DOMAIN entries, NEW start \in {None, 0},
         NEW rates \in RatesRead, ClassifyArrives(i, n, start, rates)
  PROVE  \E r : Enters(i, r)
<1> DEFINE new == ClassifyAttendance([onLeave |-> FALSE, in |-> Time(entries[n].at),
                    out |-> entries[n].out, hours |-> entries[n].hours, start |-> start,
                    end |-> None], rates)
           r == [FreeSlot EXCEPT !.op = "classify", !.pc = "classify", !.row = n, !.new = new]
<1>1. Asks(i, r)
  BY DEF ClassifyArrives
<1>2. n \in Nat /\ entries[n] \in Entry /\ settings \in Setting
  BY DEF OfficeInv, Shape, Rows
<1>3. entries[n].at \in Nat /\ entries[n].out \in Int /\ entries[n].hours \in Int
      /\ rates \in Rates
  BY <1>2, RatesAssumption DEF Entry, Setting, RatesRead
<1>4. new \in Result
  <2>1. Time(entries[n].at) \in Nat
    BY <1>3, DayParts, DayAssumption
  <2> QED
    BY <1>3, <2>1, ClassifiedType
<1>5. new \in News
  BY <1>4 DEF News
<1> HIDE DEF new
<1>6. r \in Request /\ r.pc = "classify" /\ r.row = n /\ r.new = new
  <2>1. House \in ShiftKeys
    BY DEF ShiftKeys
  <2> QED
    BY <1>2, <1>5, <2>1 DEF FreeSlot, Request, Ops, ShiftPcs
<1> HIDE DEF r
<1>7. Fits(r, entries, breaks, claims)
  BY <1>4, <1>6 DEF Fits, Paying
<1>8. Knows(r, entries, breaks, claims, checks, torn)
  BY <1>6 DEF Knows, KnowsDay, KnowsClaim, KnowsPay, KnowsOwed, Paying
<1> QED
  BY <1>1, <1>6, <1>7, <1>8 DEF Enters

\* Leave that is asked for unmet clashes with none (ClaimArrives).
LEMMA ClaimEnters ==
  ASSUME OfficeInv, NEW i \in Slots, NEW p \in Staff, NEW c \in ClaimRow, c.staff = p,
         ClaimArrives(i, p, c)
  PROVE  \E r : Enters(i, r)
<1> DEFINE r == [FreeSlot EXCEPT !.op = "claim", !.pc = "claim", !.key = Clerk(p), !.new = c]
<1>1. Asks(i, r) /\ (c.kind = "leave" => Clashes(p, c) = {})
  BY DEF ClaimArrives
<1>2. r \in Request /\ r.pc = "claim" /\ r.key = Clerk(p) /\ r.new = c
  <2>1. Clerk(p) \in ShiftKeys
    BY DEF ShiftKeys, Clerks
  <2>2. c \in News
    BY DEF News
  <2> QED
    BY <2>1, <2>2 DEF FreeSlot, Request, Ops, ShiftPcs
<1> HIDE DEF r
<1>3. Fits(r, entries, breaks, claims)
  BY <1>2 DEF Fits, Paying
<1>4. c.kind = "leave" => \A n \in DOMAIN claims : LeaveOf(claims[n], p) => Apart(claims[n], c)
  <2> SUFFICES ASSUME c.kind = "leave", NEW n \in DOMAIN claims, LeaveOf(claims[n], p)
               PROVE  Apart(claims[n], c)
    OBVIOUS
  <2>1. claims[n] \in ClaimRow
    BY DEF OfficeInv, Shape, Rows
  <2>2. claims[n].status \in {"pending", "approved"} /\ claims[n].from \in Nat
        /\ claims[n].to \in Nat /\ c.from \in Nat /\ c.to \in Nat
    BY <2>1 DEF ClaimRow, Statuses, LeaveOf
  <2>3. n \notin Clashes(p, c)
    BY <1>1
  <2>4. ~(claims[n].from <= c.to /\ c.from <= claims[n].to)
    BY <2>2, <2>3 DEF Clashes, LeaveOf
  <2> QED
    BY <2>2, <2>4 DEF Apart
<1>5. Knows(r, entries, breaks, claims, checks, torn)
  BY <1>2, <1>4 DEF Knows, KnowsDay, KnowsClaim, KnowsPay, KnowsOwed, Paying
<1> QED
  BY <1>1, <1>2, <1>3, <1>5 DEF Enters

\* A decision unmet is on a claim that is pending (DecideArrives).
LEMMA DecideEnters ==
  ASSUME OfficeInv, NEW i \in Slots, NEW by \in Managers, NEW n \in DOMAIN claims,
         NEW status \in {"approved", "rejected"}, DecideArrives(i, by, n, status)
  PROVE  \E r : Enters(i, r)
<1> DEFINE r == [FreeSlot EXCEPT !.op = "decide", !.pc = "decide", !.key = Claim(n), !.row = n,
                                 !.new = [status |-> status, by |-> by]]
<1>1. Asks(i, r) /\ claims[n].status = "pending" /\ by # claims[n].staff
  BY DEF DecideArrives, Decidable
<1>2. n \in Nat
  BY DEF OfficeInv, Shape, Rows
<1>3. r \in Request /\ r.pc = "decide" /\ r.key = Claim(n) /\ r.row = n
      /\ r.new = [status |-> status, by |-> by] /\ r.new \in Verdict
  <2>1. Claim(n) \in ShiftKeys
    BY <1>2 DEF ShiftKeys
  <2>2. [status |-> status, by |-> by] \in Verdict
    BY StaffAssumption DEF Verdict, Statuses
  <2>3. [status |-> status, by |-> by] \in News
    BY <2>2 DEF News
  <2> QED
    BY <1>2, <2>1, <2>2, <2>3 DEF FreeSlot, Request, Ops, ShiftPcs
<1> HIDE DEF r
<1>4. Fits(r, entries, breaks, claims)
  BY <1>1, <1>3 DEF Fits, Paying
<1>5. Knows(r, entries, breaks, claims, checks, torn)
  BY <1>1, <1>3 DEF Knows, KnowsDay, KnowsClaim, KnowsPay, KnowsOwed, Paying
<1> QED
  BY <1>1, <1>3, <1>4, <1>5 DEF Enters

\* A payroll run comes with settings as they are, or the defaults (PayrollArrives).
LEMMA PayrollEnters ==
  ASSUME OfficeInv, NEW i \in Slots, NEW loaded \in {settings, Unread}, PayrollArrives(i, loaded)
  PROVE  \E r : Enters(i, r)
<1> DEFINE r == [FreeSlot EXCEPT !.op = "payroll", !.pc = "rows", !.new = loaded,
                                 !.todo = {"overtime", "adjustment"}]
<1>1. Asks(i, r)
  BY DEF PayrollArrives
<1>2. loaded \in Setting /\ Sure(loaded)
  <2>1. Unread \in Setting /\ Sure(Unread)
    <3>1. {FALSE, TRUE} = BOOLEAN /\ DefaultRates \in Rates
      BY RatesAssumption
    <3>2. Unread.behind = TRUE
      BY Zenon DEF Unread
    <3> QED
      BY <3>1, <3>2, Zenon DEF Unread, Setting, Sure, AtConfirmed
  <2> QED
    BY <2>1, Zenon DEF OfficeInv, Shape, Rows
<1>3. r \in Request /\ r.pc = "rows" /\ r.new = loaded /\ r.found = {}
  <2>1. House \in ShiftKeys
    BY DEF ShiftKeys
  <2>2. loaded \in News
    BY <1>2 DEF News
  <2>3. {"overtime", "adjustment"} \in SUBSET Kinds
    BY DEF Kinds
  <2> QED
    BY <2>1, <2>2, <2>3 DEF FreeSlot, Request, Ops, ShiftPcs
<1> HIDE DEF r
<1>4. Fits(r, entries, breaks, claims)
  BY <1>2, <1>3 DEF Fits, Paying
<1>5. Knows(r, entries, breaks, claims, checks, torn)
  BY <1>2, <1>3 DEF Knows, KnowsDay, KnowsClaim, KnowsPay, KnowsOwed, Paying
<1> QED
  BY <1>1, <1>3, <1>4, <1>5 DEF Enters

\* A confirmation comes (ConfirmArrives).
LEMMA ConfirmEnters ==
  ASSUME NEW i \in Slots, ConfirmArrives(i)
  PROVE  \E r : Enters(i, r)
<1> DEFINE r == [FreeSlot EXCEPT !.op = "confirm", !.pc = "confirm"]
<1>1. Asks(i, r)
  BY DEF ConfirmArrives
<1>2. r \in Request /\ r.pc = "confirm"
  <2>1. House \in ShiftKeys
    BY DEF ShiftKeys
  <2> QED
    BY <2>1 DEF FreeSlot, Request, Ops, ShiftPcs, News
<1> HIDE DEF r
<1>3. Fits(r, entries, breaks, claims)
  BY <1>2 DEF Fits, Paying
<1>4. Knows(r, entries, breaks, claims, checks, torn)
  BY <1>2 DEF Knows, KnowsDay, KnowsClaim, KnowsPay, KnowsOwed, Paying
<1> QED
  BY <1>1, <1>2, <1>3, <1>4 DEF Enters

\* A change of rates comes (RateArrives).
LEMMA RateEnters ==
  ASSUME NEW i \in Slots, NEW rates \in Rates, RateArrives(i, rates)
  PROVE  \E r : Enters(i, r)
<1> DEFINE r == [FreeSlot EXCEPT !.op = "rate", !.pc = "rate", !.new = rates]
<1>1. Asks(i, r)
  BY DEF RateArrives
<1>2. r \in Request /\ r.pc = "rate" /\ r.new = rates
  <2>1. House \in ShiftKeys
    BY DEF ShiftKeys
  <2>2. rates \in News
    BY DEF News
  <2> QED
    BY <2>1, <2>2 DEF FreeSlot, Request, Ops, ShiftPcs
<1> HIDE DEF r
<1>3. Fits(r, entries, breaks, claims)
  BY <1>2 DEF Fits, Paying
<1>4. Knows(r, entries, breaks, claims, checks, torn)
  BY <1>2 DEF Knows, KnowsDay, KnowsClaim, KnowsPay, KnowsOwed, Paying
<1> QED
  BY <1>1, <1>2, <1>3, <1>4 DEF Enters

\* The claims that a member of staff may make.
LEMMA ClaimTypes ==
  ASSUME OfficeInv, NEW p \in Staff,
         NEW c \in OvertimeOf(p) \cup AdjustmentsOf(p)
                   \cup {NewClaim("leave", p, 0, FALSE, l.from, l.to) : l \in Leaves}
  PROVE  c \in ClaimRow /\ c.staff = p
<1>1. \A kind \in Kinds, amount \in Int, taxable \in BOOLEAN, from, to \in Nat :
        LET n == NewClaim(kind, p, amount, taxable, from, to) IN n \in ClaimRow /\ n.staff = p
  BY DEF NewClaim, ClaimRow, Statuses
<1>2. Date(clock) \in Nat
  BY DayParts DEF OfficeInv, Shape, Rows
<1>3. CASE c \in OvertimeOf(p)
  <2>1. PICK s \in RatesRead : c = NewClaim("overtime", p, OvertimeAmount(100, Base, "normal", s),
                                            TRUE, Date(clock), Date(clock))
    BY <1>3 DEF OvertimeOf
  <2> DEFINE amount == OvertimeAmount(100, Base, "normal", s)
  <2>2. amount \in Int
    <3>0. s \in Rates
      BY RatesAssumption DEF OfficeInv, Shape, Rows, Setting, RatesRead
    <3> DEFINE m == s.multipliers["normal"]
               k == s.monthlyHours
    <3>1. m \in Int /\ k \in Int /\ Base \in Nat
      BY <3>0, RatesAssumption, StaffAssumption
    <3>2. amount = IF k <= 0 THEN 0 ELSE Round2(100 * Base * m, 1000 * k)
      BY DEF OvertimeAmount
    <3> HIDE DEF m, k, amount
    <3>3. CASE k <= 0
      BY <3>1, <3>2, <3>3
    <3>4. CASE k > 0
      <4>1. 100 * Base * m \in Int /\ 1000 * k \in Nat \ {0}
        BY <3>1, <3>4
      <4>2. Round2(100 * Base * m, 1000 * k) \in Int
        BY <4>1, RoundIs
      <4> QED
        BY <3>1, <3>2, <3>4, <4>2
    <3> QED
      BY <3>1, <3>3, <3>4
  <2> HIDE DEF amount
  <2> QED
    BY <1>1, <1>2, <2>1, <2>2 DEF Kinds, amount
<1>4. CASE c \in AdjustmentsOf(p)
  BY <1>1, <1>2, <1>4 DEF AdjustmentsOf, Kinds
<1>5. CASE c \in {NewClaim("leave", p, 0, FALSE, l.from, l.to) : l \in Leaves}
  <2>1. PICK l \in Leaves : c = NewClaim("leave", p, 0, FALSE, l.from, l.to)
    BY <1>5
  <2>2. l.from \in Nat /\ l.to \in Nat
    BY LeavesAssumption
  <2>3. "leave" \in Kinds /\ 0 \in Int /\ FALSE \in BOOLEAN
    BY DEF Kinds
  <2> DEFINE from == l.from
             to == l.to
  <2>4. from \in Nat /\ to \in Nat /\ c = NewClaim("leave", p, 0, FALSE, from, to)
    BY <2>1, <2>2
  <2> HIDE DEF from, to
  <2> QED
    BY <1>1, <2>3, <2>4
<1> QED
  BY <1>3, <1>4, <1>5

\* Whatever arrives at the two desks.
LEMMA AllEnter ==
  ASSUME OfficeInv, NEW i \in Slots, ShiftsArrive(i)
  PROVE  \E r : Enters(i, r)
<1>1. CASE ClockArrives(i)
  BY <1>1, ClockInEnters, ClockOutEnters, BreakStartEnters, BreakEndEnters, ClassifyEnters
     DEF ClockArrives
<1>2. CASE ClaimsArrive(i)
  <2>1. CASE \E p \in Staff : \E c \in OvertimeOf(p) \cup AdjustmentsOf(p)
               \cup {NewClaim("leave", p, 0, FALSE, l.from, l.to) : l \in Leaves} :
               ClaimArrives(i, p, c)
    BY <2>1, ClaimTypes, ClaimEnters
  <2>2. CASE \E by \in Managers, n \in DOMAIN claims, status \in {"approved", "rejected"} :
               DecideArrives(i, by, n, status)
    BY <2>2, DecideEnters
  <2> QED
    BY <1>2, <2>1, <2>2 DEF ClaimsArrive
<1>3. CASE \/ ConfirmArrives(i) \/ \E rates \in Rates : RateArrives(i, rates)
           \/ \E loaded \in {settings, Unread} : PayrollArrives(i, loaded)
  BY <1>3, PayrollEnters, ConfirmEnters, RateEnters
<1> QED
  BY <1>1, <1>2, <1>3 DEF ShiftsArrive

-----------------------------------------------------------------------------
(* What a person has been credited.                                        *)

\* The rows of one person are finitely many, and their hours add up to a number.
LEMMA MineIs ==
  ASSUME NEW es \in Seq(Entry), NEW p
  PROVE  /\ IsFiniteSet(Mine(es, p)) /\ Cardinality(Mine(es, p)) \in Nat
         /\ \A n \in Mine(es, p) : es[n].hours \in Nat
         /\ Total(es, p) \in Nat
<1>1. IsFiniteSet(Mine(es, p))
  <2>1. DOMAIN es = 1 .. Len(es) /\ Len(es) \in Nat
    OBVIOUS
  <2>2. IsFiniteSet(DOMAIN es)
    BY <2>1, FS_Interval
  <2>3. Mine(es, p) \in SUBSET DOMAIN es
    BY DEF Mine
  <2> QED
    BY <2>2, <2>3, FS_Subset
<1>2. \A n \in Mine(es, p) : es[n].hours \in Nat
  <2> SUFFICES ASSUME NEW n \in Mine(es, p) PROVE es[n].hours \in Nat
    OBVIOUS
  <2>1. es[n] \in Entry
    BY DEF Mine
  <2> QED
    BY <2>1 DEF Entry
<1>3. Total(es, p) \in Nat
  BY <1>1, <1>2, SumNat DEF Total
<1> QED
  BY <1>1, <1>2, <1>3, FS_CardinalityType

\* A person's total follows the rows: one that comes ...
LEMMA TotalAppended ==
  ASSUME NEW es \in Seq(Entry), NEW x \in Entry, x.hours = 0, NEW p
  PROVE  LET es2 == Append(es, x)
         IN /\ Total(es2, p) = Total(es, p)
            /\ Cardinality(Mine(es2, p)) = Cardinality(Mine(es, p)) + (IF x.staff = p THEN 1 ELSE 0)
<1> DEFINE es2 == Append(es, x)
           k == Len(es) + 1
           M == Mine(es, p)
           f == [n \in M |-> es[n].hours]
           f2 == [n \in Mine(es2, p) |-> es2[n].hours]
<1>1. /\ es2 \in Seq(Entry) /\ DOMAIN es = 1 .. Len(es) /\ Len(es) \in Nat
      /\ DOMAIN es2 = 1 .. k /\ es2[k] = x /\ k \notin DOMAIN es
      /\ \A n \in DOMAIN es : es2[n] = es[n]
  BY Appended
<1> HIDE DEF es2, k
<1>2. DOMAIN es2 = DOMAIN es \cup {k}
  BY <1>1 DEF k
<1>3. Mine(es2, p) = IF x.staff = p THEN M \cup {k} ELSE M
  BY <1>1, <1>2 DEF Mine
<1>4. IsFiniteSet(M) /\ k \notin M /\ \A n \in M : es[n].hours \in Nat /\ es2[n] = es[n]
  BY <1>1, MineIs DEF Mine
<1>5. SumOver(f2, M) = SumOver(f, M)
  <2>1. \A n \in M : f2[n] = f[n]
    BY <1>3, <1>4
  <2> HIDE DEF f, f2, M
  <2> QED
    BY <2>1, <1>4, SumSame
<1>6. SumOver(f, M) = Total(es, p) /\ SumOver(f2, Mine(es2, p)) = Total(es2, p)
  BY DEF Total
<1>7. Total(es, p) \in Nat
  BY MineIs
<1>8. CASE x.staff = p
  <2>1. f2[k] = 0 /\ \A n \in M \cup {k} : f2[n] \in Int
    BY <1>1, <1>3, <1>4, <1>8
  <2>2. SumOver(f2, M \cup {k}) = f2[k] + SumOver(f2, M)
    <3> HIDE DEF f2, M
    <3> QED
      BY <2>1, <1>4, SumAdd
  <2>3. Cardinality(M \cup {k}) = Cardinality(M) + 1
    BY <1>4, FS_AddElement
  <2> HIDE DEF f, f2, M
  <2> QED
    BY <2>1, <2>2, <2>3, <1>3, <1>5, <1>6, <1>7, <1>8 DEF es2, M
<1>9. CASE x.staff # p
  <2> HIDE DEF f, f2
  <2>1. Cardinality(M) \in Nat
    BY MineIs
  <2> QED
    BY <2>1, <1>3, <1>5, <1>6, <1>9 DEF es2
<1> QED
  BY <1>8, <1>9

\* ... and one whose hours change.
LEMMA TotalChanged ==
  ASSUME NEW es \in Seq(Entry), NEW es2 \in Seq(Entry), DOMAIN es2 = DOMAIN es,
         NEW k \in DOMAIN es, NEW p,
         \A n \in DOMAIN es : es2[n].staff = es[n].staff /\ (n # k => es2[n].hours = es[n].hours)
  PROVE  /\ Mine(es2, p) = Mine(es, p)
         /\ es[k].staff = p => Total(es2, p) = Total(es, p) + (es2[k].hours - es[k].hours)
         /\ es[k].staff # p => Total(es2, p) = Total(es, p)
<1> DEFINE M == Mine(es, p)
           f == [n \in M |-> es[n].hours]
           f2 == [n \in M |-> es2[n].hours]
<1>1. Mine(es2, p) = M
  BY DEF Mine
<1>2. IsFiniteSet(M) /\ \A n \in M : es[n].hours \in Nat /\ es2[n].hours \in Nat
  BY <1>1, MineIs
<1>3. SumOver(f, M) = Total(es, p) /\ SumOver(f2, M) = Total(es2, p)
  BY <1>1 DEF Total
<1>4. \A n \in M : f[n] \in Int /\ f2[n] \in Int
  BY <1>2
<1>5. \A n \in M \ {k} : f[n] = f2[n]
  BY DEF Mine
<1>6. CASE es[k].staff = p
  <2>1. k \in M /\ f[k] = es[k].hours /\ f2[k] = es2[k].hours
    BY <1>6 DEF Mine
  <2> HIDE DEF f, f2, M
  <2>2. SumOver(f2, M) = SumOver(f, M) + (f2[k] - f[k])
    BY <2>1, <1>2, <1>4, <1>5, SumChange
  <2> QED
    BY <2>1, <2>2, <1>1, <1>3, <1>6 DEF M
<1>7. CASE es[k].staff # p
  <2>1. \A n \in M : f2[n] = f[n]
    BY <1>5, <1>7 DEF Mine
  <2> HIDE DEF f, f2, M
  <2>2. SumOver(f2, M) = SumOver(f, M)
    BY <2>1, <1>2, SumSame
  <2> QED
    BY <2>2, <1>1, <1>3, <1>7 DEF M
<1> QED
  BY <1>6, <1>7

\* Clocking in, of somebody who is not on shift.
LEMMA WorkedIn ==
  ASSUME NEW es \in Seq(Entry), NEW now \in Nat, NEW p \in Staff, NEW q \in Staff,
         Worked(es, now, p), p = q => \A n \in DOMAIN es : ~Open(es[n], p)
  PROVE  Worked(Append(es, NewEntry(q, now)), now, p)
<1> DEFINE x == NewEntry(q, now)
           es2 == Append(es, x)
           k == Len(es) + 1
           c == Cardinality(Mine(es, p))
<1>1. x \in Entry /\ x.hours = 0 /\ x.staff = q /\ x.at = now
  BY NewEntryIs
<1> HIDE DEF x
<1>2. /\ es2 \in Seq(Entry) /\ DOMAIN es = 1 .. Len(es) /\ Len(es) \in Nat
      /\ DOMAIN es2 = 1 .. k /\ es2[k] = x /\ k \notin DOMAIN es
      /\ \A n \in DOMAIN es : es2[n] = es[n]
  BY <1>1, Appended
<1>3. Total(es2, p) = Total(es, p) /\ Cardinality(Mine(es2, p)) = c + (IF q = p THEN 1 ELSE 0)
  BY <1>1, TotalAppended
<1>4. Total(es, p) \in Nat /\ c \in Nat
  BY MineIs
<1>5. DOMAIN es2 = DOMAIN es \cup {k}
  BY <1>2
<1> HIDE DEF es2, k, c
<1>6. /\ \A m, n \in DOMAIN es : Open(es[m], p) /\ Open(es[n], p) => m = n
      /\ \A n \in DOMAIN es : Open(es[n], p) => 120 * Total(es, p) + 60 <= 200 * es[n].at + 60 * c
      /\ 120 * Total(es, p) <= 200 * now + 60 * c
  BY DEF Worked, c
<1>7. \A n \in DOMAIN es2 : Open(es2[n], p) => (n \in DOMAIN es /\ p # q) \/ (n = k /\ p = q)
  BY <1>1, <1>2, <1>5 DEF Open
<1>8. \A n \in DOMAIN es : es[n].at \in Nat
  <2>1. \A n \in DOMAIN es : es[n] \in Entry
    OBVIOUS
  <2> QED
    BY <2>1 DEF Entry
<1>9. \A m, n \in DOMAIN es2 : Open(es2[m], p) /\ Open(es2[n], p) => m = n
  BY <1>2, <1>6, <1>7
<1>10. ASSUME NEW n \in DOMAIN es2, Open(es2[n], p)
       PROVE  120 * Total(es2, p) + 60 <= 200 * es2[n].at + 60 * Cardinality(Mine(es2, p))
  <2>1. CASE n \in DOMAIN es /\ p # q
    BY <2>1, <1>2, <1>3, <1>4, <1>6, <1>8, <1>10
  <2>2. CASE n = k /\ p = q
    BY <2>2, <1>1, <1>2, <1>3, <1>4, <1>6
  <2> QED
    BY <2>1, <2>2, <1>7, <1>10
<1>11. 120 * Total(es2, p) <= 200 * now + 60 * Cardinality(Mine(es2, p))
  BY <1>3, <1>4, <1>6
<1> QED
  BY <1>9, <1>10, <1>11 DEF Worked, es2, x

\* A shift of h, begun at a, on top of the t that the others count for.
OnTop(t, h, a, now, c) ==
  /\ t \in Nat /\ h \in Nat /\ a \in Nat /\ now \in Nat /\ c \in Nat
  /\ 120 * t + 60 <= 200 * a + 60 * c /\ 120 * h <= 200 * (now - a) + 60

\* Its credit stays within what went by.
LEMMA Credited ==
  ASSUME NEW t, NEW h, NEW a, NEW now, NEW c, OnTop(t, h, a, now, c)
  PROVE  120 * (t + h) <= 200 * now + 60 * c
BY DEF OnTop

\* Clocking out: what the shift adds is what went by since it began.
LEMMA WorkedOut ==
  ASSUME NEW es \in Seq(Entry), NEW now \in Nat, NEW p \in Staff, Worked(es, now, p),
         NEW k \in DOMAIN es, es[k].at <= now, Ended(es[k], now) \in Entry,
         es[k].staff = p => es[k].out = None /\ es[k].hours = 0
  PROVE  Worked([es EXCEPT ![k] = Ended(es[k], now)], now, p)
<1> DEFINE x == Ended(es[k], now)
           es2 == [es EXCEPT ![k] = x]
           h == Hours(MinutesWorked(Time(es[k].at), Time(now)))
           c == Cardinality(Mine(es, p))
<1>1. es[k] \in Entry /\ es[k].at \in Nat
  <2>1. es[k] \in Entry
    OBVIOUS
  <2> QED
    BY <2>1 DEF Entry
<1>2. h \in Nat /\ 120 * h <= 200 * (now - es[k].at) + 60
  <2> DEFINE m == MinutesWorked(Time(es[k].at), Time(now))
  <2>1. m \in 0 .. now - es[k].at
    BY <1>1, MinutesAreWorked
  <2>2. m \in Nat /\ m <= now - es[k].at
    BY <2>1, <1>1
  <2> HIDE DEF m
  <2>3. Hours(m) \in Nat /\ 120 * Hours(m) <= 200 * m + 60
    BY <2>2, HoursAre
  <2> DEFINE g == Hours(m)
             d == now - es[k].at
  <2>4. g \in Nat /\ 120 * g <= 200 * m + 60 /\ d \in Int /\ m \in Nat /\ m <= d
    BY <2>2, <2>3, <1>1
  <2> HIDE DEF g, d
  <2>5. 120 * g <= 200 * d + 60
    BY <2>4
  <2> QED
    BY <2>4, <2>5 DEF g, d, m
<1> HIDE DEF h
<1>3. x.staff = es[k].staff /\ x.at = es[k].at /\ x.hours = h /\ x.out = Time(now)
  BY <1>1 DEF Ended, Entry, h
<1>4. x.out # None
  BY <1>3, DayParts DEF None
<1> HIDE DEF x
<1>5. /\ es2 \in Seq(Entry) /\ DOMAIN es2 = DOMAIN es
      /\ \A n \in DOMAIN es : es2[n] = IF n = k THEN x ELSE es[n]
  BY Replaced DEF x
<1> HIDE DEF es2
<1>6. \A n \in DOMAIN es : es2[n].staff = es[n].staff /\ (n # k => es2[n].hours = es[n].hours)
  BY <1>3, <1>5
<1>7. /\ Mine(es2, p) = Mine(es, p)
      /\ es[k].staff = p => Total(es2, p) = Total(es, p) + (es2[k].hours - es[k].hours)
      /\ es[k].staff # p => Total(es2, p) = Total(es, p)
  BY <1>5, <1>6, TotalChanged
<1>8. es2[k].hours = h
  BY <1>3, <1>5
<1>9. Total(es, p) \in Nat /\ c \in Nat
  BY MineIs
<1> HIDE DEF c
<1>10. /\ \A m, n \in DOMAIN es : Open(es[m], p) /\ Open(es[n], p) => m = n
       /\ \A n \in DOMAIN es : Open(es[n], p) => 120 * Total(es, p) + 60 <= 200 * es[n].at + 60 * c
       /\ 120 * Total(es, p) <= 200 * now + 60 * c
  BY DEF Worked, c
<1>11. \A n \in DOMAIN es : Open(es2[n], p) => n # k /\ es2[n] = es[n] /\ Open(es[n], p)
  BY <1>4, <1>5 DEF Open
<1>12. CASE es[k].staff = p
  <2>1. Open(es[k], p)
    BY <1>12 DEF Open
  <2>2. \A n \in DOMAIN es : ~Open(es2[n], p)
    BY <2>1, <1>10, <1>11
  <2>3. 120 * Total(es, p) + 60 <= 200 * es[k].at + 60 * c
    BY <2>1, <1>10
  <2>4. Total(es2, p) = Total(es, p) + h
    BY <1>2, <1>7, <1>8, <1>9, <1>12
  <2> DEFINE t == Total(es, p)
             a == es[k].at
  <2>5. 120 * (t + h) <= 200 * now + 60 * c
    <3>1. t \in Nat /\ a \in Nat /\ h \in Nat /\ c \in Nat /\ 120 * t + 60 <= 200 * a + 60 * c
          /\ 120 * h <= 200 * (now - a) + 60
      BY <2>3, <1>1, <1>2, <1>9
    <3>2. OnTop(t, h, a, now, c)
      BY <3>1 DEF OnTop
    <3> HIDE DEF t, a
    <3> QED
      BY <3>2, Credited
  <2> QED
    BY <2>2, <2>4, <2>5, <1>5, <1>7 DEF Worked, es2, x, c
<1>13. CASE es[k].staff # p
  <2>1. \A n \in DOMAIN es2 : Open(es2[n], p) =>
          120 * Total(es2, p) + 60 <= 200 * es2[n].at + 60 * Cardinality(Mine(es2, p))
    BY <1>5, <1>7, <1>10, <1>11, <1>13 DEF c
  <2>2. \A m, n \in DOMAIN es2 : Open(es2[m], p) /\ Open(es2[n], p) => m = n
    BY <1>5, <1>10, <1>11
  <2>3. 120 * Total(es2, p) <= 200 * now + 60 * Cardinality(Mine(es2, p))
    BY <1>7, <1>10, <1>13 DEF c
  <2> QED
    BY <2>1, <2>2, <2>3 DEF Worked, es2, x
<1> QED
  BY <1>12, <1>13

\* A classification changes neither times nor hours.
LEMMA WorkedSame ==
  ASSUME NEW es \in Seq(Entry), NEW es2 \in Seq(Entry), NEW now \in Nat, NEW p,
         DOMAIN es2 = DOMAIN es,
         \A n \in DOMAIN es : es2[n].staff = es[n].staff /\ es2[n].at = es[n].at
                              /\ es2[n].out = es[n].out /\ es2[n].hours = es[n].hours,
         Worked(es, now, p)
  PROVE  Worked(es2, now, p)
<1>1. Mine(es2, p) = Mine(es, p)
  BY DEF Mine
<1>2. Total(es2, p) = Total(es, p)
  <2> DEFINE f == [n \in Mine(es, p) |-> es[n].hours]
             f2 == [n \in Mine(es, p) |-> es2[n].hours]
  <2>1. f = f2
    BY DEF Mine
  <2> QED
    BY <2>1, <1>1 DEF Total
<1>3. \A n \in DOMAIN es : Open(es2[n], p) <=> Open(es[n], p)
  BY DEF Open
<1> QED
  BY <1>1, <1>2, <1>3 DEF Worked

\* Time goes by.
LEMMA WorkedLater ==
  ASSUME NEW es \in Seq(Entry), NEW now \in Nat, NEW p, Worked(es, now, p)
  PROVE  Worked(es, now + 1, p)
<1>1. Total(es, p) \in Nat /\ Cardinality(Mine(es, p)) \in Nat
  BY MineIs
<1> QED
  BY <1>1 DEF Worked

-----------------------------------------------------------------------------
(* What a request knows stays true while others write.                     *)

\* A request is not about this, or two met over it.
Clear(q, key, tn) == q.pc = "free" \/ q.key # key \/ q.key \in tn

\* What two have met over is known no more.
LEMMA KnowsLess ==
  ASSUME NEW r, NEW es, NEW bs, NEW cs, NEW ks, NEW tn, NEW tn2, tn \subseteq tn2,
         Knows(r, es, bs, cs, ks, tn)
  PROVE  Knows(r, es, bs, cs, ks, tn2)
<1>1. KnowsDay(r, es, bs, tn2)
  BY DEF Knows, KnowsDay
<1>2. KnowsClaim(r, cs, tn2)
  BY DEF Knows, KnowsClaim
<1>3. KnowsPay(r, cs, tn2)
  BY DEF Knows, KnowsPay
<1>4. KnowsOwed(r, ks)
  BY DEF Knows
<1> QED
  BY <1>1, <1>2, <1>3, <1>4 DEF Knows

\* A request whose step asks for no knowledge.
LEMMA KnowsNothing ==
  ASSUME NEW r, NEW es, NEW bs, NEW cs, NEW ks, NEW tn, r.pc \in {"free", "flag"}
  PROVE  Knows(r, es, bs, cs, ks, tn)
BY DEF Knows, KnowsDay, KnowsClaim, KnowsPay, KnowsOwed, Paying

\* The key of a request is a clerk's.
LEMMA ClerkKey ==
  ASSUME NEW key \in Clerks PROVE key = Clerk(key[2]) /\ key[2] \in Staff
BY DEF Clerks, Clerk

\* Entries come and change, but for the ends of those that it is about.
LEMMA KnowsEntries ==
  ASSUME NEW q, NEW es, NEW es2, NEW bs, NEW cs, NEW ks, NEW tn,
         Fits(q, es, bs, cs), Knows(q, es, bs, cs, ks, tn),
         \A n \in DOMAIN es : n \in DOMAIN es2 /\ es2[n].staff = es[n].staff,
         \A n \in DOMAIN es2 : \/ n \in DOMAIN es /\ es2[n].out = es[n].out
                               \/ Clear(q, Clerk(es2[n].staff), tn)
  PROVE  Knows(q, es2, bs, cs, ks, tn)
<1>1. KnowsDay(q, es, bs, tn)
  BY DEF Knows
<1>2. KnowsDay(q, es2, bs, tn)
  <2> SUFFICES ASSUME q.key \notin tn
               PROVE  /\ q.pc = "in" => \A n \in DOMAIN es2 : ~Open(es2[n], q.key[2])
                      /\ q.pc \in {"gate", "out"} => Open(es2[q.row], q.key[2])
                      /\ q.pc = "rest" => \A b \in DOMAIN bs : ~(bs[b].entry = q.row /\ bs[b].open)
    BY DEF KnowsDay
  <2>1. q.pc = "rest" => \A b \in DOMAIN bs : ~(bs[b].entry = q.row /\ bs[b].open)
    BY <1>1 DEF KnowsDay
  <2>2. ASSUME q.pc = "in", NEW n \in DOMAIN es2, Open(es2[n], q.key[2]) PROVE FALSE
    <3>1. q.key = Clerk(q.key[2])
      BY <2>2, ClerkKey DEF Fits
    <3>2. ~Clear(q, Clerk(es2[n].staff), tn)
      BY <2>2, <3>1 DEF Clear, Open
    <3>3. n \in DOMAIN es /\ es2[n].out = es[n].out /\ es2[n].staff = es[n].staff
      BY <3>2
    <3> QED
      BY <1>1, <2>2, <3>3 DEF KnowsDay, Open
  <2>3. ASSUME q.pc \in {"gate", "out"} PROVE Open(es2[q.row], q.key[2])
    <3>1. q.key = Clerk(q.key[2]) /\ q.row \in DOMAIN es /\ es[q.row].staff = q.key[2]
      BY <2>3, ClerkKey DEF Fits
    <3>2. q.row \in DOMAIN es2 /\ es2[q.row].staff = q.key[2]
      BY <3>1
    <3>3. ~Clear(q, Clerk(es2[q.row].staff), tn)
      BY <2>3, <3>1, <3>2 DEF Clear
    <3> QED
      BY <1>1, <2>3, <3>2, <3>3 DEF KnowsDay, Open
  <2> QED
    BY <2>1, <2>2, <2>3
<1> QED
  BY <1>2 DEF Knows

\* Breaks come and end, but for new ones on the entry that it is about.
LEMMA KnowsBreaks ==
  ASSUME NEW q, NEW es, NEW bs, NEW bs2, NEW cs, NEW ks, NEW tn,
         Fits(q, es, bs, cs), Knows(q, es, bs, cs, ks, tn),
         \A b \in DOMAIN bs2 : bs2[b].open =>
           \/ b \in DOMAIN bs /\ bs[b].open /\ bs2[b].entry = bs[b].entry
           \/ Clear(q, Clerk(es[bs2[b].entry].staff), tn)
  PROVE  Knows(q, es, bs2, cs, ks, tn)
<1>1. KnowsDay(q, es, bs, tn)
  BY DEF Knows
<1>2. KnowsDay(q, es, bs2, tn)
  <2> SUFFICES ASSUME q.key \notin tn, q.pc = "rest", NEW b \in DOMAIN bs2,
                      bs2[b].entry = q.row, bs2[b].open
               PROVE  FALSE
    BY <1>1 DEF KnowsDay
  <2>1. q.key = Clerk(q.key[2]) /\ es[q.row].staff = q.key[2]
    BY ClerkKey DEF Fits
  <2>2. ~Clear(q, Clerk(es[bs2[b].entry].staff), tn)
    BY <2>1 DEF Clear
  <2> QED
    BY <1>1, <2>2 DEF KnowsDay
<1> QED
  BY <1>2 DEF Knows

\* Claims come and are decided on, but for those that it is about.
LEMMA KnowsClaims ==
  ASSUME NEW q, NEW es, NEW bs, NEW cs, NEW cs2, NEW ks, NEW tn,
         Fits(q, es, bs, cs), Knows(q, es, bs, cs, ks, tn),
         \A n \in DOMAIN cs :
           /\ cs2[n].kind = cs[n].kind /\ cs2[n].staff = cs[n].staff
           /\ cs2[n].from = cs[n].from /\ cs2[n].to = cs[n].to
           /\ \/ cs2[n].status = cs[n].status
              \/ Clear(q, Claim(n), tn) /\ (Claim(n) \in tn \/ cs[n].status = "pending"),
         \A n \in DOMAIN cs2 : n \in DOMAIN cs \/ Clear(q, Clerk(cs2[n].staff), tn)
  PROVE  Knows(q, es, bs, cs2, ks, tn)
<1>1. KnowsClaim(q, cs, tn) /\ KnowsPay(q, cs, tn)
  BY DEF Knows
<1>2. KnowsClaim(q, cs2, tn)
  <2> SUFFICES ASSUME q.key \notin tn
               PROVE  /\ q.pc = "claim" /\ q.new.kind = "leave" =>
                           \A n \in DOMAIN cs2 : LeaveOf(cs2[n], q.new.staff) /\ Claim(n) \notin tn
                             => Apart(cs2[n], q.new)
                      /\ q.pc = "decide" => cs2[q.row].status = "pending"
    BY DEF KnowsClaim
  <2>1. ASSUME q.pc = "claim", q.new.kind = "leave", NEW n \in DOMAIN cs2,
               LeaveOf(cs2[n], q.new.staff), Claim(n) \notin tn
        PROVE  Apart(cs2[n], q.new)
    <3>1. q.key = Clerk(q.new.staff)
      BY <2>1 DEF Fits
    <3>2. ~Clear(q, Clerk(cs2[n].staff), tn)
      BY <2>1, <3>1 DEF Clear, LeaveOf
    <3>3. n \in DOMAIN cs
      BY <3>2
    <3>4. LeaveOf(cs[n], q.new.staff)
      BY <2>1, <3>3 DEF LeaveOf
    <3>5. Apart(cs[n], q.new)
      BY <1>1, <2>1, <3>3, <3>4 DEF KnowsClaim
    <3> QED
      BY <3>3, <3>5 DEF Apart
  <2>2. ASSUME q.pc = "decide" PROVE cs2[q.row].status = "pending"
    <3>1. q.row \in DOMAIN cs /\ q.key = Claim(q.row)
      BY <2>2 DEF Fits
    <3>2. ~Clear(q, Claim(q.row), tn)
      BY <2>2, <3>1 DEF Clear
    <3>3. cs[q.row].status = "pending"
      BY <1>1, <2>2 DEF KnowsClaim
    <3> QED
      BY <3>1, <3>2, <3>3
  <2> QED
    BY <2>1, <2>2
<1>3. KnowsPay(q, cs2, tn)
  <2> SUFFICES ASSUME q.pc \in Paying, NEW f \in q.found
               PROVE  cs2[f.n].status = "approved" \/ Claim(f.n) \in tn
    BY <1>1 DEF KnowsPay
  <2>1. f.n \in DOMAIN cs
    BY DEF Fits
  <2>2. cs[f.n].status = "approved" \/ Claim(f.n) \in tn
    BY <1>1 DEF KnowsPay
  <2> QED
    BY <2>1, <2>2
<1> QED
  BY <1>2, <1>3 DEF Knows

-----------------------------------------------------------------------------
(* All the requests, when one of them has moved.                           *)

\* What the other requests have read and are about, while one is at work.
LEMMA Others ==
  ASSUME OfficeInv, AtShifts, NEW i \in Slots, ~At(i, "free"), NEW j \in Slots, j # i
  PROVE  /\ Fits(req[j], entries, breaks, claims) /\ Clear(req[j], req[i].key, torn)
         /\ Knows(req[j], entries, breaks, claims, checks, torn) /\ req[j] \in Request
<1>1. Asked
  BY DEF OfficeInv, Shape
<1>2. Clear(req[j], req[i].key, torn)
  BY <1>1 DEF Asked, Clear, At
<1> QED
  BY <1>1, <1>2 DEF Asked, OfficeInv

\* All know what they have read when one has moved and the others still do.
LEMMA AllKnow ==
  ASSUME OfficeInv, AtShifts, NEW i \in Slots, NEW r, Goes(i, r), torn' = torn,
         Knows(r, entries', breaks', claims', checks', torn),
         \A j \in Slots : j # i => Knows(req[j], entries', breaks', claims', checks', torn)
  PROVE  \A j \in Slots : Knows(req'[j], entries', breaks', claims', checks', torn')
<1>1. req' = [req EXCEPT ![i] = r]
  BY DEF Goes
<1>2. req \in [Slots -> Request]
  BY DEF OfficeInv, Shape, Asked
<1>3. \A j \in Slots : req'[j] = IF j = i THEN r ELSE req[j]
  BY <1>1, <1>2
<1> SUFFICES ASSUME NEW j \in Slots
             PROVE  Knows(req'[j], entries', breaks', claims', checks', torn)
  OBVIOUS
<1>4. CASE j = i
  BY <1>3, <1>4
<1>5. CASE j # i
  BY <1>3, <1>5
<1> QED
  BY <1>4, <1>5

-----------------------------------------------------------------------------
(* The clock's steps.                                                      *)

\* A request that is answered, with rows that leave the others what they know.
LEMMA AllKnowAnswered ==
  ASSUME OfficeInv, AtShifts, NEW i \in Slots, Answers(i), torn' = torn,
         \A j \in Slots : j # i => Knows(req[j], entries', breaks', claims', checks', torn)
  PROVE  \A j \in Slots : Knows(req'[j], entries', breaks', claims', checks', torn')
<1>1. Knows(FreeSlot, entries', breaks', claims', checks', torn)
  BY KnowsNothing DEF FreeSlot
<1> QED
  BY <1>1, AllKnow DEF Answers

\* Clocking in: nobody was on shift, unless two met (ClockIns).
LEMMA ClockInsKeeps ==
  ASSUME OfficeInv, AtShifts, NEW i \in Slots, ClockIns(i) PROVE OfficeInv'
<1> DEFINE p == req[i].key[2]
           x == NewEntry(p, clock)
<1>1. /\ Shape' /\ req[i].key \in Clerks /\ entries' = Append(entries, x) /\ x \in Entry
  BY ClockInsShape DEF OfficeInv
<1>2. /\ UNCHANGED <<clock, breaks, checks, claims, settings, runs, counts, torn>>
      /\ Answers(i) /\ req[i].pc = "in"
  BY DEF ClockIns, At
<1>3. p \in Staff /\ req[i].key = Clerk(p)
  BY <1>1, ClerkKey
<1>4. entries \in Seq(Entry) /\ clock \in Nat /\ \A b \in DOMAIN breaks : breaks[b].entry \in DOMAIN entries
  BY DEF OfficeInv, Shape, Rows
<1>5. x.staff = p
  BY <1>3, <1>4, NewEntryIs
<1>6. /\ DOMAIN entries' = DOMAIN entries \cup {Len(entries) + 1}
      /\ entries'[Len(entries) + 1] = x /\ \A n \in DOMAIN entries : entries'[n] = entries[n]
  <2> HIDE DEF x
  <2>1. /\ DOMAIN entries = 1 .. Len(entries) /\ Len(entries) \in Nat
        /\ DOMAIN entries' = 1 .. Len(entries) + 1 /\ entries'[Len(entries) + 1] = x
        /\ \A n \in DOMAIN entries : entries'[n] = entries[n]
    BY <1>1, <1>4, Appended
  <2> QED
    BY <2>1
<1>7. Knows(req[i], entries, breaks, claims, checks, torn)
  BY DEF OfficeInv
<1>8. ASSUME NEW q \in Staff, Clerk(q) \notin torn
      PROVE  Worked(entries', clock', q) /\ Away(claims', torn', q) /\ Rested(entries', breaks', q)
  <2>1. Worked(entries, clock, q) /\ Away(claims, torn, q) /\ Rested(entries, breaks, q)
    BY <1>8 DEF OfficeInv, Days
  <2>2. p = q => \A n \in DOMAIN entries : ~Open(entries[n], q)
    BY <1>2, <1>3, <1>7, <1>8 DEF Knows, KnowsDay
  <2>3. Worked(entries', clock, q)
    BY <1>1, <1>3, <1>4, <2>1, <2>2, WorkedIn
  <2>4. Rested(entries', breaks, q)
    BY <1>4, <1>6, <2>1 DEF Rested
  <2> QED
    BY <1>2, <2>1, <2>3, <2>4
<1>9. \A j \in Slots : j # i => Knows(req[j], entries', breaks', claims', checks', torn)
  <2> SUFFICES ASSUME NEW j \in Slots, j # i
               PROVE  Knows(req[j], entries', breaks, claims, checks, torn)
    BY <1>2
  <2>1. ~At(i, "free")
    BY <1>2 DEF At
  <2>2. /\ Fits(req[j], entries, breaks, claims) /\ Clear(req[j], Clerk(p), torn)
        /\ Knows(req[j], entries, breaks, claims, checks, torn)
    BY <1>3, <2>1, Others
  <2>3. \A n \in DOMAIN entries' : \/ n \in DOMAIN entries /\ entries'[n].out = entries[n].out
                                   \/ Clear(req[j], Clerk(entries'[n].staff), torn)
    BY <1>5, <1>6, <2>2
  <2>4. \A n \in DOMAIN entries : n \in DOMAIN entries' /\ entries'[n].staff = entries[n].staff
    BY <1>6
  <2> QED
    BY <2>2, <2>3, <2>4, KnowsEntries
<1>10. \A j \in Slots : Knows(req'[j], entries', breaks', claims', checks', torn')
  BY <1>2, <1>9, AllKnowAnswered
<1>11. Days(entries, breaks, claims, clock, torn)'
  BY <1>2, <1>8 DEF Days
<1>12. Stands(runs, claims, torn)' /\ Sure(settings)'
  BY <1>2 DEF OfficeInv
<1> QED
  BY <1>1, <1>10, <1>11, <1>12 DEF OfficeInv

\* Clocking out: the row was open, unless two met (ClockOuts).
LEMMA ClockOutsKeeps ==
  ASSUME OfficeInv, AtShifts, NEW i \in Slots, ClockOuts(i) PROVE OfficeInv'
<1> DEFINE k == req[i].row
           x == Ended(entries[k], clock)
<1>1. /\ Shape' /\ k \in DOMAIN entries /\ entries' = [entries EXCEPT ![k] = x] /\ x \in Entry
  BY ClockOutsShape DEF OfficeInv
<1>2. /\ UNCHANGED <<clock, breaks, checks, claims, settings, runs, counts, torn>>
      /\ Answers(i) /\ req[i].pc = "out"
  BY DEF ClockOuts, At
<1>3. /\ entries \in Seq(Entry) /\ clock \in Nat
      /\ \A b \in DOMAIN breaks : breaks[b].entry \in DOMAIN entries
      /\ entries[k].at <= clock /\ (entries[k].out = None => entries[k].hours = 0)
  BY <1>1 DEF OfficeInv, Shape, Rows
<1>4. req[i].key = Clerk(req[i].key[2]) /\ entries[k].staff = req[i].key[2]
  <2>1. Fits(req[i], entries, breaks, claims)
    BY AtWork DEF OfficeInv
  <2> QED
    BY <1>2, <2>1, ClerkKey DEF Fits
<1>5. Knows(req[i], entries, breaks, claims, checks, torn)
  BY DEF OfficeInv
<1>6. x.staff = entries[k].staff
  <2>1. entries[k] \in Entry
    BY <1>1, <1>3
  <2> QED
    BY <2>1 DEF Ended, Entry
<1>7. /\ DOMAIN entries' = DOMAIN entries
      /\ \A n \in DOMAIN entries : entries'[n] = IF n = k THEN x ELSE entries[n]
  <2> HIDE DEF x
  <2> QED
    BY <1>1, <1>3, Replaced
<1>8. ASSUME NEW q \in Staff, Clerk(q) \notin torn
      PROVE  Worked(entries', clock', q) /\ Away(claims', torn', q) /\ Rested(entries', breaks', q)
  <2>1. Worked(entries, clock, q) /\ Away(claims, torn, q) /\ Rested(entries, breaks, q)
    BY <1>8 DEF OfficeInv, Days
  <2>2. entries[k].staff = q => entries[k].out = None /\ entries[k].hours = 0
    BY <1>2, <1>3, <1>4, <1>5, <1>8 DEF Knows, KnowsDay, Open
  <2>3. Worked(entries', clock, q)
    BY <1>1, <1>3, <2>1, <2>2, WorkedOut
  <2>4. \A n \in DOMAIN entries : entries'[n].staff = entries[n].staff
    BY <1>6, <1>7
  <2>5. Rested(entries', breaks, q)
    BY <1>3, <2>1, <2>4 DEF Rested
  <2> QED
    BY <1>2, <2>1, <2>3, <2>5
<1>9. \A j \in Slots : j # i => Knows(req[j], entries', breaks', claims', checks', torn)
  <2> SUFFICES ASSUME NEW j \in Slots, j # i
               PROVE  Knows(req[j], entries', breaks, claims, checks, torn)
    BY <1>2
  <2>1. ~At(i, "free")
    BY <1>2 DEF At
  <2>2. /\ Fits(req[j], entries, breaks, claims) /\ Clear(req[j], Clerk(entries[k].staff), torn)
        /\ Knows(req[j], entries, breaks, claims, checks, torn)
    BY <1>4, <2>1, Others
  <2>3. \A n \in DOMAIN entries' : \/ n \in DOMAIN entries /\ entries'[n].out = entries[n].out
                                   \/ Clear(req[j], Clerk(entries'[n].staff), torn)
    BY <1>6, <1>7, <2>2
  <2>4. \A n \in DOMAIN entries : n \in DOMAIN entries' /\ entries'[n].staff = entries[n].staff
    BY <1>6, <1>7
  <2> QED
    BY <2>2, <2>3, <2>4, KnowsEntries
<1>10. \A j \in Slots : Knows(req'[j], entries', breaks', claims', checks', torn')
  BY <1>2, <1>9, AllKnowAnswered
<1>11. Days(entries, breaks, claims, clock, torn)'
  BY <1>2, <1>8 DEF Days
<1>12. Stands(runs, claims, torn)' /\ Sure(settings)'
  BY <1>2 DEF OfficeInv
<1> QED
  BY <1>1, <1>10, <1>11, <1>12 DEF OfficeInv

\* A classification credits nothing (Classifies).
LEMMA ClassifiesKeeps ==
  ASSUME OfficeInv, AtShifts, NEW i \in Slots, Classifies(i) PROVE OfficeInv'
<1>1. /\ Shape' /\ DOMAIN entries' = DOMAIN entries
      /\ \A m \in DOMAIN entries :
           /\ entries'[m].staff = entries[m].staff /\ entries'[m].at = entries[m].at
           /\ entries'[m].out = entries[m].out /\ entries'[m].hours = entries[m].hours
  BY ClassifiesShape DEF OfficeInv
<1>2. /\ UNCHANGED <<clock, breaks, checks, claims, settings, runs, counts, torn>>
      /\ Answers(i) /\ req[i].pc = "classify"
  BY DEF Classifies, At
<1>3. /\ entries \in Seq(Entry) /\ entries' \in Seq(Entry) /\ clock \in Nat
      /\ \A b \in DOMAIN breaks : breaks[b].entry \in DOMAIN entries
  BY <1>1 DEF OfficeInv, Shape, Rows
<1>4. ASSUME NEW q \in Staff, Clerk(q) \notin torn
      PROVE  Worked(entries', clock', q) /\ Away(claims', torn', q) /\ Rested(entries', breaks', q)
  <2>1. Worked(entries, clock, q) /\ Away(claims, torn, q) /\ Rested(entries, breaks, q)
    BY <1>4 DEF OfficeInv, Days
  <2>2. Worked(entries', clock, q)
    BY <1>1, <1>3, <2>1, WorkedSame
  <2>3. Rested(entries', breaks, q)
    BY <1>1, <1>3, <2>1 DEF Rested
  <2> QED
    BY <1>2, <2>1, <2>2, <2>3
<1>5. \A j \in Slots : j # i => Knows(req[j], entries', breaks', claims', checks', torn)
  <2> SUFFICES ASSUME NEW j \in Slots, j # i
               PROVE  Knows(req[j], entries', breaks, claims, checks, torn)
    BY <1>2
  <2>1. ~At(i, "free")
    BY <1>2 DEF At
  <2>2. /\ Fits(req[j], entries, breaks, claims)
        /\ Knows(req[j], entries, breaks, claims, checks, torn)
    BY <2>1, Others
  <2> QED
    BY <1>1, <2>2, KnowsEntries
<1>6. \A j \in Slots : Knows(req'[j], entries', breaks', claims', checks', torn')
  BY <1>2, <1>5, AllKnowAnswered
<1>7. Days(entries, breaks, claims, clock, torn)'
  BY <1>2, <1>4 DEF Days
<1>8. Stands(runs, claims, torn)' /\ Sure(settings)'
  BY <1>2 DEF OfficeInv
<1> QED
  BY <1>1, <1>6, <1>7, <1>8 DEF OfficeInv

\* A break starts: none was open on the row, unless two met (BreakStarts).
LEMMA BreakStartsKeeps ==
  ASSUME OfficeInv, AtShifts, NEW i \in Slots, BreakStarts(i) PROVE OfficeInv'
<1> DEFINE m == Len(breaks) + 1
           e == req[i].row
<1>1. /\ Shape' /\ m \notin DOMAIN breaks /\ DOMAIN breaks' = DOMAIN breaks \cup {m}
      /\ \A b \in DOMAIN breaks : breaks'[b] = breaks[b]
      /\ breaks'[m] = [entry |-> e, open |-> TRUE]
  BY BreakStartsShape DEF OfficeInv
<1> HIDE DEF m
<1>2. /\ UNCHANGED <<clock, entries, checks, claims, settings, runs, counts, torn>>
      /\ Answers(i) /\ req[i].pc = "rest"
  BY DEF BreakStarts, At
<1>3. req[i].key = Clerk(req[i].key[2]) /\ entries[e].staff = req[i].key[2]
  <2>1. Fits(req[i], entries, breaks, claims)
    BY AtWork DEF OfficeInv
  <2> QED
    BY <1>2, <2>1, ClerkKey DEF Fits
<1>4. Knows(req[i], entries, breaks, claims, checks, torn)
  BY DEF OfficeInv
<1>5. breaks'[m].entry = e /\ breaks'[m].open
  BY <1>1
<1>6. ASSUME NEW q \in Staff, Clerk(q) \notin torn
      PROVE  Worked(entries', clock', q) /\ Away(claims', torn', q) /\ Rested(entries', breaks', q)
  <2>1. Worked(entries, clock, q) /\ Away(claims, torn, q) /\ Rested(entries, breaks, q)
    BY <1>6 DEF OfficeInv, Days
  <2>2. entries[e].staff = q => \A b \in DOMAIN breaks : ~(breaks[b].entry = e /\ breaks[b].open)
    BY <1>2, <1>3, <1>4, <1>6 DEF Knows, KnowsDay
  <2>3. Rested(entries, breaks', q)
    <3> SUFFICES ASSUME NEW a \in DOMAIN breaks', NEW b \in DOMAIN breaks',
                        breaks'[a].open, breaks'[b].open, breaks'[a].entry = breaks'[b].entry,
                        entries[breaks'[a].entry].staff = q
                 PROVE  a = b
      BY DEF Rested
    <3>1. CASE a = m
      BY <1>1, <1>5, <2>2, <3>1
    <3>2. CASE b = m
      BY <1>1, <1>5, <2>2, <3>2
    <3>3. CASE a # m /\ b # m
      BY <1>1, <2>1, <3>3 DEF Rested
    <3> QED
      BY <3>1, <3>2, <3>3
  <2> QED
    BY <1>2, <2>1, <2>3
<1>7. \A j \in Slots : j # i => Knows(req[j], entries', breaks', claims', checks', torn)
  <2> SUFFICES ASSUME NEW j \in Slots, j # i
               PROVE  Knows(req[j], entries, breaks', claims, checks, torn)
    BY <1>2
  <2>1. ~At(i, "free")
    BY <1>2 DEF At
  <2>2. /\ Fits(req[j], entries, breaks, claims) /\ Clear(req[j], Clerk(entries[e].staff), torn)
        /\ Knows(req[j], entries, breaks, claims, checks, torn)
    BY <1>3, <2>1, Others
  <2>3. \A b \in DOMAIN breaks' : breaks'[b].open =>
          \/ b \in DOMAIN breaks /\ breaks[b].open /\ breaks'[b].entry = breaks[b].entry
          \/ Clear(req[j], Clerk(entries[breaks'[b].entry].staff), torn)
    BY <1>1, <1>5, <2>2
  <2> QED
    BY <2>2, <2>3, KnowsBreaks
<1>8. \A j \in Slots : Knows(req'[j], entries', breaks', claims', checks', torn')
  BY <1>2, <1>7, AllKnowAnswered
<1>9. Days(entries, breaks, claims, clock, torn)'
  BY <1>2, <1>6 DEF Days
<1>10. Stands(runs, claims, torn)' /\ Sure(settings)'
  BY <1>2 DEF OfficeInv
<1> QED
  BY <1>1, <1>8, <1>9, <1>10 DEF OfficeInv

\* A break ends (BreakEnds).
LEMMA BreakEndsKeeps ==
  ASSUME OfficeInv, AtShifts, NEW i \in Slots, BreakEnds(i) PROVE OfficeInv'
<1>1. /\ Shape' /\ DOMAIN breaks' = DOMAIN breaks
      /\ \A b \in DOMAIN breaks : breaks'[b].entry = breaks[b].entry /\ (breaks'[b].open => breaks[b].open)
  BY BreakEndsShape DEF OfficeInv
<1>2. /\ UNCHANGED <<clock, entries, checks, claims, settings, runs, counts, torn>>
      /\ Answers(i) /\ req[i].pc = "back"
  BY DEF BreakEnds, At
<1>3. ASSUME NEW q \in Staff, Clerk(q) \notin torn
      PROVE  Worked(entries', clock', q) /\ Away(claims', torn', q) /\ Rested(entries', breaks', q)
  <2>1. Worked(entries, clock, q) /\ Away(claims, torn, q) /\ Rested(entries, breaks, q)
    BY <1>3 DEF OfficeInv, Days
  <2>2. Rested(entries, breaks', q)
    BY <1>1, <2>1 DEF Rested
  <2> QED
    BY <1>2, <2>1, <2>2
<1>4. \A j \in Slots : j # i => Knows(req[j], entries', breaks', claims', checks', torn)
  <2> SUFFICES ASSUME NEW j \in Slots, j # i
               PROVE  Knows(req[j], entries, breaks', claims, checks, torn)
    BY <1>2
  <2>1. ~At(i, "free")
    BY <1>2 DEF At
  <2>2. /\ Fits(req[j], entries, breaks, claims)
        /\ Knows(req[j], entries, breaks, claims, checks, torn)
    BY <2>1, Others
  <2> QED
    BY <1>1, <2>2, KnowsBreaks
<1>5. \A j \in Slots : Knows(req'[j], entries', breaks', claims', checks', torn')
  BY <1>2, <1>4, AllKnowAnswered
<1>6. Days(entries, breaks, claims, clock, torn)'
  BY <1>2, <1>3 DEF Days
<1>7. Stands(runs, claims, torn)' /\ Sure(settings)'
  BY <1>2 DEF OfficeInv
<1> QED
  BY <1>1, <1>5, <1>6, <1>7 DEF OfficeInv

\* A step that reads: one request moves, no row does.
LEMMA ReadingKeeps ==
  ASSUME OfficeInv, AtShifts, NEW i \in Slots, ~At(i, "free"), NEW r, Goes(i, r), Shape',
         UNCHANGED shiftRows, torn' = torn,
         Knows(r, entries, breaks, claims, checks, torn)
  PROVE  OfficeInv'
<1>1. UNCHANGED <<clock, entries, breaks, checks, claims, settings, runs>>
  BY DEF shiftRows
<1>2. \A j \in Slots : j # i => Knows(req[j], entries', breaks', claims', checks', torn)
  BY <1>1, Others
<1>3. \A j \in Slots : Knows(req'[j], entries', breaks', claims', checks', torn')
  BY <1>1, <1>2, AllKnow
<1>4. Days(entries, breaks, claims, clock, torn)'
  BY <1>1 DEF OfficeInv
<1>5. Stands(runs, claims, torn)' /\ Sure(settings)'
  BY <1>1 DEF OfficeInv
<1> QED
  BY <1>3, <1>4, <1>5 DEF OfficeInv

\* Past the gate nothing is owed that did not come behind it (ReadsGate).
LEMMA ReadsGateKeeps ==
  ASSUME OfficeInv, AtShifts, NEW i \in Slots, ReadsGate(i) PROVE OfficeInv'
<1>1. Shape'
  BY ReadsGateShape DEF OfficeInv
<1>2. ~At(i, "free") /\ UNCHANGED shiftRows /\ torn' = torn /\ req[i].pc = "gate"
  BY DEF ReadsGate, At, shiftRows
<1>3. CASE Answers(i)
  <2>1. Knows(FreeSlot, entries, breaks, claims, checks, torn)
    BY KnowsNothing DEF FreeSlot
  <2> QED
    BY <1>1, <1>2, <1>3, <2>1, ReadingKeeps DEF Answers
<1>4. CASE ~Answers(i)
  <2> DEFINE r == [req[i] EXCEPT !.pc = "out",
                                 !.since = {c \in Checks : checks[c].state = "verifying"}]
  <2>0. req[i] \in Request
    BY AtWork DEF OfficeInv
  <2>1. Goes(i, r) /\ (req[i].force \/ OpenChecks(req[i].key[2]) = {})
    BY <1>4, <2>0 DEF ReadsGate, Step, Request
  <2>2. /\ r.pc = "out" /\ r.key = req[i].key /\ r.row = req[i].row /\ r.force = req[i].force
        /\ r.since = {c \in Checks : checks[c].state = "verifying"}
    BY <2>0 DEF Request
  <2>3. KnowsDay(req[i], entries, breaks, torn)
    BY DEF OfficeInv, Knows
  <2> HIDE DEF r
  <2>4. KnowsDay(r, entries, breaks, torn)
    BY <1>2, <2>2, <2>3 DEF KnowsDay
  <2>5. KnowsOwed(r, checks)
    BY <2>1, <2>2 DEF KnowsOwed, OpenChecks, Owing
  <2>6. Knows(r, entries, breaks, claims, checks, torn)
    BY <2>2, <2>4, <2>5 DEF Knows, KnowsClaim, KnowsPay, Paying
  <2> QED
    BY <1>1, <1>2, <2>1, <2>6, ReadingKeeps
<1> QED
  BY <1>3, <1>4

\* Past the look at the breaks none is open on the row (ReadsBreaks).
LEMMA ReadsBreaksKeeps ==
  ASSUME OfficeInv, AtShifts, NEW i \in Slots, ReadsBreaks(i) PROVE OfficeInv'
<1>1. Shape'
  BY ReadsBreaksShape DEF OfficeInv
<1>2. ~At(i, "free") /\ UNCHANGED shiftRows /\ torn' = torn
  BY DEF ReadsBreaks, At, shiftRows
<1>3. CASE Answers(i)
  <2>1. Knows(FreeSlot, entries, breaks, claims, checks, torn)
    BY KnowsNothing DEF FreeSlot
  <2> QED
    BY <1>1, <1>2, <1>3, <2>1, ReadingKeeps DEF Answers
<1>4. CASE ~Answers(i)
  <2> DEFINE r == [req[i] EXCEPT !.pc = "rest"]
  <2>1. Goes(i, r) /\ ~\E b \in DOMAIN breaks : breaks[b] = [entry |-> req[i].row, open |-> TRUE]
    BY <1>4 DEF ReadsBreaks, Step
  <2>2. /\ r.pc = "rest" /\ r.row = req[i].row
    <3>1. req[i] \in Request
      BY AtWork DEF OfficeInv
    <3> QED
      BY <3>1 DEF Request
  <2> HIDE DEF r
  <2>3. \A b \in DOMAIN breaks : ~(breaks[b].entry = r.row /\ breaks[b].open)
    <3> SUFFICES ASSUME NEW b \in DOMAIN breaks, breaks[b].entry = r.row, breaks[b].open
                 PROVE  FALSE
      OBVIOUS
    <3>1. breaks[b] \in Break
      BY DEF OfficeInv, Shape, Rows
    <3>2. breaks[b] = [entry |-> req[i].row, open |-> TRUE]
      BY <2>2, <3>1 DEF Break
    <3> QED
      BY <2>1, <3>2
  <2>4. Knows(r, entries, breaks, claims, checks, torn)
    BY <2>2, <2>3 DEF Knows, KnowsDay, KnowsOwed, KnowsClaim, KnowsPay, Paying
  <2> QED
    BY <1>1, <1>2, <2>1, <2>4, ReadingKeeps
<1> QED
  BY <1>3, <1>4

\* What a run reads is approved (ReadsRows).
LEMMA ReadsRowsKeeps ==
  ASSUME OfficeInv, AtShifts, NEW i \in Slots, NEW kind \in Kinds, ReadsRows(i, kind)
  PROVE  OfficeInv'
<1> DEFINE r == Reads(req[i], kind, PayableRows(kind))
<1>1. /\ Shape' /\ req' = [req EXCEPT ![i] = r] /\ r.pc \in Paying /\ r.new = req[i].new
      /\ r.found = req[i].found \cup PayableRows(kind)
  BY ReadsRowsShape DEF OfficeInv
<1>2. ~At(i, "free") /\ UNCHANGED shiftRows /\ torn' = torn /\ req[i].pc \in Paying
  BY DEF ReadsRows, At, shiftRows, Paying
<1>3. KnowsPay(req[i], claims, torn)
  BY DEF OfficeInv, Knows
<1> HIDE DEF r
<1>4. \A f \in PayableRows(kind) : claims[f.n].status = "approved"
  BY DEF PayableRows, Payable
<1>5. KnowsPay(r, claims, torn)
  BY <1>1, <1>2, <1>3, <1>4 DEF KnowsPay
<1>6. Knows(r, entries, breaks, claims, checks, torn)
  BY <1>1, <1>5 DEF Knows, KnowsDay, KnowsOwed, KnowsClaim, Paying
<1>7. Goes(i, r)
  BY <1>1 DEF Goes
<1> QED
  BY <1>1, <1>2, <1>6, <1>7, ReadingKeeps

-----------------------------------------------------------------------------
(* The payroll's steps.                                                    *)

\* Leave is asked for once: none was in its way, unless two met (Claims).
LEMMA ClaimsKeeps ==
  ASSUME OfficeInv, AtShifts, NEW i \in Slots, Claims(i) PROVE OfficeInv'
<1> DEFINE m == Len(claims) + 1
           c == req[i].new
           p == c.staff
<1>1. /\ Shape' /\ m \notin DOMAIN claims /\ DOMAIN claims' = DOMAIN claims \cup {m}
      /\ \A n \in DOMAIN claims : claims'[n] = claims[n]
      /\ claims'[m] = c
  BY ClaimsShape DEF OfficeInv
<1> HIDE DEF m
<1>2. /\ UNCHANGED <<clock, entries, breaks, checks, settings, runs, counts, torn>>
      /\ Answers(i) /\ req[i].pc = "claim"
  BY DEF Claims, At
<1>3. req[i].key = Clerk(p)
  <2>1. Fits(req[i], entries, breaks, claims)
    BY AtWork DEF OfficeInv
  <2> QED
    BY <1>2, <2>1 DEF Fits
<1>4. KnowsClaim(req[i], claims, torn)
  BY DEF OfficeInv, Knows
<1>5. ASSUME NEW q \in Staff, Clerk(q) \notin torn
      PROVE  Worked(entries', clock', q) /\ Away(claims', torn', q) /\ Rested(entries', breaks', q)
  <2>1. Worked(entries, clock, q) /\ Away(claims, torn, q) /\ Rested(entries, breaks, q)
    BY <1>5 DEF OfficeInv, Days
  <2>2. ASSUME NEW n \in DOMAIN claims, LeaveOf(claims[n], q), LeaveOf(c, q), Claim(n) \notin torn
        PROVE  Apart(claims[n], c)
    <3>1. c.kind = "leave" /\ p = q
      BY <2>2 DEF LeaveOf
    <3> QED
      BY <1>2, <1>3, <1>4, <1>5, <2>2, <3>1 DEF KnowsClaim
  <2>3. \A a, b : Apart(a, b) => Apart(b, a)
    BY DEF Apart
  <2>4. Away(claims', torn, q)
    <3> SUFFICES ASSUME NEW a \in DOMAIN claims', NEW b \in DOMAIN claims',
                        LeaveOf(claims'[a], q), LeaveOf(claims'[b], q),
                        Claim(a) \notin torn, Claim(b) \notin torn, a # b
                 PROVE  Apart(claims'[a], claims'[b])
      BY DEF Away
    <3>1. CASE a = m
      BY <1>1, <2>2, <2>3, <3>1
    <3>2. CASE b = m
      BY <1>1, <2>2, <3>2
    <3>3. CASE a # m /\ b # m
      BY <1>1, <2>1, <3>3 DEF Away
    <3> QED
      BY <3>1, <3>2, <3>3
  <2> QED
    BY <1>2, <2>1, <2>4
<1>6. \A j \in Slots : j # i => Knows(req[j], entries', breaks', claims', checks', torn)
  <2> SUFFICES ASSUME NEW j \in Slots, j # i
               PROVE  Knows(req[j], entries, breaks, claims', checks, torn)
    BY <1>2
  <2>1. ~At(i, "free")
    BY <1>2 DEF At
  <2>2. /\ Fits(req[j], entries, breaks, claims) /\ Clear(req[j], Clerk(p), torn)
        /\ Knows(req[j], entries, breaks, claims, checks, torn)
    BY <1>3, <2>1, Others
  <2>3. \A n \in DOMAIN claims' : n \in DOMAIN claims \/ Clear(req[j], Clerk(claims'[n].staff), torn)
    BY <1>1, <2>2
  <2> QED
    BY <1>1, <2>2, <2>3, KnowsClaims
<1>7. \A j \in Slots : Knows(req'[j], entries', breaks', claims', checks', torn')
  BY <1>2, <1>6, AllKnowAnswered
<1>8. Days(entries, breaks, claims, clock, torn)'
  BY <1>2, <1>5 DEF Days
<1>9. Stands(runs, claims', torn)
  <2>1. \A k \in DOMAIN runs : runs[k].claims \subseteq DOMAIN claims
    BY DEF OfficeInv, Shape, Rows
  <2> QED
    BY <1>1, <2>1 DEF OfficeInv, Stands
<1>10. Stands(runs, claims, torn)' /\ Sure(settings)'
  BY <1>2, <1>9 DEF OfficeInv
<1> QED
  BY <1>1, <1>7, <1>8, <1>10 DEF OfficeInv

\* What was decided stays so: the claim was pending, unless two met (Decides).
LEMMA DecidesKeeps ==
  ASSUME OfficeInv, AtShifts, NEW i \in Slots, Decides(i) PROVE OfficeInv'
<1> DEFINE m == req[i].row
<1>1. /\ Shape' /\ DOMAIN claims' = DOMAIN claims /\ m \in DOMAIN claims
      /\ req[i].key = Claim(m)
      /\ \A n \in DOMAIN claims :
           /\ claims'[n].kind = claims[n].kind /\ claims'[n].staff = claims[n].staff
           /\ claims'[n].from = claims[n].from /\ claims'[n].to = claims[n].to
           /\ n # m => claims'[n].status = claims[n].status
  BY DecidesShape DEF OfficeInv
<1>2. /\ UNCHANGED <<clock, entries, breaks, checks, settings, runs, counts, torn>>
      /\ Answers(i) /\ req[i].pc = "decide"
  BY DEF Decides, At
<1>3. Claim(m) \notin torn => claims[m].status = "pending"
  <2>1. KnowsClaim(req[i], claims, torn)
    BY DEF OfficeInv, Knows
  <2> QED
    BY <1>1, <1>2, <2>1 DEF KnowsClaim
<1> HIDE DEF m
<1>4. ASSUME NEW q \in Staff, Clerk(q) \notin torn
      PROVE  Worked(entries', clock', q) /\ Away(claims', torn', q) /\ Rested(entries', breaks', q)
  <2>1. Worked(entries, clock, q) /\ Away(claims, torn, q) /\ Rested(entries, breaks, q)
    BY <1>4 DEF OfficeInv, Days
  <2>2. \A n \in DOMAIN claims : LeaveOf(claims'[n], q) /\ Claim(n) \notin torn => LeaveOf(claims[n], q)
    BY <1>1, <1>3 DEF LeaveOf
  <2>3. \A a, b \in DOMAIN claims : Apart(claims[a], claims[b]) => Apart(claims'[a], claims'[b])
    BY <1>1 DEF Apart
  <2>4. Away(claims', torn, q)
    BY <1>1, <2>1, <2>2, <2>3 DEF Away
  <2> QED
    BY <1>2, <2>1, <2>4
<1>5. \A j \in Slots : j # i => Knows(req[j], entries', breaks', claims', checks', torn)
  <2> SUFFICES ASSUME NEW j \in Slots, j # i
               PROVE  Knows(req[j], entries, breaks, claims', checks, torn)
    BY <1>2
  <2>1. ~At(i, "free")
    BY <1>2 DEF At
  <2>2. /\ Fits(req[j], entries, breaks, claims) /\ Clear(req[j], Claim(m), torn)
        /\ Knows(req[j], entries, breaks, claims, checks, torn)
    BY <1>1, <2>1, Others
  <2>3. \A n \in DOMAIN claims :
           \/ claims'[n].status = claims[n].status
           \/ Clear(req[j], Claim(n), torn) /\ (Claim(n) \in torn \/ claims[n].status = "pending")
    BY <1>1, <1>3, <2>2
  <2> QED
    BY <1>1, <2>2, <2>3, KnowsClaims
<1>6. \A j \in Slots : Knows(req'[j], entries', breaks', claims', checks', torn')
  BY <1>2, <1>5, AllKnowAnswered
<1>7. Days(entries, breaks, claims, clock, torn)'
  BY <1>2, <1>4 DEF Days
<1>8. Stands(runs, claims', torn)
  <2>1. \A k \in DOMAIN runs : runs[k].claims \subseteq DOMAIN claims
    BY DEF OfficeInv, Shape, Rows
  <2>2. \A n \in DOMAIN claims : claims[n].status = "approved" \/ Claim(n) \in torn
                                  => claims'[n].status = "approved" \/ Claim(n) \in torn
    BY <1>1, <1>3
  <2> QED
    BY <2>1, <2>2 DEF OfficeInv, Stands
<1>9. Stands(runs, claims, torn)' /\ Sure(settings)'
  BY <1>2, <1>8 DEF OfficeInv
<1> QED
  BY <1>1, <1>6, <1>7, <1>9 DEF OfficeInv

\* A step that writes the settings: nobody's knowledge is of them.
LEMMA SettingKeeps ==
  ASSUME OfficeInv, AtShifts, NEW i \in Slots, ~At(i, "free"), NEW r, Goes(i, r), Shape',
         UNCHANGED <<clock, entries, breaks, checks, claims, runs>>, torn' = torn,
         r.pc \in {"free", "flag"}, Sure(settings')
  PROVE  OfficeInv'
<1>1. \A j \in Slots : j # i => Knows(req[j], entries', breaks', claims', checks', torn)
  BY Others
<1>2. Knows(r, entries', breaks', claims', checks', torn)
  BY KnowsNothing
<1>3. \A j \in Slots : Knows(req'[j], entries', breaks', claims', checks', torn')
  BY <1>1, <1>2, AllKnow
<1>4. Days(entries, breaks, claims, clock, torn)' /\ Stands(runs, claims, torn)'
  BY DEF OfficeInv
<1> QED
  BY <1>3, <1>4 DEF OfficeInv

\* A change of rates ends with the flag up, a confirmation with it down.
LEMMA SettingsKeep ==
  ASSUME OfficeInv, AtShifts, NEW i \in Slots, RateWrites(i) \/ RateFlags(i) \/ Confirms(i)
  PROVE  OfficeInv'
<1>1. ~At(i, "free") /\ UNCHANGED <<clock, entries, breaks, checks, claims, runs>> /\ torn' = torn
  BY DEF RateWrites, RateFlags, Confirms, At
<1>2. Shape' /\ Sure(settings')
  BY RateWritesShape, RateFlagsShape, ConfirmsShape DEF OfficeInv
<1>3. CASE RateWrites(i)
  <2> DEFINE r == [req[i] EXCEPT !.pc = "flag"]
  <2>1. Goes(i, r)
    BY <1>3 DEF RateWrites, Step
  <2>2. r.pc = "flag"
    <3>1. req[i] \in Request
      BY AtWork DEF OfficeInv
    <3> QED
      BY <3>1 DEF Request
  <2> HIDE DEF r
  <2> QED
    BY <1>1, <1>2, <2>1, <2>2, SettingKeeps
<1>4. CASE RateFlags(i) \/ Confirms(i)
  <2>1. Goes(i, FreeSlot) /\ FreeSlot.pc = "free"
    BY <1>4 DEF RateFlags, Confirms, Answers, FreeSlot
  <2> QED
    BY <1>1, <1>2, <2>1, SettingKeeps
<1> QED
  BY <1>3, <1>4

\* A run pays what was read as approved (InsertsRun).
LEMMA InsertsRunKeeps ==
  ASSUME OfficeInv, AtShifts, NEW i \in Slots, InsertsRun(i) PROVE OfficeInv'
<1> DEFINE m == Len(runs) + 1
           r == [[req[i] EXCEPT !.pc = "lines"] EXCEPT !.row = Len(runs) + 1]
<1>1. /\ Shape' /\ DOMAIN runs' = DOMAIN runs \cup {m}
      /\ \A k \in DOMAIN runs : runs'[k] = runs[k]
      /\ runs'[m].provisional = req[i].new.unverified
      /\ runs'[m].at = req[i].new
      /\ runs'[m].claims = {f.n : f \in req[i].found}
  BY InsertsRunShape DEF OfficeInv
<1>2. /\ UNCHANGED <<clock, entries, breaks, checks, claims, settings, counts, torn>>
      /\ Goes(i, r) /\ req[i].pc = "run" /\ ~At(i, "free")
  BY DEF InsertsRun, At, Step
<1>3. /\ r.pc = "lines" /\ r.key = req[i].key /\ r.new = req[i].new /\ r.found = req[i].found
  <2>1. req[i] \in Request
    BY AtWork DEF OfficeInv
  <2> QED
    BY <2>1 DEF Request
<1> HIDE DEF m, r
<1>4. KnowsPay(req[i], claims, torn)
  BY DEF OfficeInv, Knows
<1>5. Knows(r, entries', breaks', claims', checks', torn)
  <2>1. KnowsPay(r, claims, torn)
    BY <1>2, <1>3, <1>4 DEF KnowsPay, Paying
  <2> QED
    BY <1>2, <1>3, <2>1 DEF Knows, KnowsDay, KnowsOwed, KnowsClaim
<1>6. \A j \in Slots : j # i => Knows(req[j], entries', breaks', claims', checks', torn)
  BY <1>2, Others
<1>7. \A j \in Slots : Knows(req'[j], entries', breaks', claims', checks', torn')
  BY <1>2, <1>5, <1>6, AllKnow
<1>8. Stands(runs', claims, torn)
  <2>1. Stands(runs, claims, torn)
    BY DEF OfficeInv
  <2>2. /\ Sure(req[i].new)
        /\ \A f \in req[i].found : claims[f.n].status = "approved" \/ Claim(f.n) \in torn
    BY <1>2, <1>4 DEF KnowsPay, Paying
  <2> QED
    BY <1>1, <2>1, <2>2 DEF Stands, Sure
<1>9. Days(entries, breaks, claims, clock, torn)' /\ Stands(runs, claims, torn)'
      /\ Sure(settings)'
  BY <1>2, <1>8 DEF OfficeInv
<1> QED
  BY <1>1, <1>7, <1>9 DEF OfficeInv

\* Its lines leave it standing (InsertsLine).
LEMMA InsertsLineKeeps ==
  ASSUME OfficeInv, AtShifts, NEW i \in Slots, InsertsLine(i) PROVE OfficeInv'
<1>1. /\ Shape' /\ DOMAIN runs' = DOMAIN runs
      /\ \A k \in DOMAIN runs : /\ runs'[k].claims = runs[k].claims
                                 /\ runs'[k].at = runs[k].at
                                 /\ runs'[k].provisional = runs[k].provisional
  BY InsertsLineShape DEF OfficeInv
<1>2. /\ UNCHANGED <<clock, entries, breaks, checks, claims, settings, counts, torn>>
      /\ ~At(i, "free") /\ (Answers(i) \/ Goes(i, req[i]))
  BY DEF InsertsLine, At
<1>3. \A j \in Slots : j # i => Knows(req[j], entries', breaks', claims', checks', torn)
  BY <1>2, Others
<1>4. \A j \in Slots : Knows(req'[j], entries', breaks', claims', checks', torn')
  <2>1. CASE Answers(i)
    BY <1>2, <1>3, <2>1, AllKnowAnswered
  <2>2. CASE Goes(i, req[i])
    <3>1. Knows(req[i], entries', breaks', claims', checks', torn)
      BY <1>2 DEF OfficeInv
    <3> QED
      BY <1>2, <1>3, <2>2, <3>1, AllKnow
  <2> QED
    BY <1>2, <2>1, <2>2
<1>5. Stands(runs', claims, torn)
  BY <1>1 DEF OfficeInv, Stands
<1>6. Days(entries, breaks, claims, clock, torn)' /\ Stands(runs, claims, torn)'
      /\ Sure(settings)'
  BY <1>2, <1>5 DEF OfficeInv
<1> QED
  BY <1>1, <1>4, <1>6 DEF OfficeInv

-----------------------------------------------------------------------------
(* Time, checks, arrivals and requests cut short.                          *)

\* What two have met over weakens what is promised of the days and the runs.
LEMMA PromisesLess ==
  ASSUME NEW es, NEW bs, NEW cs, NEW now, NEW rs, NEW tn, NEW tn2, tn \subseteq tn2,
         Days(es, bs, cs, now, tn), Stands(rs, cs, tn)
  PROVE  Days(es, bs, cs, now, tn2) /\ Stands(rs, cs, tn2)
<1>1. \A p \in Staff : Away(cs, tn, p) => Away(cs, tn2, p)
  BY DEF Away
<1>2. Days(es, bs, cs, now, tn2)
  BY <1>1 DEF Days
<1>3. Stands(rs, cs, tn2)
  BY DEF Stands
<1> QED
  BY <1>2, <1>3

\* Time only adds to what may be credited (Ticks).
LEMMA TicksKeeps == ASSUME OfficeInv, Ticks PROVE OfficeInv'
<1>1. Shape'
  BY TicksShape DEF OfficeInv
<1>2. clock' = clock + 1 /\ UNCHANGED <<entries, breaks, checks, claims, settings, runs, req, counts, torn>>
  BY DEF Ticks
<1>3. Days(entries, breaks, claims, clock, torn)'
  <2> SUFFICES ASSUME NEW p \in Staff, Clerk(p) \notin torn
               PROVE  /\ Worked(entries, clock + 1, p) /\ Away(claims, torn, p)
                      /\ Rested(entries, breaks, p)
    BY <1>2 DEF Days
  <2>1. Worked(entries, clock, p) /\ Away(claims, torn, p) /\ Rested(entries, breaks, p)
    BY DEF OfficeInv, Days
  <2>2. entries \in Seq(Entry) /\ clock \in Nat
    BY DEF OfficeInv, Shape, Rows
  <2> QED
    BY <2>1, <2>2, WorkedLater
<1>4. AtShifts' => \A i \in Slots : Knows(req[i], entries, breaks, claims, checks, torn)'
  BY <1>2 DEF OfficeInv, AtShifts
<1>5. Stands(runs, claims, torn)' /\ Sure(settings)'
  BY <1>2 DEF OfficeInv
<1> QED
  BY <1>1, <1>3, <1>4, <1>5 DEF OfficeInv

\* A check that comes to be owed behind the gate is heard of (CheckChanges).
LEMMA CheckChangesKeeps ==
  ASSUME OfficeInv, AtShifts, NEW c \in Checks, NEW p \in Staff, NEW state \in CheckStates,
         CheckChanges(c, p, state)
  PROVE  OfficeInv'
<1>1. /\ Shape' /\ torn' = torn /\ UNCHANGED <<clock, entries, breaks, claims, settings, runs>>
      /\ \A j \in Slots : req'[j] = req[j] \/ req'[j] = Heard(req[j], {c})
  BY CheckChangesShape DEF OfficeInv
<1>2. /\ req' = [i \in Slots |->
           IF At(i, "out") /\ state \in {"unpaid", "partial"} /\ c \notin Owed(req[i].key[2])
           THEN Heard(req[i], {c}) ELSE req[i]]
      /\ checks' = [checks EXCEPT ![c] =
           [by |-> IF checks[c].state = "none" THEN p ELSE checks[c].by, state |-> state]]
  BY DEF CheckChanges, Heard
<1>3. checks \in [Checks -> Check]
  BY DEF OfficeInv, Shape, Rows
<1>4. ASSUME NEW j \in Slots
      PROVE  Knows(req[j], entries, breaks, claims, checks, torn)' 
  <2>1. /\ req'[j].pc = req[j].pc /\ req'[j].key = req[j].key /\ req'[j].row = req[j].row
        /\ req'[j].new = req[j].new /\ req'[j].found = req[j].found
        /\ req'[j].force = req[j].force /\ req[j].since \subseteq req'[j].since
    <3>1. req[j] \in Request /\ {c} \in SUBSET Checks
      BY AtWork DEF OfficeInv
    <3> QED
      BY <1>1, <3>1, HeardIs
  <2>2. Knows(req[j], entries, breaks, claims, checks, torn)
    BY DEF OfficeInv
  <2>3. KnowsDay(req'[j], entries, breaks, torn)
    BY <2>1, <2>2 DEF Knows, KnowsDay
  <2>4. KnowsClaim(req'[j], claims, torn)
    BY <2>1, <2>2 DEF Knows, KnowsClaim
  <2>5. KnowsPay(req'[j], claims, torn)
    BY <2>1, <2>2 DEF Knows, KnowsPay
  <2>6. KnowsOwed(req'[j], checks')
    <3> SUFFICES ASSUME req[j].pc = "out", ~req[j].force, NEW d \in Checks,
                        checks'[d].by = req[j].key[2], checks'[d].state \in Owing
                 PROVE  d \in req'[j].since
      BY <2>1 DEF KnowsOwed
    <3>1. checks[d].by = req[j].key[2] /\ checks[d].state \in Owing
            => d \in req'[j].since
      BY <2>1, <2>2 DEF Knows, KnowsOwed
    <3>2. CASE d # c
      <4>1. checks'[d] = checks[d]
        BY <1>2, <1>3, <3>2
      <4> QED
        BY <3>1, <4>1
    <3>3. CASE d = c
      <4>1. checks'[c].state = state
        BY <1>2, <1>3
      <4>2. CASE c \in Owed(req[j].key[2])
        <5>1. checks[c].by = req[j].key[2] /\ checks[c].state \in Owing
          <6>1. checks[c].state \in CheckStates
            BY <1>3 DEF Check
          <6> QED
            BY <4>2, <6>1 DEF Owed, CheckStates, Owing
        <5> QED
          BY <3>1, <3>3, <5>1
      <4>3. CASE c \notin Owed(req[j].key[2])
        <5>0. state # "verifying"
          BY <1>2, <1>3, <3>3, <4>3 DEF CheckChanges, Comes, Owed
        <5>1. req'[j] = Heard(req[j], {c})
          BY <1>2, <3>3, <4>1, <4>3, <5>0 DEF At, Owing
        <5>2. req[j] \in Request /\ {c} \in SUBSET Checks
          BY AtWork DEF OfficeInv
        <5>3. req'[j].since = req[j].since \cup {c}
          BY <5>1, <5>2, HeardIs
        <5> QED
          BY <3>3, <5>3
      <4> QED
        BY <4>2, <4>3
    <3> QED
      BY <3>2, <3>3
  <2> QED
    BY <1>1, <2>3, <2>4, <2>5, <2>6 DEF Knows
<1>5. Days(entries, breaks, claims, clock, torn)' /\ Stands(runs, claims, torn)'
      /\ Sure(settings)'
  BY <1>1 DEF OfficeInv
<1> QED
  BY <1>1, <1>4, <1>5 DEF OfficeInv

\* An arrival: who meets another makes it known.
LEMMA EntersKeeps ==
  ASSUME OfficeInv, AtShifts, NEW i \in Slots, NEW r, Enters(i, r) PROVE OfficeInv'
<1>1. /\ r \in Request /\ Asks(i, r) /\ Fits(r, entries, breaks, claims)
      /\ Knows(r, entries, breaks, claims, checks, torn)
  BY DEF Enters
<1>2. Shape'
  BY <1>1, ComesIn DEF OfficeInv
<1>3. /\ UNCHANGED <<clock, entries, breaks, checks, claims, settings, runs>>
      /\ req' = [req EXCEPT ![i] = r] /\ torn \subseteq torn'
  BY <1>1 DEF Asks, Begins, Goes, shiftRows
<1>4. \A j \in Slots : Knows(req[j], entries, breaks, claims, checks, torn)'
  <2> SUFFICES ASSUME NEW j \in Slots
               PROVE  Knows(req'[j], entries, breaks, claims, checks, torn')
    BY <1>3
  <2>1. req'[j] = IF j = i THEN r ELSE req[j]
    BY <1>3 DEF OfficeInv, Shape, Asked
  <2>2. Knows(req'[j], entries, breaks, claims, checks, torn)
    BY <1>1, <2>1 DEF OfficeInv
  <2> QED
    BY <1>3, <2>2, KnowsLess
<1>5. Days(entries, breaks, claims, clock, torn') /\ Stands(runs, claims, torn')
  BY <1>3, PromisesLess DEF OfficeInv
<1>6. Days(entries, breaks, claims, clock, torn)' /\ Stands(runs, claims, torn)'
      /\ Sure(settings)'
  BY <1>3, <1>5 DEF OfficeInv
<1> QED
  BY <1>2, <1>4, <1>6 DEF OfficeInv

\* A step elsewhere: the two desks' rows are as they were.
Stays == "desk" \in DOMAIN counts' /\ counts'.desk = counts.desk /\ torn \subseteq torn'

\* ... keeps what is said of them.
LEMMA ElsewhereKeeps ==
  ASSUME OfficeInv, ~AtShifts, UNCHANGED shiftRows, Stays PROVE OfficeInv'
<1>1. UNCHANGED <<clock, entries, breaks, checks, claims, settings, runs>>
  BY DEF shiftRows
<1>2. ~AtShifts'
  BY DEF Stays, AtShifts
<1>3. Rows'
  BY <1>1 DEF OfficeInv, Shape, Rows
<1>4. Shape'
  BY <1>2, <1>3 DEF Shape, Stays
<1>5. Days(entries, breaks, claims, clock, torn') /\ Stands(runs, claims, torn')
  BY PromisesLess DEF OfficeInv, Stays
<1>6. Days(entries, breaks, claims, clock, torn)' /\ Stands(runs, claims, torn)'
      /\ Sure(settings)'
  BY <1>1, <1>5 DEF OfficeInv
<1> QED
  BY <1>2, <1>4, <1>6 DEF OfficeInv

\* An arrival elsewhere keeps the desk, and may add to what two have met over.
LEMMA BeginsStays ==
  ASSUME Shape, NEW i, NEW r, Begins(i, r) PROVE Stays
<1>1. counts' = [counts EXCEPT !.requests = @ + 1] /\ torn \subseteq torn'
  BY DEF Begins
<1>2. "desk" \in DOMAIN counts
  BY DEF Shape
<1> QED
  BY <1>1, <1>2 DEF Stays

\* So does what others change there ...
LEMMA ChangesStays == ASSUME Shape, Changes PROVE Stays
<1>1. counts' = [counts EXCEPT !.changes = @ + 1] /\ torn' = torn
  BY DEF Changes
<1>2. "desk" \in DOMAIN counts
  BY DEF Shape
<1> QED
  BY <1>1, <1>2 DEF Stays

\* ... and any step that leaves the counts alone.
LEMMA SameStays == ASSUME Shape, UNCHANGED <<counts, torn>> PROVE Stays
BY DEF Shape, Stays

\* A request cut short.
LEMMA DiesKeeps ==
  ASSUME OfficeInv, NEW i \in Slots, Dies(i), UNCHANGED shiftRows PROVE OfficeInv'
<1>1. UNCHANGED <<clock, entries, breaks, checks, claims, settings, runs>>
  BY DEF shiftRows
<1>2. /\ req' = [req EXCEPT ![i] = FreeSlot] /\ torn' = torn
      /\ counts' = [counts EXCEPT !.cut = Append(@, [op |-> req[i].op, key |-> req[i].key])]
  BY DEF Dies, Answers, Goes
<1>3. Stays
  BY <1>2 DEF OfficeInv, Shape, Stays
<1>4. CASE ~AtShifts
  BY <1>3, <1>4, ElsewhereKeeps
<1>5. CASE AtShifts
  <2>1. req \in [Slots -> Request] /\ FreeSlot \in Request
    BY <1>5, FreeFits DEF OfficeInv, Shape, Asked
  <2>2. \A j \in Slots : req'[j] = IF j = i THEN FreeSlot ELSE req[j]
    BY <1>2, <2>1
  <2>3. FreeSlot.pc = "free"
    BY DEF FreeSlot
  <2>4. Asked'
    <3>1. req' \in [Slots -> Request]
      BY <1>2, <2>1
    <3>2. \A j \in Slots : Fits(req'[j], entries, breaks, claims)
      <4> SUFFICES ASSUME NEW j \in Slots PROVE Fits(req'[j], entries, breaks, claims)
        OBVIOUS
      <4>1. Fits(FreeSlot, entries, breaks, claims) /\ Fits(req[j], entries, breaks, claims)
        BY <1>5, FreeFits DEF OfficeInv, Shape, Asked
      <4> QED
        BY <2>2, <4>1
    <3>3. \A j, k \in Slots : j # k /\ req'[j].pc # "free" /\ req'[k].pc # "free"
             /\ req'[j].key = req'[k].key => req'[j].key \in torn
      BY <1>5, <2>2, <2>3 DEF OfficeInv, Shape, Asked, At
    <3> QED
      BY <1>1, <1>2, <3>1, <3>2, <3>3 DEF Asked, At
  <2>5. Shape'
    <3>1. Rows'
      BY <1>1 DEF OfficeInv, Shape, Rows
    <3> QED
      BY <1>3, <2>4, <3>1 DEF Shape, Stays
  <2>6. \A j \in Slots : Knows(req[j], entries, breaks, claims, checks, torn)'
    <3> SUFFICES ASSUME NEW j \in Slots
                 PROVE  Knows(req'[j], entries, breaks, claims, checks, torn)
      BY <1>1, <1>2
    <3>1. Knows(FreeSlot, entries, breaks, claims, checks, torn)
      BY <2>3, KnowsNothing
    <3>2. Knows(req[j], entries, breaks, claims, checks, torn)
      BY <1>5 DEF OfficeInv
    <3> QED
      BY <2>2, <3>1, <3>2
  <2>7. Days(entries, breaks, claims, clock, torn)' /\ Stands(runs, claims, torn)'
        /\ Sure(settings)'
    BY <1>1, <1>2 DEF OfficeInv
  <2> QED
    BY <2>5, <2>6, <2>7 DEF OfficeInv
<1> QED
  BY <1>4, <1>5

-----------------------------------------------------------------------------
(* Every step.                                                             *)

\* Every step of the two desks (ShiftsNext).
LEMMA ShiftsKeeps == ASSUME OfficeInv, ShiftsNext PROVE OfficeInv'
<1>1. AtShifts
  BY DEF ShiftsNext, AtShifts
<1>2. CASE Ticks
  BY <1>2, TicksKeeps
<1>3. ASSUME NEW i \in Slots, ShiftsArrive(i) PROVE OfficeInv'
  BY <1>1, <1>3, AllEnter, EntersKeeps
<1>4. ASSUME NEW i \in Slots, ShiftsStep(i) PROVE OfficeInv'
  BY <1>1, <1>4, ClockInsKeeps, ReadsGateKeeps, ClockOutsKeeps, ReadsBreaksKeeps, BreakStartsKeeps,
     BreakEndsKeeps, ClassifiesKeeps, ClaimsKeeps, DecidesKeeps, SettingsKeep, ReadsRowsKeeps,
     InsertsRunKeeps, InsertsLineKeeps DEF ShiftsStep
<1>5. ASSUME NEW c \in Checks, NEW p \in Staff, NEW state \in CheckStates, CheckChanges(c, p, state)
      PROVE  OfficeInv'
  BY <1>1, <1>5, CheckChangesKeeps
<1> QED
  BY <1>2, <1>3, <1>4, <1>5 DEF ShiftsNext

\* Every step of the floor plan (ZonesNext).
LEMMA ZonesKeeps == ASSUME OfficeInv, ZonesNext, UNCHANGED shiftRows PROVE OfficeInv'
<1>1. ~AtShifts /\ Shape
  BY DEF ZonesNext, AtShifts, OfficeInv
<1>2. ASSUME NEW i \in Slots, ZonesArrive(i) PROVE Stays
  <2>1. \E r : Begins(i, r)
    BY <1>2 DEF ZonesArrive, EditArrives, StoreArrives, AsksZones
  <2> QED
    BY <1>1, <2>1, BeginsStays
<1>3. ASSUME NEW i \in Slots, ZonesStep(i) PROVE Stays
  BY <1>1, <1>3, SameStays
     DEF ZonesStep, ReadsUsage, MovesTables, ReadsRow, WritesList, InsertFails
<1>4. ASSUME NEW t, NEW name, Places(t, name) PROVE Stays
  BY <1>1, <1>4, ChangesStays DEF Places
<1>5. Stays
  BY <1>2, <1>3, <1>4 DEF ZonesNext
<1> QED
  BY <1>1, <1>5, ElsewhereKeeps

\* Every step of the recipes (RecipesNext).
LEMMA RecipesKeeps == ASSUME OfficeInv, RecipesNext, UNCHANGED shiftRows PROVE OfficeInv'
<1>1. ~AtShifts /\ Shape
  BY DEF RecipesNext, AtShifts, OfficeInv
<1>2. ASSUME NEW i \in Slots, RecipesArrive(i) PROVE Stays
  <2>1. \E r : Begins(i, r)
    BY <1>2 DEF RecipesArrive, RevisionArrives, SaleArrives, RetirementArrives, AsksRecipes
  <2> QED
    BY <1>1, <2>1, BeginsStays
<1>3. ASSUME NEW i \in Slots, RecipesStep(i) PROVE Stays
  BY <1>1, <1>3, SameStays
     DEF RecipesStep, Supersedes, InsertsRecipe, InsertsBom, Retires, ReadsLines
<1>4. Stays
  BY <1>2, <1>3 DEF RecipesNext
<1> QED
  BY <1>1, <1>4, ElsewhereKeeps

\* Every arrival at the menu begins a request.
LEMMA MenuBegins == ASSUME NEW i, MenuArrives(i) PROVE \E r : Begins(i, r)
<1>1. \A op, pc, list, todo : AsksMenu(i, op, pc, list, todo) => \E r : Begins(i, r)
  BY DEF AsksMenu
<1>2. CASE ReadArrives(i) \/ EditorArrives(i) \/ \E force \in BOOLEAN : RepairArrives(i, force)
  BY <1>1, <1>2 DEF ReadArrives, EditorArrives, RepairArrives
<1>3. ASSUME NEW cat, NEW name, AddArrives(i, cat, name) PROVE \E r : Begins(i, r)
  BY <1>1, <1>3 DEF AddArrives
<1>4. ASSUME NEW id, DeleteArrives(i, id) PROVE \E r : Begins(i, r)
  BY <1>1, <1>4 DEF DeleteArrives
<1>5. ASSUME NEW id, NEW off, AvailabilityArrives(i, id, off) PROVE \E r : Begins(i, r)
  BY <1>1, <1>5 DEF AvailabilityArrives
<1>6. ASSUME NEW id, NEW set, PutArrives(i, id, set) PROVE \E r : Begins(i, r)
  BY <1>1, <1>6 DEF PutArrives
<1> QED
  BY <1>2, <1>3, <1>4, <1>5, <1>6 DEF MenuArrives

\* Every step of the menu (MenuNext).
LEMMA MenuKeeps == ASSUME OfficeInv, MenuNext, UNCHANGED shiftRows PROVE OfficeInv'
<1>1. ~AtShifts /\ Shape
  BY DEF MenuNext, AtShifts, OfficeInv
<1>2. ASSUME NEW i \in Slots, MenuArrives(i) PROVE Stays
  <2>1. \E r : Begins(i, r)
    BY <1>2, MenuBegins
  <2> QED
    BY <1>1, <2>1, BeginsStays
<1>3. ASSUME NEW i \in Slots, MenuStep(i) PROVE Stays
  <2>1. UNCHANGED <<counts, torn>>
    BY <1>3 DEF MenuStep, Rebuilds, Saves, InsertsFirst, Adopts, Puts, Follows, ReadsIds,
       WritesRow, DeletesRow
  <2> QED
    BY <1>1, <2>1, SameStays
<1>4. Stays
  BY <1>2, <1>3 DEF MenuNext
<1> QED
  BY <1>1, <1>4, ElsewhereKeeps

\* No step at all.
LEMMA StutterKeeps == ASSUME OfficeInv, UNCHANGED vars PROVE OfficeInv'
<1>1. UNCHANGED <<clock, entries, breaks, checks, claims, settings, runs, req, counts, torn>>
  BY DEF vars, shiftRows, deskVars
<1>2. Rows'
  BY <1>1 DEF OfficeInv, Shape, Rows
<1>3. Shape'
  BY <1>1, <1>2 DEF OfficeInv, Shape, AtShifts, Asked, At
<1>4. Days(entries, breaks, claims, clock, torn)' /\ Stands(runs, claims, torn)'
      /\ Sure(settings)'
  BY <1>1 DEF OfficeInv
<1>5. AtShifts' => \A i \in Slots : Knows(req[i], entries, breaks, claims, checks, torn)'
  BY <1>1 DEF OfficeInv, AtShifts
<1> QED
  BY <1>3, <1>4, <1>5 DEF OfficeInv

\* OfficeInv is inductive.
LEMMA OfficeKeeps == ASSUME OfficeInv, [Next]_vars PROVE OfficeInv'
BY ShiftsKeeps, ZonesKeeps, RecipesKeeps, MenuKeeps, DiesKeeps, StutterKeeps DEF Next

-----------------------------------------------------------------------------
(* The first state, and the theorems.                                      *)

\* Who is on shift at first has an entry with nothing credited.
LEMMA OnShiftIsEntry ==
  ASSUME NEW e \in OnShift PROVE e \in Entry /\ e.hours = 0 /\ e.at = 0
<1>1. /\ e.staff \in Staff /\ e.at = 0 /\ e.out = None /\ e.hours = 0 /\ e.status = ""
      /\ e.overtime = 0
      /\ e = [staff |-> e.staff, at |-> e.at, out |-> e.out, hours |-> e.hours,
              status |-> e.status, overtime |-> e.overtime]
  BY DEF OnShift
<1>2. e.at \in Nat /\ e.out \in Int /\ e.hours \in Nat /\ e.status \in Marks /\ e.overtime \in Int
  <2>1. None \in Int /\ 0 \in Int /\ 0 \in Nat /\ "" \in Marks
    BY DEF None, Marks
  <2> DEFINE n == None
             z == 0
             m == ""
  <2>2. e.at = z /\ e.out = n /\ e.hours = z /\ e.status = m /\ e.overtime = z
    BY <1>1
  <2>3. n \in Int /\ z \in Int /\ z \in Nat /\ m \in Marks
    BY <2>1
  <2> HIDE DEF n, z, m
  <2> QED
    BY <2>2, <2>3
<1> QED
  BY <1>1, <1>2 DEF Entry

\* A sequence with no rows.
LEMMA NoRows == \A S : <<>> \in Seq(S) /\ DOMAIN <<>> = {}
OBVIOUS

\* At first nobody has been credited anything.
LEMMA FirstWorked ==
  ASSUME NEW es \in Seq(OnShift), NEW p \in Staff,
         \A m, n \in DOMAIN es : es[m].staff = es[n].staff => m = n
  PROVE  es \in Seq(Entry) /\ Worked(es, 0, p)
<1>1. \A e \in OnShift : e \in Entry /\ e.hours = 0 /\ e.at = 0
  BY OnShiftIsEntry
<1>2. es \in Seq(Entry)
  <2>1. \A n \in 1 .. Len(es) : es[n] \in OnShift
    OBVIOUS
  <2>2. es = [n \in 1 .. Len(es) |-> es[n]] /\ Len(es) \in Nat
    OBVIOUS
  <2> QED
    BY <1>1, <2>1, <2>2, SeqDef
<1>3. \A n \in DOMAIN es : es[n].hours = 0 /\ es[n].at = 0
  <2>1. \A n \in DOMAIN es : es[n] \in OnShift
    OBVIOUS
  <2> QED
    BY <1>1, <2>1
<1>4. IsFiniteSet(Mine(es, p)) /\ Cardinality(Mine(es, p)) \in Nat
  BY <1>2, MineIs
<1>5. Total(es, p) = 0
  <2> DEFINE M == Mine(es, p)
             f == [n \in M |-> es[n].hours]
  <2>1. \A n \in M : f[n] = 0
    BY <1>3 DEF Mine
  <2> HIDE DEF M, f
  <2>2. SumOver(f, M) = 0
    BY <1>4, <2>1, SumZero DEF M
  <2> QED
    BY <2>2 DEF Total, M, f
<1>6. \A n \in DOMAIN es : Open(es[n], p) => Cardinality(Mine(es, p)) >= 1
  <2> SUFFICES ASSUME NEW n \in DOMAIN es, Open(es[n], p) PROVE Cardinality(Mine(es, p)) >= 1
    OBVIOUS
  <2>1. n \in Mine(es, p)
    BY DEF Open, Mine
  <2>2. Cardinality(Mine(es, p)) # 0
    BY <1>4, <2>1, FS_EmptySet
  <2> QED
    BY <1>4, <2>2
<1>7. \A m, n \in DOMAIN es : Open(es[m], p) /\ Open(es[n], p) => m = n
  BY DEF Open
<1> DEFINE c == Cardinality(Mine(es, p))
<1>8. \A n \in DOMAIN es : Open(es[n], p) =>
        120 * Total(es, p) + 60 <= 200 * es[n].at + 60 * Cardinality(Mine(es, p))
  <2> SUFFICES ASSUME NEW n \in DOMAIN es, Open(es[n], p)
               PROVE  120 * Total(es, p) + 60 <= 200 * es[n].at + 60 * c
    OBVIOUS
  <2>1. c \in Nat /\ c >= 1 /\ Total(es, p) = 0 /\ es[n].at = 0
    BY <1>3, <1>4, <1>5, <1>6
  <2> HIDE DEF c
  <2> QED
    BY <2>1
<1>9. 120 * Total(es, p) <= 200 * 0 + 60 * Cardinality(Mine(es, p))
  <2>1. c \in Nat /\ Total(es, p) = 0
    BY <1>4, <1>5
  <2> QED
    BY <2>1
<1> QED
  BY <1>2, <1>7, <1>8, <1>9 DEF Worked

\* OfficeInv holds at first.
LEMMA FirstInv == ASSUME Init PROVE OfficeInv
<1>1. /\ clock = 0 /\ breaks = <<>> /\ runs = <<>> /\ entries \in FirstEntries
      /\ claims \in FirstClaims /\ checks = [c \in Checks |-> [by |-> "", state |-> "none"]]
      /\ \E row, up \in BOOLEAN : settings = NewSettings(row, up)
  BY DEF Init, ShiftsInit
<1>2. /\ req = [i \in Slots |-> FreeSlot] /\ torn = {}
      /\ \E d \in Desks : counts = [desk |-> d, requests |-> 0, changes |-> 0, cut |-> <<>>]
  BY DEF Init, DeskInit
<1>3. /\ entries \in Seq(OnShift) /\ claims \in Seq(ClaimRow)
      /\ \A m, n \in DOMAIN entries : entries[m].staff = entries[n].staff => m = n
      /\ \A p \in Staff : \A m, n \in DOMAIN claims :
           LeaveOf(claims[m], p) /\ LeaveOf(claims[n], p) /\ m # n => Apart(claims[m], claims[n])
  BY <1>1, FirstRowsAssumption
<1>4. entries \in Seq(Entry)
  <2>1. \A e \in OnShift : e \in Entry
    BY OnShiftIsEntry
  <2>2. \A n \in 1 .. Len(entries) : entries[n] \in OnShift
    BY <1>3
  <2>3. entries = [n \in 1 .. Len(entries) |-> entries[n]] /\ Len(entries) \in Nat
    BY <1>3
  <2> QED
    BY <2>1, <2>2, <2>3, SeqDef
<1>5. \A n \in DOMAIN entries : entries[n].at = 0 /\ entries[n].hours = 0
  <2>1. \A n \in DOMAIN entries : entries[n] \in OnShift
    BY <1>3
  <2> QED
    BY <2>1 DEF OnShift
<1>6. DOMAIN breaks = {} /\ DOMAIN runs = {} /\ breaks \in Seq(Break) /\ IsSeq(runs)
  <2>1. breaks = <<>> /\ runs = <<>>
    BY <1>1
  <2> QED
    BY <2>1, NoRows DEF IsSeq
<1>7. settings \in Setting /\ Sure(settings)
  <2>1. FirstRates \in Rates
    BY RatesAssumption
  <2>2. ASSUME NEW row \in BOOLEAN, NEW up \in BOOLEAN
        PROVE  NewSettings(row, up) \in Setting /\ Sure(NewSettings(row, up))
    <3>1. NewSettings(row, up) \in Setting
      <4>1. (~row) \in BOOLEAN
        OBVIOUS
      <4> QED
        BY <2>1, <4>1, Zenon DEF NewSettings, Setting
    <3>2. NewSettings(row, up).rates = NewSettings(row, up).confirmed
      BY DEF NewSettings
    <3> QED
      BY <3>1, <3>2, Zenon DEF Sure, AtConfirmed
  <2> QED
    BY <1>1, <2>2, Zenon
<1>8. checks \in [Checks -> Check]
  <2>1. [by |-> "", state |-> "none"] \in Check
    BY DEF Check, CheckStates
  <2> QED
    BY <1>1, <2>1
<1>9. Rows
  <2>1. clock = 0
    BY <1>1
  <2>2. clock \in Nat /\ \A n \in DOMAIN entries : entries[n].at <= clock
    BY <2>1, <1>5
  <2> QED
    BY <1>3, <1>4, <1>5, <1>6, <1>7, <1>8, <2>2 DEF Rows
<1>10. \A i \in Slots : req[i] = FreeSlot
  BY <1>2
<1>11. Shape
  <2>1. req \in [Slots -> Request] /\ \A i \in Slots : Fits(req[i], entries, breaks, claims)
    BY <1>2, FreeFits
  <2>2. \A i \in Slots : req[i].pc = "free"
    BY <1>10, FreeFits
  <2>3. Asked
    BY <2>1, <2>2 DEF Asked, At
  <2>4. "desk" \in DOMAIN counts
    BY <1>2
  <2> QED
    BY <1>9, <2>3, <2>4 DEF Shape
<1>12. Days(entries, breaks, claims, clock, torn)
  <2> SUFFICES ASSUME NEW p \in Staff
               PROVE  Worked(entries, clock, p) /\ Away(claims, torn, p) /\ Rested(entries, breaks, p)
    BY DEF Days
  <2>1. Worked(entries, clock, p)
    BY <1>1, <1>3, FirstWorked
  <2>2. Away(claims, torn, p)
    BY <1>3 DEF Away
  <2>3. Rested(entries, breaks, p)
    BY <1>6 DEF Rested
  <2> QED
    BY <2>1, <2>2, <2>3
<1>13. Stands(runs, claims, torn)
  BY <1>6 DEF Stands
<1>14. \A i \in Slots : Knows(req[i], entries, breaks, claims, checks, torn)
  <2>1. FreeSlot.pc = "free"
    BY DEF FreeSlot
  <2> QED
    BY <1>10, <2>1, KnowsNothing
<1> QED
  BY <1>7, <1>11, <1>12, <1>13, <1>14 DEF OfficeInv

\* The rows of the two desks and what their requests have read stay as OfficeInv says.
THEOREM OfficeHolds == Spec => []OfficeInv
<1>1. Init => OfficeInv
  BY FirstInv
<1>2. OfficeInv /\ [Next]_vars => OfficeInv'
  BY OfficeKeeps
<1> QED
  BY <1>1, <1>2, PTL DEF Spec

\* Nobody is credited more hours than went by, on leave twice or on two breaks.
THEOREM NothingHappensTwice == Spec => []NothingTwice
<1>1. OfficeInv => NothingTwice
  <2> SUFFICES ASSUME OfficeInv, NEW p \in Staff, Clerk(p) \notin torn
               PROVE  /\ HoursOnce(p) /\ LeaveOnce(p)
                      /\ \A a, b \in DOMAIN breaks :
                           breaks[a] = breaks[b] /\ breaks[a].open
                             /\ entries[breaks[a].entry].staff = p => a = b
    BY DEF NothingTwice
  <2>1. Worked(entries, clock, p) /\ Away(claims, torn, p) /\ Rested(entries, breaks, p)
    BY DEF OfficeInv, Days
  <2>2. HoursOnce(p)
    BY <2>1 DEF Worked, HoursOnce, Total, Mine
  <2>3. LeaveOnce(p)
    BY <2>1 DEF Away, LeaveOnce
  <2>4. \A a, b \in DOMAIN breaks :
          breaks[a] = breaks[b] /\ breaks[a].open /\ entries[breaks[a].entry].staff = p => a = b
    BY <2>1 DEF Rested
  <2> QED
    BY <2>2, <2>3, <2>4
<1> QED
  BY <1>1, OfficeHolds, PTL

\* What a payroll run pays was approved by somebody else and stays so, and it says when
\* its rates are not those confirmed, unless the flag it read was behind or not read.
THEOREM PayrollsStand == Spec => []PayrollStands
<1>1. OfficeInv => PayrollStands
  <2> SUFFICES ASSUME OfficeInv, NEW k \in DOMAIN runs
               PROVE  PaidWasApproved(k) /\ (runs[k].provisional \/ AtConfirmed(runs[k].at))
    BY DEF PayrollStands
  <2>1. runs[k].claims \subseteq DOMAIN claims /\ claims \in Seq(ClaimRow)
    BY DEF OfficeInv, Shape, Rows
  <2>2. \A n \in DOMAIN claims : claims[n] \in ClaimRow
    BY <2>1
  <2> QED
    BY <2>1, <2>2 DEF OfficeInv, Stands, PaidWasApproved, ClaimRow
<1> QED
  BY <1>1, OfficeHolds, PTL

\* Whoever clocks out without a manager's force owes only what came behind the gate, and
\* what a payment held when it looked.
THEOREM NobodyHasLeftOwing == Spec => NobodyLeavesOwing
<1> DEFINE Left == \A i \in Slots :
      At(i, "out") /\ ~req[i].force /\ req'[i] = FreeSlot /\ entries' # entries
        => Owed(req[i].key[2]) \subseteq req[i].since
<1>1. OfficeInv /\ [Next]_vars => [Left]_shiftRows
  <2> SUFFICES ASSUME OfficeInv, [Next]_vars, shiftRows' # shiftRows, NEW i \in Slots,
                      At(i, "out"), ~req[i].force, NEW c \in Owed(req[i].key[2])
               PROVE  c \in req[i].since
    OBVIOUS
  <2>1. AtShifts
    BY DEF Next, vars, ShiftsNext, AtShifts
  <2>2. c \in Checks /\ checks[c].by = req[i].key[2] /\ checks[c].state \notin {"none", "paid", "voided"}
    BY DEF Owed
  <2>3. checks[c].state \in CheckStates
    <3>1. checks \in [Checks -> Check]
      BY DEF OfficeInv, Shape, Rows
    <3> QED
      BY <2>2, <3>1 DEF Check
  <2>4. checks[c].state \in Owing
    BY <2>2, <2>3 DEF CheckStates, Owing
  <2> QED
    BY <2>1, <2>2, <2>4 DEF OfficeInv, Knows, KnowsOwed, At
<1>2. [][OfficeInv /\ [Next]_vars]_shiftRows => [][Left]_shiftRows
  BY <1>1, PTL
<1> QED
  BY <1>1, OfficeHolds, PTL DEF Spec, NobodyLeavesOwing

-----------------------------------------------------------------------------
(* The recipes.                                                            *)

\* Some numbers have a least.
LEMMA FirstIs ==
  ASSUME NEW S \in SUBSET Nat, S # {} PROVE FirstOf(S) \in S
<1>1. PICK n \in S : \A m \in S : ~(<<m, n>> \in OpToRel(<, Nat))
  BY NatLessThanWellFounded, WFMin
<1>2. \A m \in S : ~(m < n)
  BY <1>1 DEF OpToRel
<1>3. \A m \in S : n <= m
  BY <1>2
<1> QED
  BY <1>3 DEF FirstOf

Pairs == {Pair(d, v) : d \in Dishes, v \in Variants}

Edit == [op : {"none", "revise", "retire", "sale"},
         pc : {"free", "supersede", "recipe", "bom", "retire", "lines"},
         key : {House} \cup Pairs, row : Nat, force : BOOLEAN, new : {<<>>} \cup Boms,
         todo : {{}}, found : SUBSET Nat, since : {{}}]

\* Row n is one of variant v of dish d.
RowOf(rs, n, d, v) == n \in DOMAIN rs /\ rs[n].dish = d /\ rs[n].variant = v

Active(rs, n, d, v) == RowOf(rs, n, d, v) /\ rs[n].active

\* A request's row and lines fit its step.  A sale holds a row that is due, with its
\* lines, unless nothing was to be told.
FitsRows(q, rs) ==
  /\ q.row \in {0} \cup DOMAIN rs
  /\ q.pc = "free" => q.op = "none"
  /\ q.pc \in {"supersede", "recipe", "bom"} => q.op = "revise" /\ q.key \in Pairs /\ q.new \in Boms
  /\ q.pc = "retire" => q.op = "retire" /\ q.key \in Pairs
  /\ q.pc \in {"supersede", "bom", "retire"} => RowOf(rs, q.row, q.key[2], q.key[3])
  /\ q.pc = "bom" => rs[q.row].lines = NoLines
  /\ q.pc = "lines" /\ q.found # {} =>
       q.row \in q.found /\ (q.row # 0 => rs[q.row].lines # NoLines)

AtRecipes == counts.desk = "recipes"

\* An edit of dish d that was cut short.
CutShort(cut, d) == \E k \in DOMAIN cut : cut[k].op = "revise" /\ cut[k].key[2] = d

\* The rows: one active at most of each variant, the one in the book.
Shelved(rs, bk) ==
  /\ rs \in Seq(RecipeRow) /\ bk \in [Dishes \X Variants -> Nat]
  /\ \A d \in Dishes, v \in Variants :
       /\ bk[<<d, v>>] # 0 => RowOf(rs, bk[<<d, v>>], d, v)
       /\ \A n \in DOMAIN rs : Active(rs, n, d, v) => n = bk[<<d, v>>]

\* The sales: each used the lines of a row that was due, which still says so.
Sold(rs, ss) == \A s \in ss : s.due # {} =>
  /\ s.recipe \in s.due
  /\ s.recipe # 0 => s.recipe \in DOMAIN rs /\ s.used # NoLines /\ rs[s.recipe].lines = s.used

\* What is in the book is active, or is being replaced, or that was cut short; and a row
\* without lines is one that somebody is writing, or that was cut short.
Replacing(d, v) == \E i \in Slots : At(i, "recipe") /\ req[i].key = Pair(d, v)
Writing(n)      == \E i \in Slots : At(i, "bom") /\ req[i].row = n

Tracked(rs, bk) ==
  /\ \A d \in Dishes, v \in Variants :
       bk[<<d, v>>] # 0 => rs[bk[<<d, v>>]].active \/ Replacing(d, v) \/ CutShort(counts.cut, d)
  /\ \A n \in DOMAIN rs : rs[n].lines = NoLines => Writing(n) \/ CutShort(counts.cut, rs[n].dish)

Revising ==
  /\ req \in [Slots -> Edit] /\ \A i \in Slots : FitsRows(req[i], recipes)
  /\ \A i, j \in Slots : At(i, "bom") /\ At(j, "bom") /\ req[i].row = req[j].row => i = j

Told == {"desk", "cut"} \subseteq DOMAIN counts /\ IsSeq(counts.cut)

RecipesInv ==
  /\ Told
  /\ Shelved(recipes, book) /\ Sold(recipes, sales)
  /\ AtRecipes => Revising /\ Tracked(recipes, book)

-----------------------------------------------------------------------------
(* Rows, and requests that go on.                                          *)

\* Lines once written stay, as does what a row is a recipe of.
Kept(rs, rs2) == \A n \in DOMAIN rs :
  /\ n \in DOMAIN rs2 /\ rs2[n].dish = rs[n].dish /\ rs2[n].variant = rs[n].variant
  /\ rs[n].lines # NoLines => rs2[n].lines = rs[n].lines

\* What the sales used is as it was.
LEMMA SoldKept ==
  ASSUME NEW rs, NEW rs2, NEW ss, Kept(rs, rs2), Sold(rs, ss) PROVE Sold(rs2, ss)
BY DEF Kept, Sold

\* Requests still fit; whoever writes lines must still find none.
LEMMA FitsKept ==
  ASSUME NEW rs, NEW rs2, NEW q, Kept(rs, rs2), FitsRows(q, rs),
         q.pc = "bom" => rs2[q.row].lines = NoLines
  PROVE  FitsRows(q, rs2)
BY DEF Kept, FitsRows, RowOf

\* A free slot fits.
LEMMA FreeEdit ==
  /\ FreeSlot \in Edit /\ FreeSlot.pc = "free" /\ FreeSlot.op = "none"
  /\ \A rs : FitsRows(FreeSlot, rs)
<1>1. FreeSlot \in Edit /\ FreeSlot.pc = "free" /\ FreeSlot.op = "none" /\ FreeSlot.row = 0
  BY DEF FreeSlot, Edit
<1> QED
  BY <1>1 DEF FitsRows

\* A step of a request leaves all of it but where it stands.
LEMMA EditStep ==
  ASSUME NEW r \in Edit,
         NEW pc \in {"free", "supersede", "recipe", "bom", "retire", "lines"}
  PROVE  /\ [r EXCEPT !.pc = pc] \in Edit /\ [r EXCEPT !.pc = pc].pc = pc
         /\ [r EXCEPT !.pc = pc].op = r.op /\ [r EXCEPT !.pc = pc].key = r.key
         /\ [r EXCEPT !.pc = pc].row = r.row /\ [r EXCEPT !.pc = pc].new = r.new
         /\ [r EXCEPT !.pc = pc].found = r.found
BY DEF Edit

\* A slot's request changes, and the rows with it.
LEMMA Reworked ==
  ASSUME RecipesInv, AtRecipes, NEW i \in Slots, NEW r \in Edit, Goes(i, r),
         Told', counts'.desk = counts.desk, Kept(recipes, recipes'),
         Shelved(recipes', book'), Sold(recipes', sales'), FitsRows(r, recipes'),
         \A j \in Slots \ {i} : req[j].pc = "bom" =>
            /\ recipes'[req[j].row].lines = NoLines
            /\ r.pc = "bom" => req[j].row # r.row,
         Tracked(recipes, book)'
  PROVE  RecipesInv'
<1>1. req' = [req EXCEPT ![i] = r] /\ req \in [Slots -> Edit]
  BY DEF Goes, RecipesInv, Revising
<1>2. \A j \in Slots : req'[j] = IF j = i THEN r ELSE req[j]
  BY <1>1
<1>3. req' \in [Slots -> Edit]
  BY <1>1
<1>4. \A j \in Slots : FitsRows(req'[j], recipes')
  <2> SUFFICES ASSUME NEW j \in Slots, j # i PROVE FitsRows(req[j], recipes')
    BY <1>2
  <2>1. FitsRows(req[j], recipes)
    BY DEF RecipesInv, Revising
  <2> QED
    BY <2>1, FitsKept
<1>5. ASSUME NEW j \in Slots, NEW k \in Slots, req'[j].pc = "bom", req'[k].pc = "bom",
             req'[j].row = req'[k].row
      PROVE  j = k
  <2>1. CASE j # i /\ k # i
    BY <1>2, <1>5, <2>1 DEF RecipesInv, Revising, At
  <2>2. CASE j = i \/ k = i
    BY <1>2, <1>5, <2>2
  <2> QED
    BY <2>1, <2>2
<1>6. Revising'
  BY <1>3, <1>4, <1>5 DEF Revising, At
<1> QED
  BY <1>6 DEF RecipesInv

\* What is left behind: whoever was replacing a row still is, or it is active again, and
\* the like of lines.
LEMMA StillTracked ==
  ASSUME RecipesInv, AtRecipes, NEW i \in Slots, NEW r \in Edit, Goes(i, r),
         DOMAIN counts.cut \subseteq DOMAIN counts'.cut,
         \A k \in DOMAIN counts.cut : counts'.cut[k] = counts.cut[k],
         \A d \in Dishes, v \in Variants : book'[<<d, v>>] # 0 =>
            \/ recipes'[book'[<<d, v>>]].active
            \/ r.pc = "recipe" /\ r.key = Pair(d, v)
            \/ CutShort(counts'.cut, d)
            \/ /\ book'[<<d, v>>] = book[<<d, v>>] /\ ~recipes[book[<<d, v>>]].active
               /\ ~(req[i].pc = "recipe" /\ req[i].key = Pair(d, v)),
         \A n \in DOMAIN recipes' : recipes'[n].lines = NoLines =>
            \/ r.pc = "bom" /\ r.row = n
            \/ CutShort(counts'.cut, recipes'[n].dish)
            \/ /\ n \in DOMAIN recipes /\ recipes[n].lines = NoLines
               /\ recipes'[n].dish = recipes[n].dish
               /\ ~(req[i].pc = "bom" /\ req[i].row = n)
  PROVE  Tracked(recipes, book)'
<1>1. req' = [req EXCEPT ![i] = r] /\ req \in [Slots -> Edit]
  BY DEF Goes, RecipesInv, Revising
<1>2. \A j \in Slots : req'[j] = IF j = i THEN r ELSE req[j]
  BY <1>1
<1>3. ASSUME NEW d, CutShort(counts.cut, d) PROVE CutShort(counts'.cut, d)
  BY <1>3 DEF CutShort
<1>4. ASSUME NEW d \in Dishes, NEW v \in Variants, book'[<<d, v>>] # 0
      PROVE  recipes'[book'[<<d, v>>]].active \/ Replacing(d, v)' \/ CutShort(counts'.cut, d)
  <2>1. CASE r.pc = "recipe" /\ r.key = Pair(d, v)
    BY <1>2, <2>1 DEF Replacing, At
  <2>2. CASE /\ book'[<<d, v>>] = book[<<d, v>>] /\ ~recipes[book[<<d, v>>]].active
             /\ ~(req[i].pc = "recipe" /\ req[i].key = Pair(d, v))
    <3>1. Replacing(d, v) \/ CutShort(counts.cut, d)
      BY <1>4, <2>2 DEF RecipesInv, Tracked
    <3>2. CASE Replacing(d, v)
      BY <1>2, <2>2, <3>2 DEF Replacing, At
    <3> QED
      BY <1>3, <3>1, <3>2
  <2> QED
    BY <1>4, <2>1, <2>2
<1>5. ASSUME NEW n \in DOMAIN recipes', recipes'[n].lines = NoLines
      PROVE  (\E j \in Slots : req'[j].pc = "bom" /\ req'[j].row = n)
             \/ CutShort(counts'.cut, recipes'[n].dish)
  <2>1. CASE r.pc = "bom" /\ r.row = n
    BY <1>2, <2>1 DEF Writing, At
  <2>2. CASE /\ n \in DOMAIN recipes /\ recipes[n].lines = NoLines
             /\ recipes'[n].dish = recipes[n].dish
             /\ ~(req[i].pc = "bom" /\ req[i].row = n)
    <3>1. Writing(n) \/ CutShort(counts.cut, recipes[n].dish)
      BY <2>2 DEF RecipesInv, Tracked
    <3>2. CASE Writing(n)
      BY <1>2, <2>2, <3>2 DEF Writing, At
    <3>3. CASE CutShort(counts.cut, recipes[n].dish)
      BY <1>3, <2>2, <3>3
    <3> QED
      BY <3>1, <3>2, <3>3
  <2> QED
    BY <1>5, <2>1, <2>2
<1> QED
  BY <1>4, <1>5 DEF Tracked, Writing, At

\* What an arrival leaves of the counts.
LEMMA Begun ==
  ASSUME Told, NEW i, NEW r, Begins(i, r)
  PROVE  Told' /\ counts'.desk = counts.desk /\ counts'.cut = counts.cut
<1>1. counts' = [counts EXCEPT !.requests = @ + 1]
  BY DEF Begins
<1> QED
  BY <1>1 DEF Told

\* A request arrives.
LEMMA ComesToRecipes ==
  ASSUME RecipesInv, AtRecipes, NEW i \in Slots, NEW r \in Edit, AsksRecipes(i, r),
         r.pc # "bom", FitsRows(r, recipes)
  PROVE  RecipesInv'
<1>1. /\ UNCHANGED <<recipes, sales, book>> /\ Begins(i, r) /\ Goes(i, r) /\ req[i].pc = "free"
  BY DEF AsksRecipes, Begins, recipeRows, At
<1>2. Told' /\ counts'.desk = counts.desk /\ counts'.cut = counts.cut
  BY <1>1, Begun DEF RecipesInv
<1>3. Kept(recipes, recipes') /\ Shelved(recipes', book') /\ Sold(recipes', sales')
  BY <1>1 DEF RecipesInv, Kept
<1>4. \A j \in Slots \ {i} : req[j].pc = "bom" => recipes'[req[j].row].lines = NoLines
  BY <1>1 DEF RecipesInv, Revising, FitsRows
<1>5. Tracked(recipes, book)'
  BY <1>1, <1>2, StillTracked
<1> QED
  BY <1>1, <1>2, <1>3, <1>4, <1>5, Reworked

\* Names of recipes.
LEMMA PairIs ==
  /\ \A k \in Pairs : k[2] \in Dishes /\ k[3] \in Variants /\ k = Pair(k[2], k[3])
  /\ \A d \in Dishes, v \in Variants : Pair(d, v) \in Pairs
  /\ \A d, v : Pair(d, v)[2] = d /\ Pair(d, v)[3] = v
BY DEF Pairs, Pair

\* The first of some rows is one of them.
LEMMA FirstRow ==
  ASSUME Shelved(recipes, book), NEW S, S \subseteq DOMAIN recipes
  PROVE  /\ S = {} => FirstOf(S) = 0
         /\ S # {} => FirstOf(S) \in S
         /\ FirstOf(S) \in {0} \cup DOMAIN recipes /\ 0 \notin DOMAIN recipes
         /\ DOMAIN recipes \subseteq Nat
<1>1. DOMAIN recipes = 1 .. Len(recipes) /\ Len(recipes) \in Nat
  BY DEF Shelved
<1>2. DOMAIN recipes \subseteq Nat /\ 0 \notin DOMAIN recipes
  BY <1>1
<1>3. S # {} => FirstOf(S) \in S
  BY <1>2, FirstIs
<1>4. S = {} => FirstOf(S) = 0
  BY DEF FirstOf
<1> QED
  BY <1>2, <1>3, <1>4

\* createRecipe.
LEMMA RevisionArrivesFits ==
  ASSUME RecipesInv, AtRecipes, NEW i \in Slots, NEW d \in Dishes, NEW v \in Variants,
         NEW bom \in Boms, RevisionArrives(i, d, v, bom)
  PROVE  RecipesInv'
<1> DEFINE n  == CurrentOf(d, v)
           pc == IF n = 0 THEN "recipe" ELSE "supersede"
           r  == [FreeSlot EXCEPT !.op = "revise", !.key = Pair(d, v), !.row = n, !.pc = pc,
                    !.new = bom]
<1>1. AsksRecipes(i, r)
  BY DEF RevisionArrives
<1>2. ActiveAs(d, v) \subseteq DOMAIN recipes /\ Shelved(recipes, book)
  BY DEF ActiveAs, ActiveOf, RecipesInv
<1>3. n \in {0} \cup DOMAIN recipes /\ (n # 0 => n \in ActiveAs(d, v)) /\ n \in Nat
  BY <1>2, FirstRow DEF CurrentOf
<1>4. n # 0 => RowOf(recipes, n, d, v)
  BY <1>3 DEF ActiveAs, ActiveOf, RowOf
<1>5. Pair(d, v) \in Pairs /\ Pair(d, v)[2] = d /\ Pair(d, v)[3] = v
  BY PairIs
<1>6. /\ r \in Edit /\ r.op = "revise" /\ r.pc = pc /\ r.key = Pair(d, v) /\ r.row = n
      /\ r.new = bom
  <2> HIDE DEF n
  <2>1. pc \in {"supersede", "recipe"}
    OBVIOUS
  <2> HIDE DEF pc
  <2> QED
    BY <1>3, <1>5, <2>1 DEF FreeSlot, Edit
<1>7. FitsRows(r, recipes)
  <2> HIDE DEF n, r
  <2> QED
    BY <1>3, <1>4, <1>5, <1>6 DEF FitsRows
<1> HIDE DEF r
<1> QED
  BY <1>1, <1>6, <1>7, ComesToRecipes

\* archiveRecipe.
LEMMA RetirementArrivesFits ==
  ASSUME RecipesInv, AtRecipes, NEW i \in Slots, NEW n \in DOMAIN recipes, RetirementArrives(i, n)
  PROVE  RecipesInv'
<1> DEFINE k == Pair(recipes[n].dish, recipes[n].variant)
           r == [FreeSlot EXCEPT !.op = "retire", !.pc = "retire", !.row = n, !.key = k]
<1>1. AsksRecipes(i, r)
  BY DEF RetirementArrives
<1>2. recipes[n] \in RecipeRow /\ n \in Nat
  BY DEF RecipesInv, Shelved
<1>3. recipes[n].dish \in Dishes /\ recipes[n].variant \in Variants
  BY <1>2 DEF RecipeRow
<1>4. k \in Pairs /\ RowOf(recipes, n, k[2], k[3])
  BY <1>3, PairIs DEF RowOf
<1> HIDE DEF k
<1>5. r \in Edit /\ r.op = "retire" /\ r.pc = "retire" /\ r.key = k /\ r.row = n
  BY <1>2, <1>4 DEF FreeSlot, Edit
<1> HIDE DEF r
<1>6. FitsRows(r, recipes)
  BY <1>4, <1>5 DEF FitsRows
<1> QED
  BY <1>1, <1>5, <1>6, ComesToRecipes

\* A dish that nobody edits: its active rows of some variants are those in the book, and
\* have their lines.
LEMMA BookTells ==
  ASSUME RecipesInv, AtRecipes, NEW d \in Dishes,
         \A j \in Slots : ~(req[j].op \in {"revise", "retire"} /\ req[j].key[2] = d),
         ~CutShort(counts.cut, d)
  PROVE  \A W : /\ {n \in ActiveOf(d) : recipes[n].variant \in W}
                     = {book[<<d, w>>] : w \in W \cap Variants} \ {0}
                /\ \A n \in ActiveOf(d) : recipes[n].lines # NoLines
<1>1. \A j \in Slots : FitsRows(req[j], recipes)
  BY DEF RecipesInv, Revising
<1>2. ASSUME NEW v \in Variants, book[<<d, v>>] # 0
      PROVE  Active(recipes, book[<<d, v>>], d, v)
  <2>1. ~Replacing(d, v)
    BY <1>1, PairIs DEF Replacing, At, FitsRows
  <2>2. recipes[book[<<d, v>>]].active
    BY <1>2, <2>1 DEF RecipesInv, Tracked
  <2> QED
    BY <1>2, <2>2 DEF RecipesInv, Shelved, Active
<1>3. ASSUME NEW n \in ActiveOf(d)
      PROVE  /\ n \in DOMAIN recipes /\ n # 0 /\ recipes[n].variant \in Variants
             /\ n = book[<<d, recipes[n].variant>>] /\ recipes[n].lines # NoLines
  <2>1. n \in DOMAIN recipes /\ recipes[n].dish = d /\ recipes[n].active /\ n # 0
    BY DEF ActiveOf, RecipesInv, Shelved
  <2>2. recipes[n] \in RecipeRow
    BY <2>1 DEF RecipesInv, Shelved
  <2>3. recipes[n].variant \in Variants
    BY <2>2 DEF RecipeRow
  <2>4. Active(recipes, n, d, recipes[n].variant)
    BY <2>1 DEF Active, RowOf
  <2>5. n = book[<<d, recipes[n].variant>>]
    <3>1. \A v \in Variants : Active(recipes, n, d, v) => n = book[<<d, v>>]
      BY <2>1 DEF RecipesInv, Shelved
    <3> QED
      BY <2>3, <2>4, <3>1
  <2>6. ~Writing(n)
    BY <1>1, <2>1 DEF Writing, At, FitsRows, RowOf
  <2>7. recipes[n].lines # NoLines
    BY <2>1, <2>6 DEF RecipesInv, Tracked
  <2> QED
    BY <2>1, <2>3, <2>5, <2>7
<1>4. ASSUME NEW W
      PROVE  {n \in ActiveOf(d) : recipes[n].variant \in W}
               = {book[<<d, w>>] : w \in W \cap Variants} \ {0}
  <2>1. ASSUME NEW n \in ActiveOf(d), recipes[n].variant \in W
        PROVE  n \in {book[<<d, w>>] : w \in W \cap Variants} \ {0}
    BY <1>3, <2>1
  <2>2. ASSUME NEW w \in W \cap Variants, book[<<d, w>>] # 0
        PROVE  book[<<d, w>>] \in ActiveOf(d) /\ recipes[book[<<d, w>>]].variant \in W
    BY <1>2, <2>2 DEF Active, RowOf, ActiveOf
  <2> QED
    BY <2>1, <2>2
<1> QED
  BY <1>3, <1>4

\* What a sale takes of such a dish is due.
LEMMA SaleTakesDue ==
  ASSUME RecipesInv, AtRecipes, NEW d \in Dishes, NEW asked \in SUBSET Variants
  PROVE  LET n == SelectRecipeVariant(ActiveOf(d), asked)
         IN /\ n \in {0} \cup DOMAIN recipes /\ n \in Nat /\ Due(d, asked) \in SUBSET Nat
            /\ Due(d, asked) # {} => /\ n \in Due(d, asked)
                                     /\ n # 0 => recipes[n].lines # NoLines
<1> DEFINE edits(r)   == r.op \in {"revise", "retire"} /\ r.key[2] = d
           written(v) == {book[<<d, w>>] : w \in v \cap Variants} \ {0}
           like(W)    == {n \in ActiveOf(d) : recipes[n].variant \in W}
           Met     == \/ \E i \in Slots : edits(req[i])
                  \/ \E k \in DOMAIN counts.cut : edits(counts.cut[k])
           taken == IF like(asked \ {Plain}) # {} THEN like(asked \ {Plain})
                    ELSE IF like({Plain}) # {} THEN like({Plain}) ELSE ActiveOf(d)
           n == SelectRecipeVariant(ActiveOf(d), asked)
<1>1. n = FirstOf(taken)
  <2>1. like({Plain}) = {m \in ActiveOf(d) : recipes[m].variant = Plain}
    OBVIOUS
  <2> QED
    BY <2>1 DEF SelectRecipeVariant
<1>2. taken \subseteq ActiveOf(d) /\ ActiveOf(d) \subseteq DOMAIN recipes /\ Shelved(recipes, book)
  BY DEF ActiveOf, RecipesInv
<1>3. /\ n \in {0} \cup DOMAIN recipes /\ n \in Nat /\ (taken = {} => n = 0)
      /\ (taken # {} => n \in taken) /\ 0 \notin DOMAIN recipes
  <2> HIDE DEF taken, n
  <2> QED
    BY <1>1, <1>2, FirstRow
<1>4. \A v : written(v) \subseteq Nat
  BY <1>2 DEF Shelved
<1>5. Due(d, asked) = IF Met THEN {}
        ELSE IF written(asked \ {Plain}) # {} THEN written(asked \ {Plain})
        ELSE IF written({Plain}) # {} THEN written({Plain})
        ELSE IF written(Variants) # {} THEN written(Variants) ELSE {0}
  BY DEF Due
<1> HIDE DEF n, taken, written
<1>6. Due(d, asked) \in SUBSET Nat
  <2> HIDE DEF Met
  <2> QED
    BY <1>4, <1>5
<1>7. ASSUME Due(d, asked) # {} PROVE n \in Due(d, asked) /\ (n # 0 => recipes[n].lines # NoLines)
  <2>1. ~Met
    <3> HIDE DEF Met
    <3> QED
      BY <1>5, <1>7
  <2>2. \A j \in Slots : ~(req[j].op \in {"revise", "retire"} /\ req[j].key[2] = d)
    BY <2>1
  <2>3. ~CutShort(counts.cut, d)
    BY <2>1 DEF CutShort
  <2>4. \A W : like(W) = written(W)
    BY <2>2, <2>3, BookTells DEF written
  <2>5. \A m \in ActiveOf(d) : recipes[m].lines # NoLines
    BY <2>2, <2>3, BookTells
  <2>6. like(Variants) = ActiveOf(d)
    <3>1. \A m \in DOMAIN recipes : recipes[m].variant \in Variants
      <4> SUFFICES ASSUME NEW m \in DOMAIN recipes PROVE recipes[m].variant \in Variants
        OBVIOUS
      <4>1. recipes[m] \in RecipeRow
        BY <1>2 DEF Shelved
      <4> QED
        BY <4>1 DEF RecipeRow
    <3> QED
      BY <3>1, <1>2
  <2>7. Due(d, asked) = IF taken # {} THEN taken ELSE {0}
    <3> HIDE DEF like, Met
    <3> QED
      BY <1>5, <2>1, <2>4, <2>6 DEF taken
  <2>8. n \in Due(d, asked)
    BY <2>7, <1>3
  <2>9. n # 0 => n \in ActiveOf(d)
    BY <1>2, <1>3
  <2> QED
    BY <2>5, <2>8, <2>9
<1> QED
  BY <1>3, <1>6, <1>7 DEF n

\* consumeForOrder chooses.
LEMMA SaleArrivesFits ==
  ASSUME RecipesInv, AtRecipes, NEW i \in Slots, NEW d \in Dishes, NEW asked \in SUBSET Variants,
         SaleArrives(i, d, asked)
  PROVE  RecipesInv'
<1> DEFINE n == SelectRecipeVariant(ActiveOf(d), asked)
           due == Due(d, asked)
           r == [FreeSlot EXCEPT !.op = "sale", !.pc = "lines", !.found = due, !.row = n]
<1>1. AsksRecipes(i, r)
  BY DEF SaleArrives
<1>2. /\ n \in {0} \cup DOMAIN recipes /\ n \in Nat /\ due \in SUBSET Nat
      /\ due # {} => n \in due /\ (n # 0 => recipes[n].lines # NoLines)
  BY SaleTakesDue
<1> HIDE DEF n, due
<1>3. r \in Edit /\ r.op = "sale" /\ r.pc = "lines" /\ r.row = n /\ r.found = due
  BY <1>2 DEF FreeSlot, Edit
<1> HIDE DEF r
<1>4. FitsRows(r, recipes)
  BY <1>2, <1>3 DEF FitsRows
<1> QED
  BY <1>1, <1>3, <1>4, ComesToRecipes

-----------------------------------------------------------------------------
(* Writing the rows.                                                       *)

\* An archived row.
LEMMA ArchivedIs ==
  ASSUME Shelved(recipes, book), NEW n \in DOMAIN recipes
  PROVE  /\ Archived(n) \in Seq(RecipeRow) /\ DOMAIN Archived(n) = DOMAIN recipes
         /\ \A m \in DOMAIN recipes :
              /\ Archived(n)[m].dish = recipes[m].dish /\ Archived(n)[m].variant = recipes[m].variant
              /\ Archived(n)[m].lines = recipes[m].lines
              /\ Archived(n)[m].active = (m # n /\ recipes[m].active)
<1> DEFINE row == [recipes[n] EXCEPT !.active = FALSE]
<1>1. recipes \in Seq(RecipeRow) /\ recipes[n] \in RecipeRow
  BY DEF Shelved
<1>2. /\ row \in RecipeRow /\ row.active = FALSE /\ row.dish = recipes[n].dish
      /\ row.variant = recipes[n].variant /\ row.lines = recipes[n].lines
  BY <1>1 DEF RecipeRow
<1>3. Archived(n) = [recipes EXCEPT ![n] = row]
  BY DEF Archived
<1> HIDE DEF row
<1>4. /\ Archived(n) \in Seq(RecipeRow) /\ DOMAIN Archived(n) = DOMAIN recipes
      /\ \A m \in DOMAIN recipes : Archived(n)[m] = IF m = n THEN row ELSE recipes[m]
  BY <1>1, <1>2, <1>3, Replaced
<1>5. \A m \in DOMAIN recipes : recipes[m].active \in BOOLEAN
  <2> SUFFICES ASSUME NEW m \in DOMAIN recipes PROVE recipes[m].active \in BOOLEAN
    OBVIOUS
  <2>1. recipes[m] \in RecipeRow
    BY <1>1
  <2> QED
    BY <2>1 DEF RecipeRow
<1>6. ASSUME NEW m \in DOMAIN recipes
      PROVE  /\ Archived(n)[m].dish = recipes[m].dish /\ Archived(n)[m].variant = recipes[m].variant
             /\ Archived(n)[m].lines = recipes[m].lines
             /\ Archived(n)[m].active = (m # n /\ recipes[m].active)
  <2>1. CASE m = n
    <3>1. Archived(n)[m] = row
      BY <1>4, <2>1
    <3>2. Archived(n)[m].active = FALSE
      BY <1>2, <3>1
    <3> QED
      BY <1>2, <2>1, <3>1, <3>2
  <2>2. CASE m # n
    <3>1. Archived(n)[m] = recipes[m]
      BY <1>4, <2>2
    <3> QED
      BY <1>5, <2>2, <3>1
  <2> QED
    BY <2>1, <2>2
<1> QED
  BY <1>4, <1>6

\* The counts as they were.
LEMMA SameTold == ASSUME Told, counts' = counts PROVE Told' /\ counts'.desk = counts.desk
BY DEF Told

\* The first statement of a revision archives the row it found.
LEMMA SupersedesKeeps ==
  ASSUME RecipesInv, AtRecipes, NEW i \in Slots, Supersedes(i) PROVE RecipesInv'
<1> DEFINE n == req[i].row
           r == Step(i, "recipe")
<1>1. /\ req[i].pc = "supersede" /\ recipes' = Archived(n) /\ Goes(i, r)
      /\ sales' = sales /\ book' = book /\ counts' = counts
  BY DEF Supersedes, At
<1>2. req[i] \in Edit /\ FitsRows(req[i], recipes) /\ Shelved(recipes, book)
  BY DEF RecipesInv, Revising
<1>3. /\ r \in Edit /\ r.pc = "recipe" /\ r.op = req[i].op /\ r.key = req[i].key /\ r.row = n
      /\ r.new = req[i].new
  BY <1>2, EditStep DEF Step
<1>4. /\ RowOf(recipes, n, r.key[2], r.key[3]) /\ n \in DOMAIN recipes
      /\ r.op = "revise" /\ r.key \in Pairs /\ r.new \in Boms
  BY <1>1, <1>2, <1>3 DEF FitsRows, RowOf
<1>5. /\ recipes' \in Seq(RecipeRow) /\ DOMAIN recipes' = DOMAIN recipes
      /\ \A m \in DOMAIN recipes :
              /\ recipes'[m].dish = recipes[m].dish /\ recipes'[m].variant = recipes[m].variant
              /\ recipes'[m].lines = recipes[m].lines
              /\ recipes'[m].active = (m # n /\ recipes[m].active)
  BY <1>1, <1>2, <1>4, ArchivedIs
<1> HIDE DEF r, n
<1>6. Kept(recipes, recipes')
  BY <1>5 DEF Kept
<1>7. Shelved(recipes', book')
  <2>2. ASSUME NEW d \in Dishes, NEW v \in Variants
        PROVE  /\ book'[<<d, v>>] # 0 => RowOf(recipes', book'[<<d, v>>], d, v)
               /\ \A m \in DOMAIN recipes' : Active(recipes', m, d, v) => m = book'[<<d, v>>]
    <3>1. /\ book[<<d, v>>] # 0 => RowOf(recipes, book[<<d, v>>], d, v)
          /\ \A m \in DOMAIN recipes : Active(recipes, m, d, v) => m = book[<<d, v>>]
      BY <1>2 DEF Shelved
    <3>2. book'[<<d, v>>] = book[<<d, v>>]
      BY <1>1
    <3>3. book'[<<d, v>>] # 0 => RowOf(recipes', book'[<<d, v>>], d, v)
      BY <1>5, <3>1, <3>2 DEF RowOf
    <3>4. \A m \in DOMAIN recipes' : Active(recipes', m, d, v) => m = book'[<<d, v>>]
      BY <1>5, <3>1, <3>2 DEF RowOf, Active
    <3> QED
      BY <3>3, <3>4
  <2>3. book' \in [Dishes \X Variants -> Nat]
    BY <1>1, <1>2 DEF Shelved
  <2> QED
    BY <1>5, <2>2, <2>3 DEF Shelved
<1>8. Sold(recipes', sales')
  BY <1>1, <1>6, SoldKept DEF RecipesInv
<1>9. FitsRows(r, recipes')
  BY <1>3, <1>4, <1>5 DEF FitsRows
<1>10. \A j \in Slots \ {i} : req[j].pc = "bom" => recipes'[req[j].row].lines = NoLines
  BY <1>5 DEF RecipesInv, Revising, FitsRows, RowOf
<1>11. Tracked(recipes, book)'
  <2>1. ASSUME NEW d \in Dishes, NEW v \in Variants, book'[<<d, v>>] # 0,
               ~recipes'[book'[<<d, v>>]].active
        PROVE  \/ r.pc = "recipe" /\ r.key = Pair(d, v)
               \/ /\ book'[<<d, v>>] = book[<<d, v>>] /\ ~recipes[book[<<d, v>>]].active
                  /\ ~(req[i].pc = "recipe" /\ req[i].key = Pair(d, v))
    <3>1. RowOf(recipes, book[<<d, v>>], d, v)
      BY <1>1, <1>2, <2>1 DEF Shelved
    <3>2. CASE book[<<d, v>>] = n
      <4>1. r.key[2] = d /\ r.key[3] = v
        BY <1>4, <3>1, <3>2 DEF RowOf
      <4>2. r.key = Pair(d, v)
        BY <1>4, <4>1, PairIs
      <4> QED
        BY <1>3, <4>2
    <3>3. CASE book[<<d, v>>] # n
      BY <1>1, <1>5, <2>1, <3>1, <3>3 DEF RowOf
    <3> QED
      BY <3>2, <3>3
  <2> QED
    BY <1>1, <1>3, <1>5, <2>1, StillTracked
<1>12. Told' /\ counts'.desk = counts.desk
  BY <1>1, SameTold DEF RecipesInv
<1> QED
  BY <1>1, <1>3, <1>6, <1>7, <1>8, <1>9, <1>10, <1>11, <1>12, Reworked

\* What a slot may say when it is free again: nothing that others have to mind.
LEMMA Finishes ==
  ASSUME RecipesInv, AtRecipes, NEW i \in Slots, Answers(i), counts' = counts,
         Kept(recipes, recipes'), Shelved(recipes', book'), Sold(recipes', sales'),
         \A j \in Slots \ {i} : req[j].pc = "bom" => recipes'[req[j].row].lines = NoLines,
         \A d \in Dishes, v \in Variants : book'[<<d, v>>] # 0 =>
            \/ recipes'[book'[<<d, v>>]].active
            \/ /\ book'[<<d, v>>] = book[<<d, v>>] /\ ~recipes[book[<<d, v>>]].active
               /\ ~(req[i].pc = "recipe" /\ req[i].key = Pair(d, v)),
         \A n \in DOMAIN recipes' : recipes'[n].lines = NoLines =>
            /\ n \in DOMAIN recipes /\ recipes[n].lines = NoLines
            /\ recipes'[n].dish = recipes[n].dish
            /\ ~(req[i].pc = "bom" /\ req[i].row = n)
  PROVE  RecipesInv'
<1>1. Goes(i, FreeSlot) /\ FreeSlot \in Edit /\ FreeSlot.pc = "free" /\ FitsRows(FreeSlot, recipes')
  BY FreeEdit DEF Answers
<1>2. Told' /\ counts'.desk = counts.desk
  BY SameTold DEF RecipesInv
<1>3. Tracked(recipes, book)'
  BY <1>1, StillTracked
<1> QED
  BY <1>1, <1>2, <1>3, Reworked

\* The second inserts the next row, unless there is an active one.
LEMMA InsertsRecipeKeeps ==
  ASSUME RecipesInv, AtRecipes, NEW i \in Slots, InsertsRecipe(i) PROVE RecipesInv'
<1> DEFINE d == req[i].key[2]
           v == req[i].key[3]
           m == Len(recipes) + 1
           row == [dish |-> d, variant |-> v, active |-> TRUE,
                   version |-> IF req[i].row = 0 THEN 1 ELSE recipes[req[i].row].version + 1,
                   lines |-> NoLines]
           r == [Step(i, "bom") EXCEPT !.row = m]
<1>1. req[i].pc = "recipe" /\ sales' = sales /\ counts' = counts
  BY DEF InsertsRecipe, At
<1>2. /\ req[i] \in Edit /\ FitsRows(req[i], recipes) /\ Shelved(recipes, book)
      /\ req[i].row \in {0} \cup DOMAIN recipes
  BY DEF RecipesInv, Revising, FitsRows
<1>3. /\ req[i].op = "revise" /\ req[i].key \in Pairs /\ req[i].new \in Boms
      /\ d \in Dishes /\ v \in Variants /\ req[i].key = Pair(d, v)
  BY <1>1, <1>2, PairIs DEF FitsRows
<1>4. \A d2, v2 : req[i].key = Pair(d2, v2) => d2 = d /\ v2 = v
  BY PairIs
<1>5. recipes \in Seq(RecipeRow) /\ book \in [Dishes \X Variants -> Nat]
  BY <1>2 DEF Shelved
<1>6. \A j \in Slots \ {i} : req[j].pc = "bom" =>
         req[j].row \in DOMAIN recipes /\ recipes[req[j].row].lines = NoLines
  BY DEF RecipesInv, Revising, FitsRows, RowOf
<1>7. CASE ActiveAs(d, v) # {}
  <2>1. Answers(i) /\ recipes' = recipes /\ book' = book
    BY <1>7 DEF InsertsRecipe
  <2>2. Kept(recipes, recipes') /\ Shelved(recipes', book') /\ Sold(recipes', sales')
    BY <1>1, <2>1 DEF RecipesInv, Kept
  <2>3. PICK n \in DOMAIN recipes : recipes[n].dish = d /\ recipes[n].active /\ recipes[n].variant = v
    BY <1>7 DEF ActiveAs, ActiveOf
  <2>4. book[<<d, v>>] = n
    BY <1>2, <1>3, <2>3 DEF Shelved, Active, RowOf
  <2>5. recipes[book[<<d, v>>]].active
    BY <2>3, <2>4
  <2> QED
    BY <1>1, <1>4, <1>6, <2>1, <2>2, <2>5, Finishes
<1>8. CASE ActiveAs(d, v) = {}
  <2>1. /\ recipes' = Append(recipes, row) /\ Goes(i, r)
        /\ book' = [book EXCEPT ![<<d, v>>] = m]
    BY <1>8 DEF InsertsRecipe
  <2>2. row \in RecipeRow
    <3>1. \A n \in DOMAIN recipes : recipes[n].version \in Int
      <4> SUFFICES ASSUME NEW n \in DOMAIN recipes PROVE recipes[n].version \in Int
        OBVIOUS
      <4>1. recipes[n] \in RecipeRow
        BY <1>5
      <4> QED
        BY <4>1 DEF RecipeRow
    <3>2. (IF req[i].row = 0 THEN 1 ELSE recipes[req[i].row].version + 1) \in Int
      BY <1>2, <3>1
    <3> QED
      BY <1>3, <3>2 DEF RecipeRow
  <2>3. row.dish = d /\ row.variant = v /\ row.active /\ row.lines = NoLines
    OBVIOUS
  <2>4. /\ r \in Edit /\ r.pc = "bom" /\ r.op = "revise" /\ r.key = req[i].key /\ r.row = m
        /\ r.new = req[i].new
    <3>1. m \in Nat
      BY <1>5
    <3> HIDE DEF m
    <3> QED
      BY <1>2, <1>3, <3>1 DEF Step, Edit
  <2> HIDE DEF row, r
  <2>5. /\ recipes' \in Seq(RecipeRow) /\ DOMAIN recipes = 1 .. Len(recipes) /\ Len(recipes) \in Nat
        /\ DOMAIN recipes' = 1 .. m /\ recipes'[m] = row /\ m \notin DOMAIN recipes
        /\ \A n \in DOMAIN recipes : recipes'[n] = recipes[n]
    BY <1>5, <2>1, <2>2, Appended
  <2>6. /\ DOMAIN recipes' = DOMAIN recipes \cup {m} /\ m # 0 /\ m \in Nat
        /\ 0 \notin DOMAIN recipes
    BY <2>5
  <2> HIDE DEF m
  <2>7. /\ book' \in [Dishes \X Variants -> Nat]
        /\ \A d2 \in Dishes, v2 \in Variants :
             book'[<<d2, v2>>] = IF d2 = d /\ v2 = v THEN m ELSE book[<<d2, v2>>]
    BY <1>3, <1>5, <2>1, <2>6
  <2>8. Kept(recipes, recipes')
    BY <2>5, <2>6 DEF Kept
  <2>9. Shelved(recipes', book')
    <3>1. ASSUME NEW d2 \in Dishes, NEW v2 \in Variants
          PROVE  /\ book'[<<d2, v2>>] # 0 => RowOf(recipes', book'[<<d2, v2>>], d2, v2)
                 /\ \A n \in DOMAIN recipes' : Active(recipes', n, d2, v2) => n = book'[<<d2, v2>>]
      <4>1. /\ book[<<d2, v2>>] # 0 => RowOf(recipes, book[<<d2, v2>>], d2, v2)
            /\ \A n \in DOMAIN recipes : Active(recipes, n, d2, v2) => n = book[<<d2, v2>>]
        BY <1>2 DEF Shelved
      <4>2. CASE d2 = d /\ v2 = v
        <5>1. \A n \in DOMAIN recipes : ~Active(recipes, n, d, v)
          BY <1>8 DEF Active, RowOf, ActiveAs, ActiveOf
        <5>2. book'[<<d2, v2>>] = m
          BY <2>7, <4>2
        <5> QED
          BY <2>3, <2>5, <2>6, <4>2, <5>1, <5>2 DEF Active, RowOf
      <4>3. CASE ~(d2 = d /\ v2 = v)
        <5>1. book'[<<d2, v2>>] = book[<<d2, v2>>]
          BY <2>7, <4>3
        <5> QED
          BY <2>3, <2>5, <2>6, <4>1, <4>3, <5>1 DEF Active, RowOf
      <4> QED
        BY <4>2, <4>3
    <3> QED
      BY <2>5, <2>7, <3>1 DEF Shelved
  <2>10. Sold(recipes', sales')
    BY <1>1, <2>8, SoldKept DEF RecipesInv
  <2>11. FitsRows(r, recipes')
    BY <1>3, <2>3, <2>4, <2>5, <2>6 DEF FitsRows, RowOf
  <2>12. \A j \in Slots \ {i} : req[j].pc = "bom" =>
           recipes'[req[j].row].lines = NoLines /\ req[j].row # r.row
    BY <1>6, <2>4, <2>5
  <2>13. Tracked(recipes, book)'
    <3>1. ASSUME NEW d2 \in Dishes, NEW v2 \in Variants, book'[<<d2, v2>>] # 0
          PROVE  \/ recipes'[book'[<<d2, v2>>]].active
                 \/ /\ book'[<<d2, v2>>] = book[<<d2, v2>>] /\ ~recipes[book[<<d2, v2>>]].active
                    /\ ~(req[i].pc = "recipe" /\ req[i].key = Pair(d2, v2))
      <4>1. CASE d2 = d /\ v2 = v
        BY <2>3, <2>5, <2>7, <4>1
      <4>2. CASE ~(d2 = d /\ v2 = v)
        <5>1. book'[<<d2, v2>>] = book[<<d2, v2>>] /\ req[i].key # Pair(d2, v2)
          BY <1>4, <2>7, <4>2
        <5>2. book[<<d2, v2>>] \in DOMAIN recipes
          BY <1>2, <3>1, <5>1 DEF Shelved, RowOf
        <5> QED
          BY <2>5, <5>1, <5>2
      <4> QED
        BY <4>1, <4>2
    <3>2. ASSUME NEW n \in DOMAIN recipes', recipes'[n].lines = NoLines
          PROVE  \/ r.pc = "bom" /\ r.row = n
                 \/ /\ n \in DOMAIN recipes /\ recipes[n].lines = NoLines
                    /\ recipes'[n].dish = recipes[n].dish
                    /\ ~(req[i].pc = "bom" /\ req[i].row = n)
      BY <1>1, <2>4, <2>5, <2>6, <3>2
    <3> QED
      BY <1>1, <2>1, <2>4, <3>1, <3>2, StillTracked
  <2>14. Told' /\ counts'.desk = counts.desk
    BY <1>1, SameTold DEF RecipesInv
  <2> QED
    BY <2>1, <2>4, <2>8, <2>9, <2>10, <2>11, <2>12, <2>13, <2>14, Reworked
<1> QED
  BY <1>7, <1>8

\* The third writes its lines.
LEMMA InsertsBomKeeps ==
  ASSUME RecipesInv, AtRecipes, NEW i \in Slots, InsertsBom(i) PROVE RecipesInv'
<1> DEFINE n == req[i].row
           row == [recipes[n] EXCEPT !.lines = req[i].new]
<1>1. /\ req[i].pc = "bom" /\ recipes' = [recipes EXCEPT ![n] = row] /\ Answers(i)
      /\ sales' = sales /\ book' = book /\ counts' = counts
  BY DEF InsertsBom, At
<1>2. req[i] \in Edit /\ FitsRows(req[i], recipes) /\ Shelved(recipes, book)
  BY DEF RecipesInv, Revising
<1>3. n \in DOMAIN recipes /\ recipes[n].lines = NoLines /\ req[i].new \in Boms
  BY <1>1, <1>2 DEF FitsRows, RowOf
<1>4. recipes \in Seq(RecipeRow) /\ recipes[n] \in RecipeRow /\ NoLines \notin Boms
  BY <1>2, <1>3, RecipesAssumption DEF Shelved
<1>5. /\ row \in RecipeRow /\ row.lines = req[i].new /\ row.dish = recipes[n].dish
      /\ row.variant = recipes[n].variant /\ row.active = recipes[n].active
  BY <1>3, <1>4 DEF RecipeRow
<1> HIDE DEF row
<1>6. /\ recipes' \in Seq(RecipeRow) /\ DOMAIN recipes' = DOMAIN recipes
      /\ \A m \in DOMAIN recipes : recipes'[m] = IF m = n THEN row ELSE recipes[m]
  BY <1>1, <1>3, <1>4, <1>5, Replaced
<1>7. \A m \in DOMAIN recipes :
         /\ recipes'[m].dish = recipes[m].dish /\ recipes'[m].variant = recipes[m].variant
         /\ recipes'[m].active = recipes[m].active
         /\ recipes'[m].lines = IF m = n THEN req[i].new ELSE recipes[m].lines
  BY <1>5, <1>6
<1>8. Kept(recipes, recipes')
  BY <1>3, <1>6, <1>7 DEF Kept
<1>9. Shelved(recipes', book')
  <2>1. ASSUME NEW d \in Dishes, NEW v \in Variants
        PROVE  /\ book'[<<d, v>>] # 0 => RowOf(recipes', book'[<<d, v>>], d, v)
               /\ \A m \in DOMAIN recipes' : Active(recipes', m, d, v) => m = book'[<<d, v>>]
    <3>1. /\ book[<<d, v>>] # 0 => RowOf(recipes, book[<<d, v>>], d, v)
          /\ \A m \in DOMAIN recipes : Active(recipes, m, d, v) => m = book[<<d, v>>]
      BY <1>2 DEF Shelved
    <3>2. book'[<<d, v>>] = book[<<d, v>>]
      BY <1>1
    <3> QED
      BY <1>6, <1>7, <3>1, <3>2 DEF RowOf, Active
  <2>2. book' \in [Dishes \X Variants -> Nat]
    BY <1>1, <1>2 DEF Shelved
  <2> QED
    BY <1>6, <2>1, <2>2 DEF Shelved
<1>10. Sold(recipes', sales')
  BY <1>1, <1>8, SoldKept DEF RecipesInv
<1>11. \A j \in Slots \ {i} : req[j].pc = "bom" => recipes'[req[j].row].lines = NoLines
  <2> SUFFICES ASSUME NEW j \in Slots, j # i, req[j].pc = "bom"
               PROVE  recipes'[req[j].row].lines = NoLines
    OBVIOUS
  <2>1. req[j].row # n
    BY <1>1 DEF RecipesInv, Revising, At
  <2>2. req[j].row \in DOMAIN recipes /\ recipes[req[j].row].lines = NoLines
    BY DEF RecipesInv, Revising, FitsRows, RowOf
  <2> QED
    BY <1>7, <2>1, <2>2
<1>12. \A d \in Dishes, v \in Variants : book'[<<d, v>>] # 0 =>
          \/ recipes'[book'[<<d, v>>]].active
          \/ /\ book'[<<d, v>>] = book[<<d, v>>] /\ ~recipes[book[<<d, v>>]].active
             /\ ~(req[i].pc = "recipe" /\ req[i].key = Pair(d, v))
  <2> SUFFICES ASSUME NEW d \in Dishes, NEW v \in Variants, book[<<d, v>>] # 0
               PROVE  recipes'[book[<<d, v>>]].active = recipes[book[<<d, v>>]].active
    BY <1>1
  <2>1. book[<<d, v>>] \in DOMAIN recipes
    BY <1>2 DEF Shelved, RowOf
  <2> QED
    BY <1>7, <2>1
<1>13. \A m \in DOMAIN recipes' : recipes'[m].lines = NoLines =>
          /\ m \in DOMAIN recipes /\ recipes[m].lines = NoLines
          /\ recipes'[m].dish = recipes[m].dish
          /\ ~(req[i].pc = "bom" /\ n = m)
  BY <1>3, <1>4, <1>6, <1>7
<1> QED
  BY <1>1, <1>8, <1>9, <1>10, <1>11, <1>12, <1>13, Finishes

\* A row is archived by hand.
LEMMA RetiresKeeps ==
  ASSUME RecipesInv, AtRecipes, NEW i \in Slots, Retires(i) PROVE RecipesInv'
<1> DEFINE n == req[i].row
<1>1. /\ req[i].pc = "retire" /\ recipes' = Archived(n) /\ Answers(i)
      /\ book' = [dv \in DOMAIN book |-> IF book[dv] = n THEN 0 ELSE book[dv]]
      /\ sales' = sales /\ counts' = counts
  BY DEF Retires, At
<1>2. FitsRows(req[i], recipes) /\ Shelved(recipes, book)
  BY DEF RecipesInv, Revising
<1>3. n \in DOMAIN recipes
  BY <1>1, <1>2 DEF FitsRows, RowOf
<1>4. /\ recipes' \in Seq(RecipeRow) /\ DOMAIN recipes' = DOMAIN recipes
      /\ \A m \in DOMAIN recipes :
              /\ recipes'[m].dish = recipes[m].dish /\ recipes'[m].variant = recipes[m].variant
              /\ recipes'[m].lines = recipes[m].lines
              /\ recipes'[m].active = (m # n /\ recipes[m].active)
  BY <1>1, <1>2, <1>3, ArchivedIs
<1>5. /\ book' \in [Dishes \X Variants -> Nat]
      /\ \A d \in Dishes, v \in Variants :
           book'[<<d, v>>] = IF book[<<d, v>>] = n THEN 0 ELSE book[<<d, v>>]
  <2>1. book \in [Dishes \X Variants -> Nat]
    BY <1>2 DEF Shelved
  <2> HIDE DEF n
  <2> QED
    BY <1>1, <2>1
<1> HIDE DEF n
<1>6. Kept(recipes, recipes')
  BY <1>4 DEF Kept
<1>7. \A d \in Dishes, v \in Variants :
        /\ book[<<d, v>>] # 0 => RowOf(recipes, book[<<d, v>>], d, v)
        /\ \A m \in DOMAIN recipes : Active(recipes, m, d, v) => m = book[<<d, v>>]
  BY <1>2 DEF Shelved
<1>8. Shelved(recipes', book')
  <2>1. ASSUME NEW d \in Dishes, NEW v \in Variants
        PROVE  /\ book'[<<d, v>>] # 0 => RowOf(recipes', book'[<<d, v>>], d, v)
               /\ \A m \in DOMAIN recipes' : Active(recipes', m, d, v) => m = book'[<<d, v>>]
    <3>1. book'[<<d, v>>] # 0 => RowOf(recipes', book'[<<d, v>>], d, v)
      BY <1>4, <1>5, <1>7 DEF RowOf
    <3>2. ASSUME NEW m \in DOMAIN recipes', Active(recipes', m, d, v) PROVE m = book'[<<d, v>>]
      <4>1. Active(recipes, m, d, v) /\ m # n
        BY <1>4, <3>2 DEF Active, RowOf
      <4> QED
        BY <1>4, <1>5, <1>7, <4>1
    <3> QED
      BY <3>1, <3>2
  <2> QED
    BY <1>4, <1>5, <2>1 DEF Shelved
<1>9. Sold(recipes', sales')
  BY <1>1, <1>6, SoldKept DEF RecipesInv
<1>10. \A j \in Slots \ {i} : req[j].pc = "bom" => recipes'[req[j].row].lines = NoLines
  BY <1>4 DEF RecipesInv, Revising, FitsRows, RowOf
<1>11. \A d \in Dishes, v \in Variants : book'[<<d, v>>] # 0 =>
          \/ recipes'[book'[<<d, v>>]].active
          \/ /\ book'[<<d, v>>] = book[<<d, v>>] /\ ~recipes[book[<<d, v>>]].active
             /\ ~(req[i].pc = "recipe" /\ req[i].key = Pair(d, v))
  <2> SUFFICES ASSUME NEW d \in Dishes, NEW v \in Variants, book'[<<d, v>>] # 0,
                      ~recipes'[book'[<<d, v>>]].active
               PROVE  book'[<<d, v>>] = book[<<d, v>>] /\ ~recipes[book[<<d, v>>]].active
    BY <1>1
  <2>1. book'[<<d, v>>] = book[<<d, v>>] /\ book[<<d, v>>] # n /\ book[<<d, v>>] # 0
    BY <1>5
  <2>2. book[<<d, v>>] \in DOMAIN recipes
    BY <1>7, <2>1 DEF RowOf
  <2> QED
    BY <1>4, <2>1, <2>2
<1>12. \A m \in DOMAIN recipes' : recipes'[m].lines = NoLines =>
          /\ m \in DOMAIN recipes /\ recipes[m].lines = NoLines
          /\ recipes'[m].dish = recipes[m].dish
          /\ ~(req[i].pc = "bom" /\ req[i].row = m)
  BY <1>1, <1>4
<1> QED
  BY <1>1, <1>6, <1>8, <1>9, <1>10, <1>11, <1>12, Finishes

\* A sale uses the lines of the row it chose.
LEMMA ReadsLinesKeeps ==
  ASSUME RecipesInv, AtRecipes, NEW i \in Slots, ReadsLines(i) PROVE RecipesInv'
<1> DEFINE n == req[i].row
           s == [recipe |-> n, due |-> req[i].found,
                 used |-> IF n = 0 THEN NoLines ELSE recipes[n].lines]
<1>1. /\ req[i].pc = "lines" /\ sales' = sales \cup {s} /\ Answers(i)
      /\ recipes' = recipes /\ book' = book /\ counts' = counts
  BY DEF ReadsLines, At
<1>2. FitsRows(req[i], recipes) /\ Sold(recipes, sales)
  BY DEF RecipesInv, Revising
<1>3. s.due # {} => /\ s.recipe \in s.due
                    /\ s.recipe # 0 => s.recipe \in DOMAIN recipes /\ s.used # NoLines
                                       /\ recipes[s.recipe].lines = s.used
  BY <1>1, <1>2 DEF FitsRows
<1> HIDE DEF s
<1>4. Sold(recipes', sales')
  BY <1>1, <1>2, <1>3 DEF Sold
<1>5. Kept(recipes, recipes') /\ Shelved(recipes', book')
  BY <1>1 DEF RecipesInv, Kept
<1>6. \A j \in Slots \ {i} : req[j].pc = "bom" => recipes'[req[j].row].lines = NoLines
  BY <1>1 DEF RecipesInv, Revising, FitsRows, RowOf
<1> QED
  BY <1>1, <1>4, <1>5, <1>6, Finishes

\* A request that is cut short tells what it was about.
LEMMA CutIs ==
  ASSUME Told, NEW i, Dies(i)
  PROVE  /\ Told' /\ counts'.desk = counts.desk
         /\ DOMAIN counts.cut \subseteq DOMAIN counts'.cut
         /\ \A k \in DOMAIN counts.cut : counts'.cut[k] = counts.cut[k]
         /\ \E k \in DOMAIN counts'.cut :
              counts'.cut[k].op = req[i].op /\ counts'.cut[k].key = req[i].key
<1> DEFINE x == [op |-> req[i].op, key |-> req[i].key]
<1>1. counts' = [counts EXCEPT !.cut = Append(counts.cut, x)]
  BY DEF Dies
<1>2. x.op = req[i].op /\ x.key = req[i].key
  OBVIOUS
<1> HIDE DEF x
<1>3. counts'.cut = Append(counts.cut, x) /\ counts'.desk = counts.desk
      /\ DOMAIN counts' = DOMAIN counts
  BY <1>1 DEF Told
<1>4. /\ IsSeq(counts'.cut) /\ Len(counts.cut) \in Nat /\ DOMAIN counts.cut = 1 .. Len(counts.cut)
      /\ DOMAIN counts'.cut = 1 .. Len(counts.cut) + 1
      /\ counts'.cut[Len(counts.cut) + 1] = x
      /\ \A k \in DOMAIN counts.cut : counts'.cut[k] = counts.cut[k]
  BY <1>3, AnySeq DEF Told
<1>5. Len(counts.cut) + 1 \in DOMAIN counts'.cut /\ DOMAIN counts.cut \subseteq DOMAIN counts'.cut
  BY <1>4
<1> QED
  BY <1>2, <1>3, <1>4, <1>5 DEF Told

\* ... at the recipes' desk.
LEMMA CutShortKeeps ==
  ASSUME RecipesInv, AtRecipes, NEW i \in Slots, Dies(i), UNCHANGED recipeRows PROVE RecipesInv'
<1>1. /\ recipes' = recipes /\ sales' = sales /\ book' = book /\ Goes(i, FreeSlot)
      /\ FreeSlot \in Edit /\ FreeSlot.pc = "free" /\ FitsRows(FreeSlot, recipes')
  BY FreeEdit DEF Dies, Answers, recipeRows
<1>2. /\ Told' /\ counts'.desk = counts.desk
      /\ DOMAIN counts.cut \subseteq DOMAIN counts'.cut
      /\ \A k \in DOMAIN counts.cut : counts'.cut[k] = counts.cut[k]
      /\ \E k \in DOMAIN counts'.cut :
           counts'.cut[k].op = req[i].op /\ counts'.cut[k].key = req[i].key
  BY CutIs DEF RecipesInv
<1>3. FitsRows(req[i], recipes)
  BY DEF RecipesInv, Revising
<1>4. Kept(recipes, recipes') /\ Shelved(recipes', book') /\ Sold(recipes', sales')
  BY <1>1 DEF RecipesInv, Kept
<1>5. \A j \in Slots \ {i} : req[j].pc = "bom" => recipes'[req[j].row].lines = NoLines
  BY <1>1 DEF RecipesInv, Revising, FitsRows, RowOf
<1>6. ASSUME NEW d, req[i].op = "revise", req[i].key[2] = d PROVE CutShort(counts'.cut, d)
  BY <1>2, <1>6 DEF CutShort
<1>7. \A d \in Dishes, v \in Variants :
        req[i].pc = "recipe" /\ req[i].key = Pair(d, v) => CutShort(counts'.cut, d)
  BY <1>3, <1>6, PairIs DEF FitsRows
<1>8. \A n \in DOMAIN recipes : req[i].pc = "bom" /\ req[i].row = n => CutShort(counts'.cut, recipes[n].dish)
  BY <1>3, <1>6 DEF FitsRows, RowOf
<1>9. Tracked(recipes, book)'
  BY <1>1, <1>2, <1>7, <1>8, StillTracked
<1> QED
  BY <1>1, <1>2, <1>4, <1>5, <1>9, Reworked

-----------------------------------------------------------------------------
(* Every step, and the first state.                                        *)

\* A step of another desk leaves the recipes alone, and what was cut short.
LEMMA NotAtRecipes ==
  ASSUME RecipesInv, ~AtRecipes, UNCHANGED recipeRows, Told', counts'.desk = counts.desk
  PROVE  RecipesInv'
BY DEF RecipesInv, AtRecipes, recipeRows

\* It begins a request, or changes what others do, or leaves the counts alone.
LEMMA OtherDesks ==
  ASSUME OfficeInv, ShiftsNext \/ ZonesNext \/ MenuNext
  PROVE  (\E i, r : Begins(i, r)) \/ Changes \/ counts' = counts
<1>1. CASE ShiftsNext
  <2>1. CASE Ticks
    BY <2>1 DEF Ticks
  <2>2. ASSUME NEW i \in Slots, ShiftsArrive(i) PROVE \E r : Begins(i, r)
    BY <2>2, AllEnter DEF Asks, Enters
  <2>3. ASSUME NEW i \in Slots, ShiftsStep(i) PROVE counts' = counts
    BY <2>3 DEF ShiftsStep, ClockIns, ReadsGate, ClockOuts, ReadsBreaks, BreakStarts, BreakEnds,
       Classifies, Claims, Decides, RateWrites, RateFlags, Confirms, ReadsRows, InsertsRun, InsertsLine
  <2>4. ASSUME NEW c, NEW p, NEW state, CheckChanges(c, p, state) PROVE Changes
    BY <2>4 DEF CheckChanges
  <2> QED
    BY <1>1, <2>1, <2>2, <2>3, <2>4 DEF ShiftsNext
<1>2. CASE ZonesNext
  <2>1. ASSUME NEW i \in Slots, ZonesArrive(i) PROVE \E r : Begins(i, r)
    BY <2>1 DEF ZonesArrive, EditArrives, StoreArrives, AsksZones
  <2>2. ASSUME NEW i \in Slots, ZonesStep(i) PROVE counts' = counts
    BY <2>2 DEF ZonesStep, ReadsUsage, MovesTables, ReadsRow, WritesList, InsertFails
  <2>3. ASSUME NEW t, NEW name, Places(t, name) PROVE Changes
    BY <2>3 DEF Places
  <2> QED
    BY <1>2, <2>1, <2>2, <2>3 DEF ZonesNext
<1>3. CASE MenuNext
  <2>1. ASSUME NEW i \in Slots, MenuArrives(i) PROVE \E r : Begins(i, r)
    BY <2>1, MenuBegins
  <2>2. ASSUME NEW i \in Slots, MenuStep(i) PROVE counts' = counts
    BY <2>2 DEF MenuStep, Rebuilds, Saves, InsertsFirst, Adopts, Puts, Follows, ReadsIds,
       WritesRow, DeletesRow
  <2> QED
    BY <1>3, <2>1, <2>2 DEF MenuNext
<1> QED
  BY <1>1, <1>2, <1>3

\* RecipesInv is inductive.
LEMMA RecipesInvKeeps == ASSUME OfficeInv, RecipesInv, [Next]_vars PROVE RecipesInv'
<1>1. ASSUME NEW i, NEW r, Begins(i, r) PROVE Told' /\ counts'.desk = counts.desk
  BY <1>1, Begun DEF RecipesInv
<1>2. ASSUME Changes PROVE Told' /\ counts'.desk = counts.desk
  <2>1. counts' = [counts EXCEPT !.changes = @ + 1]
    BY <1>2 DEF Changes
  <2> QED
    BY <2>1 DEF RecipesInv, Told
<1>3. ASSUME ShiftsNext \/ ZonesNext \/ MenuNext, UNCHANGED recipeRows PROVE RecipesInv'
  <2>1. ~AtRecipes
    BY <1>3 DEF AtRecipes, ShiftsNext, ZonesNext, MenuNext
  <2>2. Told' /\ counts'.desk = counts.desk
    BY <1>1, <1>2, <1>3, OtherDesks, SameTold DEF RecipesInv
  <2> QED
    BY <1>3, <2>1, <2>2, NotAtRecipes
<1>4. CASE RecipesNext
  <2>1. AtRecipes
    BY <1>4 DEF RecipesNext, AtRecipes
  <2>2. ASSUME NEW i \in Slots, RecipesArrive(i) PROVE RecipesInv'
    BY <2>1, <2>2, RevisionArrivesFits, SaleArrivesFits, RetirementArrivesFits DEF RecipesArrive
  <2>3. ASSUME NEW i \in Slots, RecipesStep(i) PROVE RecipesInv'
    BY <2>1, <2>3, SupersedesKeeps, InsertsRecipeKeeps, InsertsBomKeeps, RetiresKeeps,
       ReadsLinesKeeps DEF RecipesStep
  <2> QED
    BY <1>4, <2>2, <2>3 DEF RecipesNext
<1>5. ASSUME NEW i \in Slots, Dies(i), UNCHANGED recipeRows PROVE RecipesInv'
  BY <1>5, CutShortKeeps, CutIs, NotAtRecipes DEF RecipesInv
<1>6. CASE UNCHANGED vars
  <2>1. UNCHANGED <<recipes, sales, book, req, counts>>
    BY <1>6 DEF vars, deskVars, recipeRows
  <2> QED
    BY <2>1 DEF RecipesInv, Told, AtRecipes, Revising, At, Tracked, Replacing, Writing
<1> QED
  BY <1>3, <1>4, <1>5, <1>6 DEF Next

\* It holds at first.
LEMMA FirstRecipesInv == ASSUME Init PROVE RecipesInv
<1>1. /\ req = [i \in Slots |-> FreeSlot] /\ recipes \in FirstRecipes /\ sales = {}
      /\ book = [dv \in Dishes \X Variants |-> FirstOf(ActiveAs(dv[1], dv[2]))]
      /\ \E d \in Desks : counts = [desk |-> d, requests |-> 0, changes |-> 0, cut |-> <<>>]
  BY DEF Init, DeskInit, RecipesInit
<1>2. Told
  <2>1. DOMAIN counts = {"desk", "requests", "changes", "cut"} /\ counts.cut = <<>>
    BY <1>1
  <2> QED
    BY <2>1, NoRows DEF Told, IsSeq
<1>3. /\ recipes \in Seq(RecipeRow)
      /\ \A m, n \in DOMAIN recipes :
           /\ recipes[n].lines \in Boms
           /\ /\ recipes[m].active /\ recipes[n].active
              /\ recipes[m].dish = recipes[n].dish /\ recipes[m].variant = recipes[n].variant
              => m = n
  BY <1>1, FirstRecipesAssumption
<1>4. DOMAIN recipes \subseteq Nat /\ 0 \notin DOMAIN recipes
  <2>1. DOMAIN recipes = 1 .. Len(recipes) /\ Len(recipes) \in Nat
    BY <1>3
  <2> QED
    BY <2>1
<1>5. ASSUME NEW d \in Dishes, NEW v \in Variants
      PROVE  /\ book[<<d, v>>] \in Nat
             /\ book[<<d, v>>] # 0 => Active(recipes, book[<<d, v>>], d, v)
             /\ \A n \in DOMAIN recipes : Active(recipes, n, d, v) => n = book[<<d, v>>]
  <2> DEFINE S == ActiveAs(d, v)
  <2>1. book[<<d, v>>] = FirstOf(S)
    BY <1>1
  <2>2. S \subseteq DOMAIN recipes /\ \A n : n \in S <=> Active(recipes, n, d, v)
    BY DEF ActiveAs, ActiveOf, Active, RowOf
  <2> HIDE DEF S
  <2>3. CASE S = {}
    BY <2>1, <2>2, <2>3 DEF FirstOf, Active, RowOf
  <2>4. CASE S # {}
    <3>1. S \subseteq Nat
      BY <1>4, <2>2
    <3>2. FirstOf(S) \in S
      BY <2>4, <3>1, FirstIs
    <3>3. Active(recipes, book[<<d, v>>], d, v) /\ book[<<d, v>>] \in Nat
      BY <2>1, <2>2, <3>1, <3>2
    <3>4. ASSUME NEW n \in DOMAIN recipes, Active(recipes, n, d, v) PROVE n = book[<<d, v>>]
      BY <1>3, <3>3, <3>4 DEF Active, RowOf
    <3> QED
      BY <3>3, <3>4
  <2> QED
    BY <2>3, <2>4
<1>6. Shelved(recipes, book)
  <2>1. book \in [Dishes \X Variants -> Nat]
    <3>1. DOMAIN book = Dishes \X Variants /\ book = [dv \in DOMAIN book |-> book[dv]]
      BY <1>1
    <3>2. \A dv \in Dishes \X Variants : book[dv] \in Nat
      BY <1>5
    <3> QED
      BY <3>1, <3>2
  <2> QED
    BY <1>3, <1>5, <2>1 DEF Shelved, Active
<1>7. Sold(recipes, sales)
  BY <1>1 DEF Sold
<1>8. Revising
  <2>1. \A i \in Slots : req[i] = FreeSlot
    BY <1>1
  <2>2. req \in [Slots -> Edit]
    BY <1>1, FreeEdit
  <2> QED
    BY <2>1, <2>2, FreeEdit DEF Revising, At
<1>9. Tracked(recipes, book)
  <2>1. \A n \in DOMAIN recipes : recipes[n].lines # NoLines
    BY <1>3, RecipesAssumption
  <2> QED
    BY <1>5, <2>1 DEF Tracked, Active
<1> QED
  BY <1>2, <1>6, <1>7, <1>8, <1>9 DEF RecipesInv

\* The rows of the recipes and what their requests hold stay as RecipesInv says.
THEOREM RecipesHold == Spec => []RecipesInv
<1>1. Init => RecipesInv
  BY FirstRecipesInv
<1>2. OfficeInv /\ RecipesInv /\ [Next]_vars => RecipesInv'
  BY RecipesInvKeeps
<1> QED
  BY <1>1, <1>2, OfficeHolds, PTL DEF Spec

\* A sale uses what the manager last wrote for what was ordered, and its recipe still
\* says what was used.
THEOREM SalesAreAsWritten == Spec => []SoldAsWritten
<1>1. RecipesInv => SoldAsWritten
  BY DEF RecipesInv, Sold, SoldAsWritten
<1> QED
  BY <1>1, RecipesHold, PTL

-----------------------------------------------------------------------------
(* Lists of zones.                                                         *)

\* The sequence of a finite set's elements has them all.
LEMMA SeqOfSet ==
  ASSUME NEW S, IsFiniteSet(S)
  PROVE  /\ SetToSeq(S) \in Seq(S)
         /\ \A x \in S : \E k \in DOMAIN SetToSeq(S) : SetToSeq(S)[k] = x
<1> DEFINE n == Cardinality(S)
           f == SetToSeq(S)
<1>1. n \in Nat /\ ExistsBijection(1 .. n, S)
  BY FS_CardinalityType
<1>2. \E g \in [1 .. n -> S] : IsInjective(g)
  BY <1>1 DEF ExistsBijection, Bijection, Injection, IsInjective
<1>3. f \in [1 .. n -> S] /\ IsInjective(f)
  BY <1>2 DEF SetToSeq
<1>4. f \in Injection(1 .. n, S)
  BY <1>3 DEF Injection, IsInjective
<1>5. IsFiniteSet(1 .. n) /\ Cardinality(1 .. n) = n
  BY <1>1, FS_Interval
<1>6. f \in Surjection(1 .. n, S)
  BY <1>4, <1>5, FS_Injection
<1> HIDE DEF f
<1>7. f \in Seq(S)
  BY <1>1, <1>3
<1>8. \A x \in S : \E k \in 1 .. n : f[k] = x
  BY <1>6 DEF Surjection
<1>9. DOMAIN f = 1 .. n
  BY <1>3
<1> QED
  BY <1>7, <1>8, <1>9 DEF f

\* The rank of a number in a finite set of numbers tells them apart, and every rank is
\* somebody's.
LEMMA RanksAre ==
  ASSUME NEW S \in SUBSET Nat, IsFiniteSet(S)
  PROVE  LET rank(k) == Cardinality({j \in S : j <= k})
         IN /\ \A k \in S : rank(k) \in 1 .. Cardinality(S)
            /\ \A n \in 1 .. Cardinality(S) : \E k \in S : rank(k) = n
            /\ \A j, k \in S : rank(j) = rank(k) => j = k
<1> DEFINE below(k) == {j \in S : j <= k}
           rank(k)  == Cardinality(below(k))
           f        == [k \in S |-> rank(k)]
           m        == Cardinality(S)
<1>1. m \in Nat
  BY FS_CardinalityType
<1>2. ASSUME NEW k \in S PROVE IsFiniteSet(below(k)) /\ rank(k) \in 1 .. m
  <2>1. below(k) \in SUBSET S /\ k \in below(k)
    OBVIOUS
  <2>2. IsFiniteSet(below(k)) /\ Cardinality(below(k)) <= m
    BY <2>1, FS_Subset
  <2>3. Cardinality(below(k)) \in Nat /\ Cardinality(below(k)) # 0
    BY <2>1, <2>2, FS_CardinalityType, FS_EmptySet
  <2> QED
    BY <1>1, <2>2, <2>3
<1>3. ASSUME NEW j \in S, NEW k \in S, rank(j) = rank(k), j <= k PROVE j = k
  <2>0. j \in Nat /\ k \in Nat /\ \A x \in S : x \in Nat
    OBVIOUS
  <2>1. below(j) \in SUBSET below(k) /\ k \in below(k)
    <3>1. ASSUME NEW x \in S, x <= j PROVE x <= k
      <4>1. x \in Nat
        BY <2>0
      <4> QED
        BY <1>3, <2>0, <3>1, <4>1
    <3>2. below(j) \subseteq below(k)
      BY <3>1
    <3>3. k \in below(k)
      BY <2>0
    <3> QED
      BY <3>2, <3>3
  <2>2. below(j) = below(k)
    BY <1>2, <1>3, <2>1, FS_Subset
  <2>3. k <= j
    BY <2>1, <2>2
  <2> QED
    BY <1>3, <2>3
<1>4. \A j, k \in S : rank(j) = rank(k) => j = k
  <2> SUFFICES ASSUME NEW j \in S, NEW k \in S, rank(j) = rank(k) PROVE j = k
    OBVIOUS
  <2>1. CASE j <= k
    BY <1>3, <2>1
  <2>2. CASE k <= j
    BY <1>3, <2>2
  <2> QED
    BY <2>1, <2>2
<1> HIDE DEF rank, m
<1>5. f \in Injection(S, 1 .. m)
  BY <1>2, <1>4 DEF Injection, IsInjective
<1>6. IsFiniteSet(1 .. m) /\ Cardinality(1 .. m) = m
  BY <1>1, FS_Interval
<1>7. f \in Surjection(S, 1 .. m)
  <2> HIDE DEF f
  <2> QED
    BY <1>5, <1>6, FS_Injection DEF m
<1>8. \A n \in 1 .. m : \E k \in S : rank(k) = n
  BY <1>7 DEF Surjection
<1> QED
  BY <1>2, <1>4, <1>8 DEF rank, m

\* A list without a zone offers all it did but that one.
LEMMA WithoutIs ==
  ASSUME NEW list \in Seq(Names), NEW name
  PROVE  /\ Without(list, name) \in Seq(Names)
         /\ \A key : Offers(Without(list, name), key) <=> Offers(list, key) /\ key # Key[name]
<1> DEFINE kept    == {k \in DOMAIN list : Key[list[k]] # Key[name]}
           rank(k) == Cardinality({j \in kept : j <= k})
           m       == Cardinality(kept)
           at(n)   == CHOOSE k \in kept : rank(k) = n
           w       == Without(list, name)
<1>1. kept \in SUBSET Nat /\ IsFiniteSet(kept)
  <2>1. Len(list) \in Nat /\ DOMAIN list = 1 .. Len(list)
    OBVIOUS
  <2>2. IsFiniteSet(DOMAIN list)
    BY <2>1, FS_Interval
  <2>3. kept \in SUBSET (DOMAIN list)
    OBVIOUS
  <2> QED
    BY <2>1, <2>2, <2>3, FS_Subset
<1>2. m \in Nat
  BY <1>1, FS_CardinalityType
<1>3. /\ \A k \in kept : rank(k) \in 1 .. m
      /\ \A n \in 1 .. m : \E k \in kept : rank(k) = n
      /\ \A j, k \in kept : rank(j) = rank(k) => j = k
  <2> HIDE DEF kept
  <2> QED
    BY <1>1, RanksAre
<1>4. w = [n \in 1 .. m |-> list[at(n)]]
  BY DEF Without
<1> HIDE DEF rank, m, w
<1>5. \A n \in 1 .. m : at(n) \in kept /\ rank(at(n)) = n
  BY <1>3
<1>6. \A k \in kept : rank(k) \in 1 .. m /\ at(rank(k)) = k
  BY <1>3, <1>5
<1> HIDE DEF at
<1>7. DOMAIN w = 1 .. m /\ \A n \in 1 .. m : w[n] = list[at(n)] /\ w[n] \in Names
  BY <1>4, <1>5
<1>8. w \in Seq(Names)
  <2>1. w = [n \in 1 .. m |-> w[n]]
    BY <1>4, <1>7
  <2> QED
    BY <1>2, <1>7, <2>1
<1>9. ASSUME NEW key PROVE Offers(w, key) <=> Offers(list, key) /\ key # Key[name]
  <2>1. ASSUME NEW n \in DOMAIN w, Key[w[n]] = key PROVE Offers(list, key) /\ key # Key[name]
    BY <1>5, <1>7, <2>1 DEF Offers
  <2>2. ASSUME NEW k \in DOMAIN list, Key[list[k]] = key, key # Key[name] PROVE Offers(w, key)
    <3>1. k \in kept
      BY <2>2
    <3>2. rank(k) \in DOMAIN w /\ w[rank(k)] = list[k]
      BY <1>6, <1>7, <3>1
    <3> QED
      BY <2>2, <3>2 DEF Offers
  <2> QED
    BY <2>1, <2>2 DEF Offers
<1> QED
  BY <1>8, <1>9 DEF w

\* Where the tables are.
Placing ==
  /\ zones \in Seq(Names)
  /\ IsFiniteSet(DOMAIN placed) /\ placed \in [DOMAIN placed -> Names]
  /\ edited \in [Range(Key) -> {"in", "out", "open"}]

\* What is offered is what is stored and where tables sit.
LEMMA WorkingIs ==
  ASSUME Placing, NEW stored \in Seq(Names)
  PROVE  /\ Working(stored) \in Seq(Names)
         /\ \A key : Offers(Working(stored), key)
                       <=> Offers(stored, key) \/ \E t \in DOMAIN placed : Key[placed[t]] = key
<1> DEFINE S == {n \in Range(placed) : ~Offers(stored, Key[n])}
           x == SetToSeq(S)
<1>1. IsFiniteSet(Range(placed)) /\ Range(placed) \subseteq Names
  <2>1. placed \in Surjection(DOMAIN placed, Range(placed))
    BY DEF Range, Placing, Surjection
  <2>2. IsFiniteSet(Range(placed))
    BY <2>1, FS_Surjection DEF Placing
  <2> QED
    BY <2>2 DEF Range, Placing
<1>2. IsFiniteSet(S) /\ S \subseteq Names
  <2>1. S \in SUBSET Range(placed)
    OBVIOUS
  <2> QED
    BY <1>1, <2>1, FS_Subset
<1>3. x \in Seq(S) /\ \A n \in S : \E k \in DOMAIN x : x[k] = n
  <2> HIDE DEF S
  <2> QED
    BY <1>2, SeqOfSet
<1>4. \A k \in DOMAIN x : x[k] \in S
  <2> HIDE DEF S, x
  <2> QED
    BY <1>3
<1>5. x \in Seq(Names)
  <2> HIDE DEF S, x
  <2> QED
    BY <1>2, <1>3
<1>6. Working(stored) = stored \o x
  BY DEF Working
<1> HIDE DEF x
<1>7. /\ Working(stored) \in Seq(Names)
      /\ DOMAIN Working(stored) = 1 .. Len(stored) + Len(x)
      /\ \A k \in 1 .. Len(stored) : Working(stored)[k] = stored[k]
      /\ \A k \in 1 .. Len(x) : Working(stored)[Len(stored) + k] = x[k]
  <2>1. /\ stored \o x \in Seq(Names) /\ Len(stored \o x) = Len(stored) + Len(x)
        /\ \A k \in 1 .. Len(stored) + Len(x) :
             (stored \o x)[k] = IF k <= Len(stored) THEN stored[k] ELSE x[k - Len(stored)]
    BY <1>5, ConcatProperties
  <2>2. Len(stored) \in Nat /\ Len(x) \in Nat
    BY <1>5
  <2>3. DOMAIN (stored \o x) = 1 .. Len(stored) + Len(x)
    BY <2>1
  <2> QED
    BY <1>6, <2>1, <2>2, <2>3
<1>8. /\ Len(stored) \in Nat /\ Len(x) \in Nat
      /\ DOMAIN stored = 1 .. Len(stored) /\ DOMAIN x = 1 .. Len(x)
  BY <1>5
<1>9. ASSUME NEW key
      PROVE  Offers(Working(stored), key)
               <=> Offers(stored, key) \/ \E t \in DOMAIN placed : Key[placed[t]] = key
  <2>1. ASSUME NEW k \in DOMAIN Working(stored), Key[Working(stored)[k]] = key
        PROVE  Offers(stored, key) \/ \E t \in DOMAIN placed : Key[placed[t]] = key
    <3>1. CASE k \in 1 .. Len(stored)
      BY <1>7, <1>8, <2>1, <3>1 DEF Offers
    <3>2. CASE k \notin 1 .. Len(stored)
      <4>1. k - Len(stored) \in 1 .. Len(x) /\ k = Len(stored) + (k - Len(stored))
        BY <1>7, <1>8, <3>2
      <4>2. Working(stored)[k] = x[k - Len(stored)]
        BY <1>7, <4>1
      <4>3. Working(stored)[k] \in Range(placed)
        BY <1>4, <1>8, <4>1, <4>2
      <4> QED
        BY <2>1, <4>3 DEF Range
    <3> QED
      BY <3>1, <3>2
  <2>2. ASSUME Offers(stored, key) PROVE Offers(Working(stored), key)
    <3>1. PICK k \in 1 .. Len(stored) : Key[stored[k]] = key
      BY <1>8, <2>2 DEF Offers
    <3>2. k \in DOMAIN Working(stored) /\ Working(stored)[k] = stored[k]
      BY <1>7, <1>8
    <3> QED
      BY <3>1, <3>2 DEF Offers
  <2>3. ASSUME NEW t \in DOMAIN placed, Key[placed[t]] = key, ~Offers(stored, key)
        PROVE  Offers(Working(stored), key)
    <3>1. placed[t] \in S
      BY <2>3 DEF Range
    <3>2. PICK k \in 1 .. Len(x) : x[k] = placed[t]
      BY <1>3, <1>8, <3>1
    <3>3. Len(stored) + k \in DOMAIN Working(stored) /\ Working(stored)[Len(stored) + k] = placed[t]
      BY <1>7, <1>8, <3>2
    <3> QED
      BY <2>3, <3>3 DEF Offers
  <2> QED
    BY <2>1, <2>2, <2>3 DEF Offers
<1> QED
  BY <1>7, <1>9

-----------------------------------------------------------------------------
(* The zones.                                                              *)

AtZones == counts.desk = "zones"

\* The zone an edit is about (From).
About(r) == CHOOSE n \in r.todo : TRUE

Storing == {"move", "row", "insert", "update"}

\* An edit that has made its list of the one it read.
Remakes(r) == r.op \in {"rename", "add", "reorder", "remove"} /\ r.pc \in Storing

\* An edit that takes a zone away.
Takes(r) == r.op = "remove" \/ (r.op = "rename" /\ Key[r.new] # Key[About(r)])

\* What a request is.
EditFits(r) ==
  /\ DOMAIN r = DOMAIN FreeSlot
  /\ r.key = House
  /\ r.pc \in {"free", "usage"} \cup Storing
  /\ r.pc # "free" =>
       /\ r.found \in Seq(Names)
       /\ r.op # "store" => \E n \in Names : r.todo = {n}
       /\ r.op \in {"rename", "add", "remove", "reorder", "store"}
       /\ r.op = "reorder" => r.new \in Seq(Names)
       /\ r.op \in {"rename", "add", "remove"} => r.new \in Names
  /\ r.pc = "usage" => r.op # "store"
  /\ r.pc = "move" => r.op \in {"rename", "remove"}

\* The list that is stored, and the tables, are as the edits left them.
AsLeft(stored, P, E) ==
  \A key \in DOMAIN E :
    /\ E[key] = "in" => Offers(stored, key)
    /\ E[key] = "out" => ~Offers(stored, key) /\ \A t \in DOMAIN P : Key[P[t]] # key

\* What a request holds when no other edit was under way: the list as it is, or one that
\* differs from it as the edit says; and once it has moved the tables of the zone it
\* takes, those left there were put there since.
EditHolds(r, stored, P, E) ==
  /\ r.pc = "usage" => r.found = stored
  /\ Remakes(r) =>
       /\ \A key \in DOMAIN E :
            /\ E[key] = "in" /\ ~(r.op \in {"rename", "remove"} /\ key = Key[About(r)])
                 => Offers(r.found, key)
            /\ E[key] = "out" /\ Offers(r.found, key)
                 => r.op \in {"rename", "add"} /\ key = Key[r.new]
       /\ r.op \in {"rename", "add"} => Offers(r.found, Key[r.new])
       /\ Takes(r) => ~Offers(r.found, Key[About(r)])
       /\ Takes(r) /\ r.pc # "move" =>
            \A t \in DOMAIN P : t \in r.since \/ Key[P[t]] # Key[About(r)]
       /\ r.op = "remove" /\ r.pc = "move" => Key[r.new] # Key[About(r)]

ZonesInv ==
  /\ Placing
  /\ ~AtZones => \A key \in DOMAIN edited : edited[key] = "open"
  /\ AtZones => DOMAIN req = Slots /\ \A i \in Slots : EditFits(req[i])
  /\ AtZones /\ House \notin torn =>
       /\ AsLeft(Stored, placed, edited)
       /\ \A i \in Slots : EditHolds(req[i], Stored, placed, edited)
       /\ \A i, j \in Slots : i # j => At(i, "free") \/ At(j, "free")

\* The stored list is a list.
LEMMA StoredIs == ASSUME Placing PROVE Stored \in Seq(Names)
BY ZonesAssumption DEF Placing, Stored

LEMMA FreeEditFits ==
  /\ EditFits(FreeSlot) /\ FreeSlot.pc = "free"
  /\ \A stored, P, E : EditHolds(FreeSlot, stored, P, E)
BY DEF EditFits, FreeSlot, EditHolds, Remakes, Storing

\* A request as it was but for some fields.
LEMMA Refitted ==
  ASSUME NEW r, DOMAIN r = DOMAIN FreeSlot, NEW pc, NEW found, NEW since
  PROVE  /\ LET q == [[r EXCEPT !.pc = pc] EXCEPT !.found = found, !.since = since]
            IN /\ DOMAIN q = DOMAIN FreeSlot /\ q.op = r.op /\ q.pc = pc /\ q.key = r.key
               /\ q.new = r.new /\ q.todo = r.todo /\ q.found = found /\ q.since = since
         /\ LET q == [[r EXCEPT !.pc = pc] EXCEPT !.since = since]
            IN /\ DOMAIN q = DOMAIN FreeSlot /\ q.op = r.op /\ q.pc = pc /\ q.key = r.key
               /\ q.new = r.new /\ q.todo = r.todo /\ q.found = r.found /\ q.since = since
         /\ LET q == [r EXCEPT !.pc = pc]
            IN /\ DOMAIN q = DOMAIN FreeSlot /\ q.op = r.op /\ q.pc = pc /\ q.key = r.key
               /\ q.new = r.new /\ q.todo = r.todo /\ q.found = r.found /\ q.since = r.since
         /\ LET q == [r EXCEPT !.since = since]
            IN /\ DOMAIN q = DOMAIN FreeSlot /\ q.op = r.op /\ q.pc = r.pc /\ q.key = r.key
               /\ q.new = r.new /\ q.todo = r.todo /\ q.found = r.found /\ q.since = since
<1>1. {"op", "pc", "key", "new", "todo", "found", "since"} \subseteq DOMAIN r
  BY DEF FreeSlot
<1> QED
  BY <1>1

\* One request goes on.
LEMMA EditGoes ==
  ASSUME ZonesInv, AtZones, NEW i \in Slots, NEW r, Goes(i, r), EditFits(r), Placing',
         counts'.desk = counts.desk,
         House \notin torn' =>
           /\ AsLeft(Stored', placed', edited') /\ EditHolds(r, Stored', placed', edited')
           /\ \A j \in Slots \ {i} : At(j, "free") /\ EditHolds(req[j], Stored', placed', edited')
  PROVE  ZonesInv'
<1>1. \A j \in Slots : req'[j] = IF j = i THEN r ELSE req[j]
  BY DEF ZonesInv, Goes
<1>2. DOMAIN req' = Slots
  BY DEF ZonesInv, Goes
<1>3. AtZones' /\ \A j \in Slots : EditFits(req'[j])
  BY <1>1 DEF ZonesInv, AtZones
<1>4. ASSUME House \notin torn'
      PROVE  /\ AsLeft(Stored', placed', edited')
             /\ \A j \in Slots : EditHolds(req'[j], Stored', placed', edited')
             /\ \A j, k \in Slots : j # k => At(j, "free")' \/ At(k, "free")'
  <2>1. \A j \in Slots : EditHolds(req'[j], Stored', placed', edited')
    BY <1>1, <1>4
  <2>2. \A j \in Slots \ {i} : req'[j].pc = "free"
    BY <1>1, <1>4 DEF At
  <2>3. \A j, k \in Slots : j # k => req'[j].pc = "free" \/ req'[k].pc = "free"
    BY <2>2
  <2> QED
    BY <1>4, <2>1, <2>3 DEF At
<1> QED
  BY <1>2, <1>3, <1>4 DEF ZonesInv

\* A request that is free holds nothing.
LEMMA FreeHolds ==
  ASSUME NEW r, r.pc = "free", NEW stored, NEW P, NEW E PROVE EditHolds(r, stored, P, E)
BY DEF EditHolds, Remakes, Storing

\* An edit comes in.
LEMMA EditComes ==
  ASSUME ZonesInv, AtZones, "desk" \in DOMAIN counts, NEW i \in Slots, NEW r, AsksZones(i, r), EditFits(r),
         EditHolds(r, Stored, placed, edited)
  PROVE  ZonesInv'
<1>1. /\ Begins(i, r) /\ Goes(i, r) /\ UNCHANGED <<zones, placed, edited>>
      /\ counts' = [counts EXCEPT !.requests = @ + 1]
      /\ torn' = torn \cup {k \in {r.key} : \E j \in Slots \ {i} : ~At(j, "free") /\ req[j].key = k}
  BY DEF AsksZones, Begins, zoneRows
<1>2. counts'.desk = counts.desk /\ Placing' /\ Stored' = Stored
  BY <1>1 DEF ZonesInv, Placing, Stored
<1>3. ASSUME House \notin torn' PROVE House \notin torn /\ \A j \in Slots \ {i} : At(j, "free")
  <2>1. r.key = House /\ \A j \in Slots : req[j].key = House
    BY DEF EditFits, ZonesInv
  <2> QED
    BY <1>1, <1>3, <2>1
<1> QED
  BY <1>1, <1>2, <1>3, EditGoes DEF ZonesInv

LEMMA ZonesArriveKeeps ==
  ASSUME ZonesInv, AtZones, "desk" \in DOMAIN counts, NEW i \in Slots, ZonesArrive(i) PROVE ZonesInv'
<1>1. Stored \in Seq(Names) /\ Working(Stored) \in Seq(Names)
  BY StoredIs, WorkingIs DEF ZonesInv
<1>2. Range(Working(Stored)) \subseteq Names
  BY <1>1 DEF Range
<1>3. ASSUME NEW op \in {"rename", "add", "remove"}, NEW from \in Names, NEW new \in Names,
             EditArrives(i, op, from, new)
      PROVE  ZonesInv'
  <2> DEFINE r == [FreeSlot EXCEPT !.op = op, !.pc = "usage", !.todo = {from}, !.new = new,
                                   !.found = Stored]
  <2>1. AsksZones(i, r)
    BY <1>3 DEF EditArrives
  <2>2. EditFits(r)
    BY <1>1 DEF EditFits, FreeSlot, Storing
  <2>3. EditHolds(r, Stored, placed, edited)
    BY DEF EditHolds, Remakes, Storing, FreeSlot
  <2> HIDE DEF r
  <2> QED
    BY <2>1, <2>2, <2>3, EditComes
<1>4. ASSUME EditArrives(i, "reorder", Defaults[1], Reverse(Working(Stored))) PROVE ZonesInv'
  <2> DEFINE new == Reverse(Working(Stored))
             r   == [FreeSlot EXCEPT !.op = "reorder", !.pc = "usage", !.todo = {Defaults[1]},
                                     !.new = new, !.found = Stored]
  <2>1. AsksZones(i, r)
    BY <1>4 DEF EditArrives
  <2>2. Defaults[1] \in Names
    BY ZonesAssumption
  <2>3. new \in Seq(Names)
    BY <1>1 DEF Reverse
  <2> HIDE DEF new
  <2>4. EditFits(r)
    BY <1>1, <2>2, <2>3 DEF EditFits, FreeSlot, Storing
  <2>5. EditHolds(r, Stored, placed, edited)
    BY DEF EditHolds, Remakes, Storing, FreeSlot
  <2> HIDE DEF r
  <2> QED
    BY <2>1, <2>4, <2>5, EditComes
<1>5. ASSUME NEW list, list \in Seq(Names), StoreArrives(i, list) PROVE ZonesInv'
  <2> DEFINE r == [FreeSlot EXCEPT !.op = "store", !.pc = "row", !.found = list]
  <2>1. AsksZones(i, r)
    BY <1>5 DEF StoreArrives
  <2>2. EditFits(r)
    BY <1>5 DEF EditFits, FreeSlot, Storing
  <2>3. EditHolds(r, Stored, placed, edited)
    BY DEF EditHolds, Remakes, Storing, FreeSlot
  <2> HIDE DEF r
  <2> QED
    BY <2>1, <2>2, <2>3, EditComes
<1>6. Reverse(Stored) \in Seq(Names)
  BY <1>1 DEF Reverse
<1>7. Tail(Stored) \in Seq(Names)
  <2>1. Stored # <<>>
    BY ZonesAssumption DEF Stored, Sound
  <2> QED
    BY <1>1, <2>1
<1> QED
  BY <1>2, <1>3, <1>4, <1>5, <1>6, <1>7 DEF ZonesArrive

\* What an edit makes of a list.
LEMMA MadeIs ==
  ASSUME NEW list \in Seq(Names), NEW r, NEW from \in Names, ~Refused(r, from, list),
         r.op \in {"rename", "add", "remove"} => r.new \in Names,
         r.op = "reorder" => r.new \in Seq(Names),
         r.op \in {"rename", "add", "reorder", "remove"}
  PROVE  /\ Makes(r, from, list) \in Seq(Names)
         /\ \A key : Offers(Makes(r, from, list), key) <=>
              CASE r.op = "rename"  -> (Offers(list, key) /\ key # Key[from]) \/ key = Key[r.new]
                [] r.op = "add"     -> Offers(list, key) \/ key = Key[r.new]
                [] r.op = "reorder" -> Offers(list, key)
                [] r.op = "remove"  -> Offers(list, key) /\ key # Key[from]
<1> DEFINE m == Makes(r, from, list)
<1>1. CASE r.op = "rename"
  <2>1. m = Renamed(list, from, r.new) /\ m # NoList
    BY <1>1 DEF Makes, Refused
  <2>2. PICK k \in DOMAIN list : Key[list[k]] = Key[from]
    BY <2>1 DEF Renamed, SelectInSeq
  <2>3. m = [j \in DOMAIN list |-> IF Key[list[j]] = Key[from] THEN r.new ELSE list[j]]
    BY <2>1 DEF Renamed
  <2> HIDE DEF m
  <2>4. m \in Seq(Names)
    BY <1>1, <2>3
  <2>5. ASSUME NEW key
        PROVE  Offers(m, key) <=> (Offers(list, key) /\ key # Key[from]) \/ key = Key[r.new]
    BY <2>2, <2>3 DEF Offers
  <2> QED
    BY <1>1, <2>4, <2>5 DEF m
<1>2. CASE r.op = "add"
  <2>1. m = Append(list, r.new)
    BY <1>2 DEF Makes, Refused, Added
  <2>2. /\ m \in Seq(Names) /\ DOMAIN m = 1 .. Len(list) + 1 /\ DOMAIN list = 1 .. Len(list)
        /\ m[Len(list) + 1] = r.new /\ Len(list) \in Nat
        /\ \A k \in 1 .. Len(list) : m[k] = list[k]
    BY <1>2, <2>1, AppendProperties
  <2> HIDE DEF m
  <2>3. ASSUME NEW key PROVE Offers(m, key) <=> Offers(list, key) \/ key = Key[r.new]
    <3>1. \A k \in DOMAIN m : k \in DOMAIN list \/ k = Len(list) + 1
      BY <2>2
    <3>2. \A k \in DOMAIN list : k \in DOMAIN m
      BY <2>2
    <3>3. Len(list) + 1 \in DOMAIN m
      BY <2>2
    <3> QED
      BY <2>2, <3>1, <3>2, <3>3 DEF Offers
  <2> QED
    BY <1>2, <2>2, <2>3 DEF m
<1>3. CASE r.op = "reorder"
  <2>1. m = r.new /\ Range(KeyOf(r.new)) = Range(KeyOf(list))
    BY <1>3 DEF Makes, Refused, Reordered
  <2>2. \A s, key : Offers(s, key) <=> key \in Range(KeyOf(s))
    BY DEF Offers, Range, KeyOf
  <2> HIDE DEF m
  <2>3. m \in Seq(Names) /\ \A key : Offers(m, key) <=> Offers(list, key)
    BY <1>3, <2>1, <2>2
  <2> QED
    BY <1>3, <2>3 DEF m
<1>4. CASE r.op = "remove"
  <2>1. m = Without(list, from)
    BY <1>4 DEF Makes
  <2> HIDE DEF m
  <2>2. m \in Seq(Names) /\ \A key : Offers(m, key) <=> Offers(list, key) /\ key # Key[from]
    BY <2>1, WithoutIs
  <2> QED
    BY <1>4, <2>2 DEF m
<1> QED
  BY <1>1, <1>2, <1>3, <1>4

\* A zone that a table has come to may be offered again.
LEMMA OpenedIs ==
  ASSUME Placing, NEW name \in Names
  PROVE  /\ Opened(name) \in [Range(Key) -> {"in", "out", "open"}]
         /\ DOMAIN Opened(name) = DOMAIN edited
         /\ \A key \in DOMAIN edited :
              /\ Opened(name)[key] = "in" <=> edited[key] = "in"
              /\ Opened(name)[key] = "out" <=> edited[key] = "out" /\ key # Key[name]
<1>1. Key[name] \in Range(Key)
  BY ZonesAssumption DEF Range
<1> QED
  BY <1>1 DEF Opened, Placing

\* A request under way, when no other edit is.
LEMMA Alone ==
  ASSUME ZonesInv, AtZones, NEW i \in Slots, ~At(i, "free")
  PROVE  /\ EditFits(req[i]) /\ DOMAIN req[i] = DOMAIN FreeSlot
         /\ House \notin torn =>
              /\ AsLeft(Stored, placed, edited) /\ EditHolds(req[i], Stored, placed, edited)
              /\ \A j \in Slots \ {i} : At(j, "free")
                   /\ \A stored, P, E : EditHolds(req[j], stored, P, E)
<1>1. EditFits(req[i])
  BY DEF ZonesInv
<1>2. ASSUME House \notin torn, NEW j \in Slots \ {i} PROVE At(j, "free")
  BY <1>2 DEF ZonesInv
<1>3. ASSUME House \notin torn, NEW j \in Slots \ {i}, NEW stored, NEW P, NEW E
      PROVE  EditHolds(req[j], stored, P, E)
  BY <1>2, <1>3, FreeHolds DEF At
<1> QED
  BY <1>1, <1>2, <1>3 DEF EditFits, ZonesInv

LEMMA ReadsUsageKeeps ==
  ASSUME ZonesInv, AtZones, NEW i \in Slots, ReadsUsage(i) PROVE ZonesInv'
<1> DEFINE r    == req[i]
           from == About(r)
           list == Working(r.found)
           unseen == IF r.op = "remove" /\ ~Moves(r, from)
                     THEN {t \in DOMAIN placed : Key[placed[t]] = Key[from]} ELSE {}
           pc   == IF Moves(r, from) THEN "move" ELSE "row"
           q    == [[r EXCEPT !.pc = pc] EXCEPT !.found = Makes(r, from, list), !.since = unseen]
<1>1. /\ At(i, "usage") /\ UNCHANGED <<zones, placed, edited, counts, torn>>
      /\ IF Refused(r, from, list) THEN Goes(i, FreeSlot) ELSE Goes(i, q)
  BY DEF ReadsUsage, zoneRows, Answers, Step, From, About
<1>2. Placing' /\ Stored' = Stored /\ counts'.desk = counts.desk /\ Placing
  BY <1>1 DEF ZonesInv, Placing, Stored
<1>3. /\ EditFits(r) /\ DOMAIN r = DOMAIN FreeSlot
      /\ House \notin torn =>
           /\ AsLeft(Stored, placed, edited) /\ EditHolds(r, Stored, placed, edited)
           /\ \A j \in Slots \ {i} : At(j, "free")
                /\ \A stored, P, E : EditHolds(req[j], stored, P, E)
  BY <1>1, Alone DEF At
<1>4. CASE Refused(r, from, list)
  BY <1>1, <1>2, <1>3, <1>4, FreeEditFits, EditGoes
<1>5. CASE ~Refused(r, from, list)
  <2>1. r.pc = "usage" /\ from \in Names /\ r.found \in Seq(Names) /\ r.key = House
        /\ r.op \in {"rename", "add", "remove", "reorder"} /\ r.todo = {from}
    BY <1>1, <1>3 DEF At, EditFits, About, Storing
  <2>2. /\ r.op \in {"rename", "add", "remove"} => r.new \in Names
        /\ r.op = "reorder" => r.new \in Seq(Names)
    BY <1>3, <2>1 DEF EditFits
  <2>3. /\ list \in Seq(Names)
        /\ \A key : Offers(list, key)
                      <=> Offers(r.found, key) \/ \E t \in DOMAIN placed : Key[placed[t]] = key
    BY <1>2, <2>1, WorkingIs
  <2>4. /\ Makes(r, from, list) \in Seq(Names)
        /\ \A key : Offers(Makes(r, from, list), key) <=>
              CASE r.op = "rename"  -> (Offers(list, key) /\ key # Key[from]) \/ key = Key[r.new]
                [] r.op = "add"     -> Offers(list, key) \/ key = Key[r.new]
                [] r.op = "reorder" -> Offers(list, key)
                [] r.op = "remove"  -> Offers(list, key) /\ key # Key[from]
    <3> HIDE DEF list, from
    <3> QED
      BY <1>5, <2>1, <2>2, <2>3, MadeIs
  <2>5. /\ DOMAIN q = DOMAIN FreeSlot /\ q.op = r.op /\ q.pc = pc /\ q.key = r.key
        /\ q.new = r.new /\ q.todo = r.todo /\ q.found = Makes(r, from, list) /\ q.since = unseen
    <3> HIDE DEF pc, unseen, list, from
    <3> QED
      BY <1>3, Refitted
  <2>6. About(q) = from
    BY <2>5 DEF About
  <2>7. r.op = "rename" => pc = "move"
    BY DEF Moves
  <2>8. r.op = "remove" /\ pc = "move" => Key[r.new] # Key[from]
    BY <1>5 DEF Refused, Moves
  <2>9. pc \in {"move", "row"} /\ (pc = "move" => r.op \in {"rename", "remove"})
    BY DEF Moves
  <2>10. r.op = "remove" /\ pc # "move" => unseen = {t \in DOMAIN placed : Key[placed[t]] = Key[from]}
    OBVIOUS
  <2> DEFINE m == Makes(r, from, list)
  <2> HIDE DEF q, pc, from, list, unseen, m
  <2>11. EditFits(q)
    <3>1. q.found \in Seq(Names)
      BY <2>4, <2>5
    <3> QED
      BY <2>1, <2>2, <2>5, <2>9, <3>1 DEF EditFits, Storing
  <2>12. ASSUME House \notin torn PROVE EditHolds(q, Stored, placed, edited)
    <3>1. r.found = Stored /\ AsLeft(Stored, placed, edited)
      BY <1>3, <2>1, <2>12 DEF EditHolds
    <3>2. \A key \in DOMAIN edited : /\ edited[key] = "in" => Offers(list, key)
                                     /\ edited[key] = "out" => ~Offers(list, key)
      BY <2>3, <3>1 DEF AsLeft
    <3>3. q.pc # "usage"
      BY <2>5, <2>9
    <3>4. ASSUME NEW key \in DOMAIN edited
          PROVE  /\ edited[key] = "in" /\ ~(q.op \in {"rename", "remove"} /\ key = Key[About(q)])
                      => Offers(q.found, key)
                 /\ edited[key] = "out" /\ Offers(q.found, key)
                      => q.op \in {"rename", "add"} /\ key = Key[q.new]
      BY <2>1, <2>4, <2>5, <2>6, <3>2
    <3>5. q.op \in {"rename", "add"} => Offers(q.found, Key[q.new])
      BY <2>4, <2>5
    <3>6. Takes(q) => ~Offers(q.found, Key[About(q)])
      BY <2>4, <2>5, <2>6 DEF Takes
    <3>7. Takes(q) /\ q.pc # "move" =>
            \A t \in DOMAIN placed : t \in q.since \/ Key[placed[t]] # Key[About(q)]
      BY <2>5, <2>6, <2>7, <2>10 DEF Takes
    <3>8. q.op = "remove" /\ q.pc = "move" => Key[q.new] # Key[About(q)]
      BY <2>5, <2>6, <2>8
    <3> QED
      BY <3>3, <3>4, <3>5, <3>6, <3>7, <3>8 DEF EditHolds
  <2>13. Goes(i, q)
    BY <1>1, <1>5
  <2> QED
    BY <1>1, <1>2, <1>3, <2>11, <2>12, <2>13, EditGoes
<1> QED
  BY <1>4, <1>5

LEMMA MovesTablesKeeps ==
  ASSUME ZonesInv, AtZones, NEW i \in Slots, MovesTables(i) PROVE ZonesInv'
<1> DEFINE r    == req[i]
           from == About(r)
           q    == [[r EXCEPT !.pc = "row"] EXCEPT !.since = {}]
<1>1. /\ At(i, "move") /\ UNCHANGED <<zones, counts, torn>>
      /\ placed' = Moved(from, r.new)
      /\ Goes(i, FreeSlot) \/ Goes(i, q)
      /\ edited' = IF placed' = placed THEN edited ELSE Opened(r.new)
  BY DEF MovesTables, Answers, Step, From, About
<1>2. /\ EditFits(r) /\ DOMAIN r = DOMAIN FreeSlot
      /\ House \notin torn =>
           /\ AsLeft(Stored, placed, edited) /\ EditHolds(r, Stored, placed, edited)
           /\ \A j \in Slots \ {i} : At(j, "free")
                /\ \A stored, P, E : EditHolds(req[j], stored, P, E)
  BY <1>1, Alone DEF At
<1>3. /\ r.pc = "move" /\ r.op \in {"rename", "remove"} /\ r.new \in Names /\ from \in Names
      /\ r.todo = {from} /\ r.found \in Seq(Names) /\ r.key = House
  BY <1>1, <1>2 DEF At, EditFits, About
<1>4. /\ placed' \in [DOMAIN placed -> Names] /\ DOMAIN placed' = DOMAIN placed
      /\ \A t \in DOMAIN placed :
           placed'[t] = IF Key[placed[t]] = Key[from] THEN r.new ELSE placed[t]
  BY <1>1, <1>3 DEF Moved, ZonesInv, Placing
<1>5. /\ edited' \in [Range(Key) -> {"in", "out", "open"}] /\ DOMAIN edited' = DOMAIN edited
      /\ \A key \in DOMAIN edited :
           /\ edited'[key] = "in" <=> edited[key] = "in"
           /\ edited'[key] = "out" => edited[key] = "out"
           /\ edited'[key] = "out" => placed' = placed \/ key # Key[r.new]
  BY <1>1, <1>3, OpenedIs DEF ZonesInv, Placing
<1>6. Placing' /\ Stored' = Stored /\ counts'.desk = counts.desk
  BY <1>1, <1>4, <1>5 DEF ZonesInv, Placing, Stored
<1>7. /\ DOMAIN q = DOMAIN FreeSlot /\ q.op = r.op /\ q.pc = "row" /\ q.key = r.key
      /\ q.new = r.new /\ q.todo = r.todo /\ q.found = r.found /\ q.since = {}
  BY <1>2, Refitted
<1>8. About(q) = from
  BY <1>7 DEF About
<1> HIDE DEF q, from
<1>9. EditFits(q)
  BY <1>3, <1>7 DEF EditFits, Storing
<1>10. ASSUME House \notin torn PROVE AsLeft(Stored, placed', edited')
  <2> SUFFICES ASSUME NEW key \in DOMAIN edited
               PROVE  /\ edited'[key] = "in" => Offers(Stored, key)
                      /\ edited'[key] = "out" =>
                           ~Offers(Stored, key) /\ \A t \in DOMAIN placed : Key[placed'[t]] # key
    BY <1>4, <1>5 DEF AsLeft
  <2>1. /\ edited[key] = "in" => Offers(Stored, key)
        /\ edited[key] = "out" =>
             ~Offers(Stored, key) /\ \A t \in DOMAIN placed : Key[placed[t]] # key
    BY <1>2, <1>10 DEF AsLeft
  <2> QED
    BY <1>4, <1>5, <2>1
<1>11. ASSUME House \notin torn PROVE EditHolds(q, Stored, placed', edited')
  <2>1. /\ \A key \in DOMAIN edited :
             /\ edited[key] = "in" /\ key # Key[from] => Offers(r.found, key)
             /\ edited[key] = "out" /\ Offers(r.found, key) => r.op = "rename" /\ key = Key[r.new]
        /\ r.op = "rename" => Offers(r.found, Key[r.new])
        /\ Takes(r) => ~Offers(r.found, Key[from])
        /\ r.op = "remove" => Key[r.new] # Key[from]
    BY <1>2, <1>3, <1>11 DEF EditHolds, Remakes, Storing, from
  <2>2. Takes(q) => Takes(r) /\ Key[r.new] # Key[from]
    BY <1>7, <1>8, <2>1 DEF Takes, from
  <2>3. Takes(q) => \A t \in DOMAIN placed : Key[placed'[t]] # Key[from]
    BY <1>4, <2>2
  <2>4. \A key \in DOMAIN edited' :
             /\ edited'[key] = "in" /\ key # Key[from] => Offers(r.found, key)
             /\ edited'[key] = "out" /\ Offers(r.found, key) => r.op = "rename" /\ key = Key[r.new]
    BY <1>5, <2>1
  <2> QED
    BY <1>3, <1>4, <1>7, <1>8, <2>1, <2>2, <2>3, <2>4 DEF EditHolds
<1>12. CASE Goes(i, FreeSlot)
  BY <1>1, <1>2, <1>6, <1>10, <1>12, FreeEditFits, EditGoes
<1>13. CASE Goes(i, q)
  BY <1>1, <1>2, <1>6, <1>9, <1>10, <1>11, <1>13, EditGoes
<1> QED
  BY <1>1, <1>12, <1>13

LEMMA ReadsRowKeeps ==
  ASSUME ZonesInv, AtZones, NEW i \in Slots, ReadsRow(i) PROVE ZonesInv'
<1> DEFINE r  == req[i]
           pc == IF zones = NoList THEN "insert" ELSE "update"
           q  == [r EXCEPT !.pc = pc]
<1>1. At(i, "row") /\ UNCHANGED <<zones, placed, edited, counts, torn>> /\ Goes(i, q)
  BY DEF ReadsRow, zoneRows, Step
<1>2. Placing' /\ Stored' = Stored /\ counts'.desk = counts.desk
  BY <1>1 DEF ZonesInv, Placing, Stored
<1>3. /\ EditFits(r) /\ DOMAIN r = DOMAIN FreeSlot
      /\ House \notin torn =>
           /\ AsLeft(Stored, placed, edited) /\ EditHolds(r, Stored, placed, edited)
           /\ \A j \in Slots \ {i} : At(j, "free")
                /\ \A stored, P, E : EditHolds(req[j], stored, P, E)
  BY <1>1, Alone DEF At
<1>4. pc \in {"insert", "update"} /\ r.pc = "row"
  BY <1>1 DEF At
<1> HIDE DEF pc
<1>5. /\ DOMAIN q = DOMAIN FreeSlot /\ q.op = r.op /\ q.pc = pc /\ q.key = r.key
      /\ q.new = r.new /\ q.todo = r.todo /\ q.found = r.found /\ q.since = r.since
  BY <1>3, Refitted
<1> HIDE DEF q
<1>6. EditFits(q)
  BY <1>3, <1>4, <1>5 DEF EditFits, Storing
<1>7. ASSUME EditHolds(r, Stored, placed, edited) PROVE EditHolds(q, Stored, placed, edited)
  <2>1. About(q) = About(r)
    BY <1>5 DEF About
  <2> QED
    BY <1>4, <1>5, <1>7, <2>1 DEF EditHolds, Remakes, Takes, Storing
<1> QED
  BY <1>1, <1>2, <1>3, <1>6, <1>7, EditGoes

LEMMA WritesListKeeps ==
  ASSUME ZonesInv, AtZones, NEW i \in Slots, WritesList(i) PROVE ZonesInv'
<1> DEFINE r == req[i]
<1>1. /\ At(i, "update") \/ At(i, "insert")
      /\ zones' = r.found /\ Goes(i, FreeSlot) /\ UNCHANGED <<placed, counts, torn>>
      /\ edited' = [k \in DOMAIN edited |-> IF Sound(zones') THEN Promised(i, k) ELSE "open"]
  BY DEF WritesList, Answers
<1>2. /\ EditFits(r) /\ DOMAIN r = DOMAIN FreeSlot
      /\ House \notin torn =>
           /\ AsLeft(Stored, placed, edited) /\ EditHolds(r, Stored, placed, edited)
           /\ \A j \in Slots \ {i} : At(j, "free")
                /\ \A stored, P, E : EditHolds(req[j], stored, P, E)
  BY <1>1, Alone DEF At
<1>3. /\ r.found \in Seq(Names) /\ r.op \in {"rename", "add", "remove", "reorder", "store"}
      /\ r.pc \in {"insert", "update"} /\ From(i) = About(r)
  BY <1>1, <1>2 DEF At, EditFits, From, About
<1>4. \A k \in DOMAIN edited : Promised(i, k) \in {"in", "out", "open"}
  BY <1>3 DEF ZonesInv, Placing, Promised
<1>5. Placing' /\ counts'.desk = counts.desk
  BY <1>1, <1>3, <1>4 DEF ZonesInv, Placing
<1>6. ASSUME House \notin torn PROVE AsLeft(Stored', placed', edited')
  <2>1. CASE ~Sound(zones')
    BY <1>1, <2>1 DEF AsLeft
  <2>2. CASE Sound(zones')
    <3>1. Stored' = r.found
      BY <1>1, <2>2 DEF Stored
    <3> SUFFICES ASSUME NEW key \in DOMAIN edited
                 PROVE  /\ Promised(i, key) = "in" => Offers(r.found, key)
                        /\ Promised(i, key) = "out" =>
                             ~Offers(r.found, key) /\ \A t \in DOMAIN placed : Key[placed[t]] # key
      BY <1>1, <2>2, <3>1 DEF AsLeft
    <3>2. CASE r.op = "store"
      BY <3>2 DEF Promised
    <3>3. CASE r.op # "store"
      <4>1. Remakes(r) /\ EditHolds(r, Stored, placed, edited) /\ r.pc # "move"
        BY <1>2, <1>3, <1>6, <3>3 DEF Remakes, Storing
      <4>2. CASE r.op \in {"rename", "add"} /\ key = Key[r.new]
        BY <4>1, <4>2 DEF Promised, EditHolds
      <4>3. CASE Takes(r) /\ key = Key[About(r)]
        <5>1. ~(r.op \in {"rename", "add"} /\ key = Key[r.new])
          BY <4>3 DEF Takes
        <5>2. Promised(i, key) = IF \A t \in r.since : Key[placed[t]] # key THEN "out" ELSE "open"
          BY <1>3, <4>3, <5>1 DEF Promised, Takes
        <5>3. ~Offers(r.found, key)
          BY <4>1, <4>3 DEF EditHolds
        <5>4. \A t \in DOMAIN placed : t \in r.since \/ Key[placed[t]] # key
          BY <4>1, <4>3 DEF EditHolds
        <5> QED
          BY <5>2, <5>3, <5>4
      <4>4. CASE ~(r.op \in {"rename", "add"} /\ key = Key[r.new]) /\ ~(Takes(r) /\ key = Key[About(r)])
        <5>1. Promised(i, key) = edited[key]
          BY <1>3, <3>3, <4>4 DEF Promised, Takes
        <5>2. ~(r.op \in {"rename", "remove"} /\ key = Key[About(r)])
          BY <4>4 DEF Takes
        <5>3. edited[key] = "in" => Offers(r.found, key)
          BY <4>1, <5>2 DEF EditHolds
        <5>4. edited[key] = "out" => ~Offers(r.found, key)
          BY <4>1, <4>4 DEF EditHolds
        <5>5. edited[key] = "out" => \A t \in DOMAIN placed : Key[placed[t]] # key
          BY <1>2, <1>6 DEF AsLeft
        <5> QED
          BY <5>1, <5>3, <5>4, <5>5
      <4> QED
        BY <4>2, <4>3, <4>4
    <3> QED
      BY <3>2, <3>3
  <2> QED
    BY <2>1, <2>2
<1> QED
  BY <1>1, <1>2, <1>5, <1>6, FreeEditFits, EditGoes

LEMMA InsertFailsKeeps ==
  ASSUME ZonesInv, AtZones, NEW i \in Slots, InsertFails(i) PROVE ZonesInv'
<1>1. /\ At(i, "insert") /\ Goes(i, FreeSlot) /\ UNCHANGED <<zones, placed, edited, counts, torn>>
  BY DEF InsertFails, Answers, zoneRows
<1>2. Placing' /\ Stored' = Stored /\ counts'.desk = counts.desk
  BY <1>1 DEF ZonesInv, Placing, Stored
<1> QED
  BY <1>1, <1>2, Alone, FreeEditFits, EditGoes DEF At

\* A request cut short.
LEMMA DiesInZones ==
  ASSUME ZonesInv, AtZones, "desk" \in DOMAIN counts, NEW i \in Slots, Dies(i), UNCHANGED zoneRows
  PROVE  ZonesInv'
<1>1. /\ ~At(i, "free") /\ Goes(i, FreeSlot) /\ UNCHANGED <<zones, placed, edited, torn>>
      /\ counts' = [counts EXCEPT !.cut = Append(@, [op |-> req[i].op, key |-> req[i].key])]
  BY DEF Dies, Answers, zoneRows
<1>2. Placing' /\ Stored' = Stored /\ counts'.desk = counts.desk
  BY <1>1 DEF ZonesInv, Placing, Stored
<1> QED
  BY <1>1, <1>2, Alone, FreeEditFits, EditGoes DEF At

\* A table is put somewhere.
LEMMA PlacesKeeps ==
  ASSUME ZonesInv, AtZones, "desk" \in DOMAIN counts, NEW t \in DOMAIN placed, NEW name \in Names,
         Places(t, name)
  PROVE  ZonesInv'
<1>1. /\ placed' = [placed EXCEPT ![t] = name] /\ edited' = Opened(name) /\ zones' = zones
      /\ req' = [j \in Slots |-> IF At(j, "free") THEN req[j]
                                 ELSE [req[j] EXCEPT !.since = req[j].since \cup {t}]]
      /\ torn' = torn /\ counts' = [counts EXCEPT !.changes = @ + 1]
  BY DEF Places, Changes
<1>2. Placing
  BY DEF ZonesInv
<1>3. /\ placed' \in [DOMAIN placed -> Names] /\ DOMAIN placed' = DOMAIN placed
      /\ placed'[t] = name /\ \A s \in DOMAIN placed : s # t => placed'[s] = placed[s]
  BY <1>1, <1>2 DEF Placing
<1>4. /\ edited' \in [Range(Key) -> {"in", "out", "open"}] /\ DOMAIN edited' = DOMAIN edited
      /\ \A key \in DOMAIN edited :
           /\ edited'[key] = "in" <=> edited[key] = "in"
           /\ edited'[key] = "out" => edited[key] = "out" /\ key # Key[name]
  BY <1>1, <1>2, OpenedIs
<1>5. Placing' /\ Stored' = Stored /\ AtZones'
  BY <1>1, <1>3, <1>4 DEF Placing, Stored, ZonesInv, AtZones
<1>6. ASSUME NEW j \in Slots
      PROVE  /\ DOMAIN req'[j] = DOMAIN FreeSlot /\ req'[j].op = req[j].op /\ req'[j].pc = req[j].pc
             /\ req'[j].key = req[j].key /\ req'[j].new = req[j].new /\ req'[j].todo = req[j].todo
             /\ req'[j].found = req[j].found
             /\ req[j].pc # "free" => req'[j].since = req[j].since \cup {t}
  <2>1. DOMAIN req[j] = DOMAIN FreeSlot
    BY DEF ZonesInv, EditFits
  <2>2. CASE At(j, "free")
    BY <1>1, <2>1, <2>2 DEF At
  <2>3. CASE ~At(j, "free")
    <3>1. req'[j] = [req[j] EXCEPT !.since = req[j].since \cup {t}]
      BY <1>1, <2>3
    <3> QED
      BY <2>1, <3>1, Refitted
  <2> QED
    BY <2>2, <2>3
<1>7. ASSUME NEW j \in Slots PROVE EditFits(req'[j])
  <2>1. EditFits(req[j])
    BY DEF ZonesInv
  <2> QED
    BY <1>6, <2>1 DEF EditFits
<1>8. ASSUME House \notin torn PROVE AsLeft(Stored, placed', edited')
  <2> SUFFICES ASSUME NEW key \in DOMAIN edited
               PROVE  /\ edited'[key] = "in" => Offers(Stored, key)
                      /\ edited'[key] = "out" =>
                           ~Offers(Stored, key) /\ \A s \in DOMAIN placed : Key[placed'[s]] # key
    BY <1>3, <1>4 DEF AsLeft
  <2>1. /\ edited[key] = "in" => Offers(Stored, key)
        /\ edited[key] = "out" =>
             ~Offers(Stored, key) /\ \A s \in DOMAIN placed : Key[placed[s]] # key
    BY <1>8 DEF ZonesInv, AsLeft
  <2> QED
    BY <1>3, <1>4, <2>1
<1>9. ASSUME House \notin torn, NEW j \in Slots PROVE EditHolds(req'[j], Stored, placed', edited')
  <2> DEFINE r == req[j]
             q == req'[j]
  <2>1. EditHolds(r, Stored, placed, edited)
    BY <1>9 DEF ZonesInv
  <2>2. /\ q.op = r.op /\ q.pc = r.pc /\ q.new = r.new /\ q.found = r.found
        /\ About(q) = About(r) /\ (Remakes(q) <=> Remakes(r)) /\ (Takes(q) <=> Takes(r))
        /\ Remakes(r) => q.since = r.since \cup {t}
    BY <1>6 DEF About, Remakes, Takes, Storing
  <2> HIDE DEF q, r
  <2>3. CASE ~Remakes(r)
    BY <2>1, <2>2, <2>3 DEF EditHolds, q
  <2>4. CASE Remakes(r)
    <3>1. \A key \in DOMAIN edited' :
            /\ edited'[key] = "in" /\ ~(q.op \in {"rename", "remove"} /\ key = Key[About(q)])
                 => Offers(q.found, key)
            /\ edited'[key] = "out" /\ Offers(q.found, key)
                 => q.op \in {"rename", "add"} /\ key = Key[q.new]
      BY <1>4, <2>1, <2>2, <2>4 DEF EditHolds
    <3>2. Takes(q) /\ q.pc # "move" =>
            \A s \in DOMAIN placed' : s \in q.since \/ Key[placed'[s]] # Key[About(q)]
      BY <1>3, <2>1, <2>2, <2>4 DEF EditHolds
    <3> QED
      BY <2>1, <2>2, <2>4, <3>1, <3>2 DEF EditHolds, q
  <2> QED
    BY <2>3, <2>4 DEF q
<1>10. ASSUME House \notin torn, NEW j \in Slots, NEW k \in Slots, j # k
       PROVE  req'[j].pc = "free" \/ req'[k].pc = "free"
  BY <1>6, <1>10 DEF ZonesInv, At
<1>11. DOMAIN req' = Slots
  BY <1>1
<1> QED
  BY <1>1, <1>5, <1>7, <1>8, <1>9, <1>10, <1>11 DEF ZonesInv, At

\* A step of another desk leaves the zones alone.
LEMMA NotAtZones ==
  ASSUME ZonesInv, ~AtZones, UNCHANGED zoneRows, counts'.desk = counts.desk PROVE ZonesInv'
BY DEF ZonesInv, Placing, AtZones, zoneRows

\* No step is of another desk than the one before.
LEMMA DeskStays ==
  ASSUME OfficeInv, Next PROVE counts'.desk = counts.desk
<1>1. Shape
  BY DEF OfficeInv
<1>2. (\E i, r : Begins(i, r)) => counts'.desk = counts.desk
  BY <1>1, BeginsStays DEF Stays
<1>3. Changes => counts'.desk = counts.desk
  BY <1>1, ChangesStays DEF Stays
<1>4. CASE ShiftsNext \/ ZonesNext \/ MenuNext
  BY <1>2, <1>3, <1>4, OtherDesks
<1>5. CASE RecipesNext
  <2>1. ASSUME NEW i \in Slots, RecipesArrive(i) PROVE \E r : Begins(i, r)
    BY <2>1 DEF RecipesArrive, RevisionArrives, SaleArrives, RetirementArrives, AsksRecipes
  <2>2. ASSUME NEW i \in Slots, RecipesStep(i) PROVE counts' = counts
    BY <2>2 DEF RecipesStep, Supersedes, InsertsRecipe, InsertsBom, Retires, ReadsLines
  <2> QED
    BY <1>2, <1>5, <2>1, <2>2 DEF RecipesNext
<1>6. ASSUME NEW i \in Slots, Dies(i) PROVE counts'.desk = counts.desk
  <2>1. counts' = [counts EXCEPT !.cut = Append(@, [op |-> req[i].op, key |-> req[i].key])]
    BY <1>6 DEF Dies
  <2> QED
    BY <1>1, <2>1 DEF Shape
<1> QED
  BY <1>4, <1>5, <1>6 DEF Next

\* ZonesInv is inductive.
LEMMA ZonesInvKeeps == ASSUME OfficeInv, ZonesInv, [Next]_vars PROVE ZonesInv'
<1>1. "desk" \in DOMAIN counts
  BY DEF OfficeInv, Shape
<1>2. CASE Next /\ ~AtZones
  <2>1. UNCHANGED zoneRows
    BY <1>2 DEF Next, ZonesNext, AtZones
  <2> QED
    BY <1>2, <2>1, DeskStays, NotAtZones
<1>3. CASE AtZones /\ ZonesNext
  <2>1. ASSUME NEW i \in Slots, ZonesArrive(i) PROVE ZonesInv'
    BY <1>1, <1>3, <2>1, ZonesArriveKeeps
  <2>2. ASSUME NEW i \in Slots, ZonesStep(i) PROVE ZonesInv'
    BY <1>3, <2>2, ReadsUsageKeeps, MovesTablesKeeps, ReadsRowKeeps, WritesListKeeps,
       InsertFailsKeeps DEF ZonesStep
  <2>3. ASSUME NEW t \in DOMAIN placed, NEW name \in Names, Places(t, name) PROVE ZonesInv'
    BY <1>1, <1>3, <2>3, PlacesKeeps
  <2> QED
    BY <1>3, <2>1, <2>2, <2>3 DEF ZonesNext
<1>4. CASE AtZones /\ ~ZonesNext /\ Next
  <2>1. \E i \in Slots : Dies(i) /\ UNCHANGED zoneRows
    BY <1>4 DEF Next, AtZones, ShiftsNext, RecipesNext, MenuNext
  <2> QED
    BY <1>1, <1>4, <2>1, DiesInZones
<1>5. CASE UNCHANGED vars
  <2>1. UNCHANGED <<zones, placed, edited, req, counts, torn>>
    BY <1>5 DEF vars, deskVars, zoneRows
  <2> QED
    BY <2>1 DEF ZonesInv, Placing, AtZones, Stored, At
<1> QED
  BY <1>2, <1>3, <1>4, <1>5

\* It holds at first.
LEMMA FirstZonesInv == ASSUME Init PROVE ZonesInv
<1>1. /\ req = [i \in Slots |-> FreeSlot] /\ zones = <<>> /\ placed \in FirstPlaces
      /\ edited = [k \in Range(Key) |-> "open"]
  BY DEF Init, DeskInit, ZonesInit, NoList
<1>2. Placing
  <2>1. zones \in Seq(Names)
    BY <1>1
  <2>2. IsFiniteSet(DOMAIN placed) /\ placed \in [DOMAIN placed -> Names]
    BY <1>1, ZonesAssumption
  <2> QED
    BY <1>1, <2>1, <2>2 DEF Placing
<1>3. \A i \in Slots : req[i] = FreeSlot
  BY <1>1
<1>4. AsLeft(Stored, placed, edited)
  BY <1>1 DEF AsLeft
<1> QED
  BY <1>1, <1>2, <1>3, <1>4, FreeEditFits DEF ZonesInv, At

\* The zones, and what the edits under way hold of them, stay as ZonesInv says.
THEOREM ZonesHold == Spec => []ZonesInv
<1>1. Init => ZonesInv
  BY FirstZonesInv
<1>2. OfficeInv /\ ZonesInv /\ [Next]_vars => ZonesInv'
  BY ZonesInvKeeps
<1> QED
  BY <1>1, <1>2, OfficeHolds, PTL DEF Spec

\* A zone that was added or renamed to is offered from then on, and one that was renamed
\* away or removed is not, unless two edits met.
THEOREM ZonesAreAsEdited == Spec => []ZonesAsEdited
<1>1. ASSUME ZonesInv PROVE ZonesAsEdited
  <2> SUFFICES ASSUME House \notin torn, NEW key \in DOMAIN edited
               PROVE  /\ edited[key] = "in" => Offers(Working(Stored), key)
                      /\ edited[key] = "out" => ~Offers(Working(Stored), key)
    BY DEF ZonesAsEdited
  <2>1. CASE ~AtZones
    BY <1>1, <2>1 DEF ZonesInv
  <2>2. CASE AtZones
    <3>1. AsLeft(Stored, placed, edited)
      BY <1>1, <2>2 DEF ZonesInv
    <3>2. Offers(Working(Stored), key)
            <=> Offers(Stored, key) \/ \E t \in DOMAIN placed : Key[placed[t]] = key
      BY <1>1, StoredIs, WorkingIs DEF ZonesInv
    <3> QED
      BY <3>1, <3>2 DEF AsLeft
  <2> QED
    BY <2>1, <2>2
<1> QED
  BY <1>1, ZonesHold, PTL

-----------------------------------------------------------------------------
(***************************************************************************)
(* The menu.  What is promised of its rows holds when all has come to      *)
(* rest; MenuInv says of each step of a write that met no other what it    *)
(* still has to do (Mirroring).  What is promised of ids is about what was *)
(* served; MenuInv says it of all that a list may yet be served as         *)
(* (Keeping).                                                              *)
(***************************************************************************)
AtMenu == counts.desk = "menu"

Full(list) == NoId \notin IdsOf(list)

\* What the rows of a single dish get.
Sets     == [cat : Range(Categories), off : BOOLEAN] \cup [cat : Range(Categories)]
              \cup [name : STRING] \cup [name : STRING, cat : Range(Categories)]
DishDone == [op : {"update"}, id : IdSet, set : Sets] \cup [op : {"delete"}, id : IdSet]

\* Rows have ids.
MirrorRows(rows) ==
  /\ rows \subseteq DishSet /\ IsFiniteSet(rows)
  /\ \A e \in rows : e.id # NoId

\* A request at a step of its handler.
InMenu(r) ==
  \/ r = FreeSlot
  \/ r.pc = "put" /\ r.op \in {"read", "add", "repair"} /\ r.todo = {}
  \/ r.pc \in {"put", "follow"} /\ r.op \in {"edit", "add"} /\ r.todo = All
  \/ r.pc \in {"put", "follow"} /\ r.op \in {"86", "put", "delete"} /\ \E f \in r.todo : f \in DishDone /\ r.todo = {f}
  \/ r.pc = "rebuild" /\ r.op \in {"read", "add"} /\ r.todo = {}
  \/ r.pc = "first" /\ r.op = "add" /\ r.todo = {} /\ Len(r.new) = 1 /\ Full(r.new)
  \/ r.pc = "edit" /\ r.op = "edit" /\ r.todo = {} /\ Full(r.new)
  \/ r.pc = "adopt" /\ r.op = "repair" /\ r.todo \subseteq {[op |-> "force"]}
  \/ r.pc = "rows" /\ r.op \in {"edit", "add"} /\ r.row \in 1 .. Len(r.new) + 1

MenuType ==
  /\ menu.there \in BOOLEAN /\ menu.list \in Seq(DishSet) /\ (~menu.there => menu.list = <<>>)
  /\ MirrorRows(mirror)
  /\ aligned \in BOOLEAN
  /\ IsFiniteSet(served) /\ served \subseteq [dish : Nat, id : IdSet]
  /\ AtMenu => /\ req = [i \in Slots |-> req[i]] /\ {"desk", "cut"} \subseteq DOMAIN counts
               /\ \A i \in Slots : /\ DOMAIN req[i] = DOMAIN FreeSlot /\ req[i].key = House
                                   /\ req[i].new \in Seq(DishSet) /\ InMenu(req[i])

-----------------------------------------------------------------------------
(* The rows.                                                               *)

\* A row, and the rows, once f is done.
AfterRow(f, e) == [e EXCEPT !.cat = IF "cat" \in DOMAIN f.set THEN f.set.cat ELSE Other,
                            !.name = IF "name" \in DOMAIN f.set THEN f.set.name ELSE @,
                            !.off = IF "off" \in DOMAIN f.set THEN f.set.off ELSE @]

AfterDish(f, rows) ==
  LET row == {e \in rows : e.id = f.id}
  IN (rows \ row) \cup IF f.op = "delete" THEN {} ELSE {AfterRow(f, e) : e \in row}

\* The dishes before the one at hand have their rows, and the rows are those, the ones
\* the list had before, and the ones to be deleted.
Written(r, rows) ==
  LET ids  == {e.id : e \in rows}
      done == {r.new[k].id : k \in 1 .. r.row - 1}
  IN /\ ids = r.todo \cup (r.found \cap IdsOf(r.new)) \cup done
     /\ r.todo \cap IdsOf(r.new) = {}
     /\ \A k \in 1 .. r.row - 1, e \in rows :
          r.new[k].id = e.id => r.new[k].name = e.name /\ (r.new[k].off => e.off)

\* The rows are those of the menu.
Resting(m, rows, a) == a /\ m.there => LinesUp(m.list, rows)

\* What a write that is alone still has to do.
Has(r, m, rows, a) ==
  /\ r.pc = "rebuild" => ~m.there
  /\ r.pc = "first" => ~m.there
  /\ r.pc = "edit" => m.there
  /\ r.pc = "adopt" => m.there /\ Resting(m, rows, a)
  /\ r.pc = "put" /\ r.todo = {} =>
       \/ r.op = "repair"
       \/ m.there /\ ~a
       \/ ~m.there /\ Range(r.new) = rows
  /\ r.pc = "put" /\ r.todo = All => m.there /\ (a => Full(r.new))
  /\ r.pc = "put" /\ r.todo \notin {{}, All} =>
       m.there /\ (a => \A f \in r.todo : LinesUp(r.new, AfterDish(f, rows)))
  /\ r.pc = "follow" /\ r.todo = All =>
       m.there /\ m.list = r.new /\ (a => Full(r.new) /\ ~Twins(r.new))
  /\ r.pc = "follow" /\ r.todo # All =>
       m.there /\ (a => \A f \in r.todo : LinesUp(m.list, AfterDish(f, rows)))
  /\ r.pc = "rows" =>
       /\ m.there /\ m.list = r.new /\ (a => Full(r.new) /\ ~Twins(r.new))
       /\ Full(r.new) /\ ~Twins(r.new) => Written(r, rows)

Mirroring ==
  IF ~AtMenu THEN Resting(menu, mirror, aligned)
  ELSE House \notin torn /\ counts.cut = <<>> =>
         /\ \A i, j \in Slots : i # j => At(i, "free") \/ At(j, "free")
         /\ \A i \in Slots : Has(req[i], menu, mirror, aligned)
         /\ Quiet => Resting(menu, mirror, aligned)

-----------------------------------------------------------------------------
(* The ids.                                                                *)

\* Ids were derived for whole menus.
Old(list) == NoId \in IdsOf(list) => IdsOf(list) \subseteq {NoId} \cup Randoms

\* What a list will be served as, and what a request's list will.
Bears(list) == Ids(EnsureMenuIds(list))

Standing(r) == ~(r.op = "repair" /\ r.pc = "put")

Rebuilding == ~menu.there \/ \E i \in Slots : req[i].pc \in {"first", "rebuild"}

\* What dishes are or will be known by: as they were served, as the menu and the lists of
\* requests will be, and while the menu is read from D1, as the rows are.
BorneBy(x, past, list, rs, rows, rebuilds) ==
  \/ x \in past \/ x \in Bears(list)
  \/ \E j \in Slots : Standing(rs[j]) /\ x \in Bears(rs[j].new)
  \/ rebuilds /\ \E e \in rows : x = [dish |-> e.tag, id |-> e.id]

Borne == {x \in [dish : Nat, id : IdSet] : BorneBy(x, served, menu.list, req, mirror, Rebuilding)}

Single(S) == \A x, y \in S : x.dish = y.dish => x.id = y.id

Keeping ==
  served # {} =>
    IF ~AtMenu THEN Single(served)
    ELSE /\ Single(Borne)
         /\ Old(menu.list) /\ \A i \in Slots : Standing(req[i]) => Old(req[i].new)
         /\ Rebuilding => Full(menu.list) /\ \A i \in Slots : Standing(req[i]) => Full(req[i].new)

MenuInv == MenuType /\ Mirroring /\ Keeping

-----------------------------------------------------------------------------
(* Lists, and their ids.                                                   *)

LEMMA ListIs ==
  ASSUME NEW S, NEW list \in Seq(S)
  PROVE  /\ Len(list) \in Nat /\ DOMAIN list = 1 .. Len(list) /\ IsFiniteSet(DOMAIN list)
         /\ \A k \in DOMAIN list : list[k] \in S
         /\ Range(list) = {list[k] : k \in DOMAIN list} /\ Range(list) \subseteq S
<1>1. Len(list) \in Nat /\ DOMAIN list = 1 .. Len(list)
  OBVIOUS
<1>2. IsFiniteSet(DOMAIN list)
  BY <1>1, FS_Interval
<1>3. \A k \in DOMAIN list : list[k] \in S
  OBVIOUS
<1>4. Range(list) = {list[k] : k \in DOMAIN list}
  BY DEF Range
<1> QED
  BY <1>1, <1>2, <1>3, <1>4

\* A list by its elements.
LEMMA ListOf ==
  ASSUME NEW S, NEW n \in Nat, NEW f, f = [k \in 1 .. n |-> f[k]], \A k \in 1 .. n : f[k] \in S
  PROVE  f \in Seq(S) /\ Len(f) = n /\ DOMAIN f = 1 .. n
OBVIOUS

LEMMA IdsAreFinite ==
  ASSUME NEW S, NEW list \in Seq(S)
  PROVE  IsFiniteSet(IdsOf(list)) /\ IsFiniteSet(Range(list))
<1> DEFINE f == [k \in DOMAIN list |-> list[k].id]
           g == [k \in DOMAIN list |-> list[k]]
<1>1. f \in Surjection(DOMAIN list, IdsOf(list))
  BY DEF Surjection, IdsOf
<1>2. g \in Surjection(DOMAIN list, Range(list))
  BY DEF Surjection, Range
<1> HIDE DEF f, g
<1>3. IsFiniteSet(DOMAIN list)
  BY ListIs
<1> QED
  BY <1>1, <1>2, <1>3, FS_Surjection

\* The ids told apart.
LEMMA IdsApart ==
  /\ \A n \in Nat : Random(n) # NoId /\ Random(n) \in Randoms
  /\ \A x \in Randoms : x # NoId
  /\ \A c, m \in STRING, k \in Nat : /\ <<c, m, k>> # NoId /\ <<c, m, k>> \notin Randoms
                                     /\ <<c, m, k>> \in IdSet
  /\ NoId \in IdSet /\ Randoms \subseteq IdSet
  /\ \A m, n : Random(m) = Random(n) => m = n
<1>1. ASSUME NEW n PROVE Random(n) # NoId /\ Random(n)[2] = n
  BY DEF Random, NoId
<1>2. \A n \in Nat : Random(n) \in Randoms
  BY DEF Random, Randoms
<1>3. ASSUME NEW x \in Randoms PROVE x # NoId /\ Len(x) = 2
  <2>1. PICK n \in Nat : x = <<"random", n>>
    BY DEF Randoms
  <2> QED
    BY <2>1 DEF NoId
<1>4. ASSUME NEW c \in STRING, NEW m \in STRING, NEW k \in Nat
      PROVE  <<c, m, k>> # NoId /\ <<c, m, k>> \notin Randoms /\ <<c, m, k>> \in IdSet
  <2>1. Len(<<c, m, k>>) = 3 /\ <<c, m, k>> # <<>>
    OBVIOUS
  <2>2. <<c, m, k>> \notin Randoms
    BY <1>3, <2>1
  <2>3. <<c, m, k>> \in STRING \X STRING \X Nat
    OBVIOUS
  <2> QED
    BY <2>1, <2>2, <2>3 DEF NoId, IdSet
<1>5. NoId \in IdSet /\ Randoms \subseteq IdSet
  BY DEF IdSet
<1> QED
  BY <1>1, <1>2, <1>3, <1>4, <1>5

\* The occurrence that is taken is the first that is free.
LEMMA DerivedIs ==
  ASSUME NEW used, IsFiniteSet(used), NEW d, d.cat \in STRING, d.name \in STRING
  PROVE  \E k \in Nat : /\ Derived(d, used) = <<d.cat, d.name, k>>
                        /\ <<d.cat, d.name, k>> \notin used
                        /\ \A j \in 0 .. k - 1 : <<d.cat, d.name, j>> \in used
<1> DEFINE free(k) == <<d.cat, d.name, k>> \notin used
           n == Cardinality(used)
           first(k) == free(k) /\ \A j \in 0 .. k - 1 : ~free(j)
<1>1. n \in Nat
  BY FS_CardinalityType
<1>2. \E k \in 0 .. n : free(k)
  <2> SUFFICES ASSUME \A k \in 0 .. n : ~free(k) PROVE FALSE
    OBVIOUS
  <2> DEFINE f == [k \in 0 .. n |-> <<d.cat, d.name, k>>]
  <2>1. f \in [0 .. n -> used]
    OBVIOUS
  <2>2. IsFiniteSet(0 .. n) /\ Cardinality(0 .. n) = n + 1
    BY <1>1, FS_Interval
  <2>3. \A x, y \in 0 .. n : f[x] = f[y] => x = y
    OBVIOUS
  <2> HIDE DEF f
  <2> QED
    BY <1>1, <2>1, <2>2, <2>3, FS_PigeonHole
<1>3. \E k \in 0 .. n : first(k)
  <2> SUFFICES ASSUME \A k \in 0 .. n : ~first(k) PROVE FALSE
    OBVIOUS
  <2> DEFINE T == {k \in Nat : k <= n => \A j \in 0 .. k : ~free(j)}
  <2>1. 0 \in T
    BY <1>1
  <2>2. ASSUME NEW k \in Nat, k \in T PROVE k + 1 \in T
    BY <1>1, <2>2
  <2> HIDE DEF T
  <2>3. Nat \subseteq T
    BY <2>1, <2>2, NatSetInduction
  <2>4. n \in T
    BY <1>1, <2>3
  <2> QED
    BY <1>1, <1>2, <2>4 DEF T
<1> DEFINE c == CHOOSE k \in 0 .. n : first(k)
<1>4. c \in 0 .. n /\ first(c)
  BY <1>3
<1>5. Derived(d, used) = <<d.cat, d.name, c>>
  BY DEF Derived
<1> HIDE DEF c
<1> QED
  BY <1>1, <1>4, <1>5

LEMMA EnsuredDish ==
  ASSUME NEW used, IsFiniteSet(used), NEW d \in DishSet
  PROVE  /\ Ensured(d, used) \in DishSet /\ Ensured(d, used).id # NoId
         /\ Ensured(d, used).tag = d.tag /\ Ensured(d, used).cat = d.cat
         /\ Ensured(d, used).name = d.name /\ Ensured(d, used).off = d.off
         /\ d.id # NoId => Ensured(d, used) = d
<1>1. d.cat \in STRING /\ d.name \in STRING
  <2>1. Categories \in Seq(STRING)
    BY MenuAssumption
  <2> QED
    BY <2>1, ListIs DEF DishSet
<1>2. Derived(d, used) \in IdSet \ {NoId}
  <2>1. \E k \in Nat : /\ Derived(d, used) = <<d.cat, d.name, k>>
                        /\ <<d.cat, d.name, k>> \notin used
                        /\ \A j \in 0 .. k - 1 : <<d.cat, d.name, j>> \in used
    BY <1>1, DerivedIs, Zenon
  <2>2. PICK k \in Nat : Derived(d, used) = <<d.cat, d.name, k>>
    BY <2>1
  <2> QED
    BY <1>1, <2>2, IdsApart
<1> QED
  BY <1>2 DEF Ensured, DishSet

-----------------------------------------------------------------------------
(* ensureMenuIds, which goes through a list: what it makes of the first n dishes. *)

GivenBody(list, g, n) ==
  IF n = 0 THEN <<>> ELSE Append(g[n - 1], Ensured(list[n], IdsOf(g[n - 1])))

Given(list) == CHOOSE g : g = [n \in 0 .. Len(list) |-> GivenBody(list, g, n)]

LEMMA EnsureIsGiven == ASSUME NEW list PROVE EnsureMenuIds(list) = Given(list)[Len(list)]
BY DEF EnsureMenuIds, Given, GivenBody

LEMMA GivenIs ==
  ASSUME NEW list \in Seq(DishSet)
  PROVE  Given(list) = [n \in 0 .. Len(list) |-> GivenBody(list, Given(list), n)]
<1> DEFINE N == {n \in Nat : \E g : g = [k \in 0 .. n |-> GivenBody(list, g, k)]}
<1>1. 0 \in N
  <2> DEFINE g == [k \in 0 .. 0 |-> <<>>]
  <2>1. g = [k \in 0 .. 0 |-> GivenBody(list, g, k)]
    BY DEF GivenBody
  <2> QED
    BY <2>1
<1>2. ASSUME NEW n \in Nat, n \in N PROVE n + 1 \in N
  <2>1. PICK g : g = [k \in 0 .. n |-> GivenBody(list, g, k)]
    BY <1>2
  <2> DEFINE h == [k \in 0 .. n + 1 |-> GivenBody(list, g, k)]
  <2>2. \A k \in 0 .. n : h[k] = g[k]
    BY <2>1
  <2> HIDE DEF h
  <2>3. ASSUME NEW k \in 0 .. n + 1 PROVE GivenBody(list, g, k) = GivenBody(list, h, k)
    <3>1. k # 0 => k - 1 \in 0 .. n
      OBVIOUS
    <3> QED
      BY <2>2, <3>1 DEF GivenBody
  <2>4. h = [k \in 0 .. n + 1 |-> GivenBody(list, h, k)]
    BY <2>3 DEF h
  <2> QED
    BY <2>4
<1> HIDE DEF N
<1>3. Len(list) \in N
  BY <1>1, <1>2, NatSetInduction
<1> QED
  BY <1>3 DEF N, Given

\* Every dish is given an id by those before it.
LEMMA EnsureIs ==
  ASSUME NEW list \in Seq(DishSet)
  PROVE  /\ EnsureMenuIds(list) \in Seq(DishSet) /\ Len(EnsureMenuIds(list)) = Len(list)
         /\ \A k \in 1 .. Len(list) :
              EnsureMenuIds(list)[k] =
                Ensured(list[k], {EnsureMenuIds(list)[j].id : j \in 1 .. k - 1})
<1> DEFINE g == Given(list)
           e == EnsureMenuIds(list)
           P(n) == /\ g[n] \in Seq(DishSet) /\ Len(g[n]) = n
                   /\ \A m \in 0 .. n : \A k \in 1 .. m : g[n][k] = g[m][k]
           N == {n \in Nat : n <= Len(list) => P(n)}
<1>0. Len(list) \in Nat
  OBVIOUS
<1>1. /\ g[0] = <<>>
      /\ \A n \in 1 .. Len(list) : g[n] = Append(g[n - 1], Ensured(list[n], IdsOf(g[n - 1])))
  BY <1>0, GivenIs DEF GivenBody
<1> HIDE DEF g
<1>2. 0 \in N
  <2>1. \A m \in 0 .. 0 : 1 .. m = {}
    OBVIOUS
  <2>2. g[0] \in Seq(DishSet) /\ Len(g[0]) = 0
    BY <1>1
  <2> QED
    BY <2>1, <2>2
<1>3. ASSUME NEW n \in Nat, n \in N PROVE n + 1 \in N
  <2> SUFFICES ASSUME n + 1 <= Len(list) PROVE P(n + 1)
    OBVIOUS
  <2> DEFINE x == Ensured(list[n + 1], IdsOf(g[n]))
  <2>1. g[n] \in Seq(DishSet) /\ Len(g[n]) = n /\ g[n + 1] = Append(g[n], x)
    BY <1>0, <1>1, <1>3
  <2>2. x \in DishSet
    <3>1. list[n + 1] \in DishSet /\ IsFiniteSet(IdsOf(g[n]))
      BY <1>0, <2>1, IdsAreFinite
    <3> QED
      BY <3>1, EnsuredDish
  <2> HIDE DEF x
  <2>3. /\ g[n + 1] \in Seq(DishSet) /\ Len(g[n + 1]) = n + 1
        /\ \A k \in 1 .. n : g[n + 1][k] = g[n][k]
    BY <2>1, <2>2
  <2>4. ASSUME NEW m \in 0 .. n + 1, NEW k \in 1 .. m PROVE g[n + 1][k] = g[m][k]
    <3>1. CASE m = n + 1
      BY <3>1
    <3>2. CASE m \in 0 .. n
      BY <1>0, <1>3, <2>3, <3>2
    <3> QED
      BY <3>1, <3>2
  <2> QED
    BY <2>3, <2>4
<1> HIDE DEF N
<1>4. Nat \subseteq N
  BY <1>2, <1>3, NatSetInduction
<1>5. \A n \in 0 .. Len(list) : P(n)
  BY <1>0, <1>4 DEF N
<1>6. e = g[Len(list)]
  BY EnsureIsGiven DEF g
<1>7. e \in Seq(DishSet) /\ Len(e) = Len(list)
  BY <1>0, <1>5, <1>6
<1>8. ASSUME NEW k \in 1 .. Len(list) PROVE e[k] = Ensured(list[k], {e[j].id : j \in 1 .. k - 1})
  <2>1. g[k] = Append(g[k - 1], Ensured(list[k], IdsOf(g[k - 1]))) /\ e[k] = g[k][k]
    <3>1. Len(list) \in 0 .. Len(list) /\ k \in 0 .. Len(list) /\ k \in 1 .. k
      BY <1>0
    <3>2. \A m \in 0 .. Len(list) : \A j \in 1 .. m : g[Len(list)][j] = g[m][j]
      BY <1>5, <3>1
    <3>3. g[Len(list)][k] = g[k][k]
      BY <3>1, <3>2
    <3> QED
      BY <1>1, <1>6, <3>3
  <2>2. g[k - 1] \in Seq(DishSet) /\ Len(g[k - 1]) = k - 1
    BY <1>0, <1>5
  <2>3. e[k] = Ensured(list[k], IdsOf(g[k - 1]))
    BY <2>1, <2>2
  <2>4. \A j \in 1 .. k - 1 : e[j] = g[k - 1][j]
    BY <1>0, <1>5, <1>6
  <2>5. IdsOf(g[k - 1]) = {e[j].id : j \in 1 .. k - 1}
    <3>1. DOMAIN g[k - 1] = 1 .. k - 1
      BY <2>2
    <3> QED
      BY <2>4, <3>1 DEF IdsOf
  <2> QED
    BY <2>3, <2>5
<1> HIDE DEF e
<1> QED
  BY <1>7, <1>8 DEF e

\* Every dish has an id then, and is otherwise as it was; one that had an id keeps it.
LEMMA EnsureKeeps ==
  ASSUME NEW list \in Seq(DishSet)
  PROVE  /\ EnsureMenuIds(list) \in Seq(DishSet) /\ Full(EnsureMenuIds(list))
         /\ DOMAIN EnsureMenuIds(list) = DOMAIN list
         /\ \A k \in DOMAIN list :
              /\ EnsureMenuIds(list)[k].tag = list[k].tag /\ EnsureMenuIds(list)[k].name = list[k].name
              /\ EnsureMenuIds(list)[k].cat = list[k].cat /\ EnsureMenuIds(list)[k].off = list[k].off
              /\ list[k].id # NoId => EnsureMenuIds(list)[k] = list[k]
         /\ Full(list) => EnsureMenuIds(list) = list
<1> DEFINE e == EnsureMenuIds(list)
           used(k) == {e[j].id : j \in 1 .. k - 1}
<1>1. /\ e \in Seq(DishSet) /\ Len(e) = Len(list)
      /\ \A k \in 1 .. Len(list) : e[k] = Ensured(list[k], used(k))
  BY EnsureIs
<1> HIDE DEF e
<1>2. DOMAIN e = 1 .. Len(list) /\ DOMAIN list = 1 .. Len(list) /\ Len(list) \in Nat
  BY <1>1
<1>3. ASSUME NEW k \in 1 .. Len(list) PROVE IsFiniteSet(used(k))
  <2> DEFINE f == [j \in 1 .. k - 1 |-> e[j].id]
  <2>1. f \in Surjection(1 .. k - 1, used(k))
    BY DEF Surjection
  <2>2. IsFiniteSet(1 .. k - 1)
    BY <1>2, FS_Interval
  <2> HIDE DEF f
  <2> QED
    BY <2>1, <2>2, FS_Surjection
<1> HIDE DEF used
<1>4. \A k \in 1 .. Len(list) :
        /\ e[k].tag = list[k].tag /\ e[k].name = list[k].name /\ e[k].id # NoId
        /\ e[k].cat = list[k].cat /\ e[k].off = list[k].off
        /\ list[k].id # NoId => e[k] = list[k]
  <2> SUFFICES ASSUME NEW k \in 1 .. Len(list)
               PROVE  /\ e[k].tag = list[k].tag /\ e[k].name = list[k].name /\ e[k].id # NoId
                      /\ e[k].cat = list[k].cat /\ e[k].off = list[k].off
                      /\ list[k].id # NoId => e[k] = list[k]
    OBVIOUS
  <2>1. list[k] \in DishSet
    BY <1>2
  <2> QED
    BY <1>1, <1>3, <2>1, EnsuredDish
<1>5. Full(e)
  BY <1>2, <1>4 DEF Full, IdsOf
<1>6. ASSUME Full(list) PROVE e = list
  <2>1. \A k \in 1 .. Len(list) : e[k] = list[k]
    BY <1>2, <1>4, <1>6 DEF Full, IdsOf
  <2> QED
    BY <1>1, <1>2, <2>1
<1> QED
  BY <1>1, <1>2, <1>4, <1>5, <1>6 DEF e

-----------------------------------------------------------------------------
(* backfillMenuIdsFromD1, likewise.                                        *)

LEMMA AdoptedDish ==
  ASSUME MirrorRows(mirror), NEW used, IsFiniteSet(used), NEW d \in DishSet
  PROVE  Adopted(d, used) \in DishSet
<1> DEFINE found == {e.id : e \in {r \in mirror : r.cat = d.cat /\ r.name = d.name}} \ used
<1>1. d.cat \in STRING /\ d.name \in STRING
  <2>1. Categories \in Seq(STRING)
    BY MenuAssumption
  <2> QED
    BY <2>1, ListIs DEF DishSet
<1>2. Derived(d, used) \in IdSet
  <2>1. \E k \in Nat : /\ Derived(d, used) = <<d.cat, d.name, k>>
                        /\ <<d.cat, d.name, k>> \notin used
                        /\ \A j \in 0 .. k - 1 : <<d.cat, d.name, j>> \in used
    BY <1>1, DerivedIs, Zenon
  <2>2. PICK k \in Nat : Derived(d, used) = <<d.cat, d.name, k>>
    BY <2>1
  <2> QED
    BY <1>1, <2>2, IdsApart
<1>3. found \subseteq IdSet
  BY DEF MirrorRows, DishSet
<1>4. found # {} => (CHOOSE x \in found : TRUE) \in IdSet
  BY <1>3
<1>5. \A x \in IdSet : [d EXCEPT !.id = x] \in DishSet
  BY DEF DishSet
<1> HIDE DEF found
<1>6. Adopted(d, used) \in {d, [d EXCEPT !.id = Derived(d, used)]}
        \/ (found # {} /\ Adopted(d, used) = [d EXCEPT !.id = CHOOSE x \in found : TRUE])
  BY DEF Adopted, found
<1> QED
  BY <1>2, <1>4, <1>5, <1>6

FilledDish(kept, d, used) == IF d.id \in kept THEN d ELSE Adopted(d, kept \cup used)

FilledBody(list, kept, g, n) ==
  IF n = 0 THEN <<>> ELSE Append(g[n - 1], FilledDish(kept, list[n], IdsOf(g[n - 1])))

Filled(list, kept) == CHOOSE g : g = [n \in 0 .. Len(list) |-> FilledBody(list, kept, g, n)]

KeptIds(list, force) == IF force THEN {} ELSE IdsOf(list) \ {NoId}

LEMMA BackfilledIsFilled ==
  ASSUME NEW list, NEW force
  PROVE  Backfilled(list, force) = Filled(list, KeptIds(list, force))[Len(list)]
BY DEF Backfilled, Filled, FilledBody, FilledDish, KeptIds

LEMMA FilledIs ==
  ASSUME NEW list \in Seq(DishSet), NEW kept
  PROVE  Filled(list, kept) = [n \in 0 .. Len(list) |-> FilledBody(list, kept, Filled(list, kept), n)]
<1> DEFINE N == {n \in Nat : \E g : g = [k \in 0 .. n |-> FilledBody(list, kept, g, k)]}
<1>1. 0 \in N
  <2> DEFINE g == [k \in 0 .. 0 |-> <<>>]
  <2>1. g = [k \in 0 .. 0 |-> FilledBody(list, kept, g, k)]
    BY DEF FilledBody
  <2> QED
    BY <2>1
<1>2. ASSUME NEW n \in Nat, n \in N PROVE n + 1 \in N
  <2>1. PICK g : g = [k \in 0 .. n |-> FilledBody(list, kept, g, k)]
    BY <1>2
  <2> DEFINE h == [k \in 0 .. n + 1 |-> FilledBody(list, kept, g, k)]
  <2>2. \A k \in 0 .. n : h[k] = g[k]
    BY <2>1
  <2> HIDE DEF h
  <2>3. ASSUME NEW k \in 0 .. n + 1 PROVE FilledBody(list, kept, g, k) = FilledBody(list, kept, h, k)
    <3>1. k # 0 => k - 1 \in 0 .. n
      OBVIOUS
    <3> QED
      BY <2>2, <3>1 DEF FilledBody
  <2>4. h = [k \in 0 .. n + 1 |-> FilledBody(list, kept, h, k)]
    BY <2>3 DEF h
  <2> QED
    BY <2>4
<1> HIDE DEF N
<1>3. Len(list) \in N
  BY <1>1, <1>2, NatSetInduction
<1> QED
  BY <1>3 DEF N, Filled

LEMMA BackfilledIs ==
  ASSUME NEW list \in Seq(DishSet), MirrorRows(mirror), NEW force
  PROVE  Backfilled(list, force) \in Seq(DishSet)
<1> DEFINE kept == KeptIds(list, force)
           g    == Filled(list, kept)
           N    == {n \in Nat : n <= Len(list) => g[n] \in Seq(DishSet)}
<1>0. Len(list) \in Nat
  OBVIOUS
<1>1. /\ g[0] = <<>>
      /\ \A n \in 1 .. Len(list) :
           g[n] = Append(g[n - 1], FilledDish(kept, list[n], IdsOf(g[n - 1])))
  BY <1>0, FilledIs DEF FilledBody
<1>2. IsFiniteSet(kept)
  <2>1. kept \in SUBSET IdsOf(list)
    BY DEF KeptIds
  <2> QED
    BY <2>1, IdsAreFinite, FS_Subset
<1>3. Backfilled(list, force) = g[Len(list)]
  BY BackfilledIsFilled
<1> HIDE DEF g, kept
<1>4. 0 \in N
  <2>1. <<>> \in Seq(DishSet)
    OBVIOUS
  <2> QED
    BY <1>1, <2>1
<1>5. ASSUME NEW n \in Nat, n \in N PROVE n + 1 \in N
  <2> SUFFICES ASSUME n + 1 <= Len(list) PROVE g[n + 1] \in Seq(DishSet)
    OBVIOUS
  <2>1. g[n] \in Seq(DishSet) /\ g[n + 1] = Append(g[n], FilledDish(kept, list[n + 1], IdsOf(g[n])))
    BY <1>0, <1>1, <1>5
  <2>2. IsFiniteSet(kept \cup IdsOf(g[n])) /\ list[n + 1] \in DishSet
    <3>1. IsFiniteSet(IdsOf(g[n]))
      BY <2>1, IdsAreFinite
    <3>2. IsFiniteSet(kept \cup IdsOf(g[n]))
      BY <1>2, <3>1, FS_Union
    <3>3. n + 1 \in 1 .. Len(list)
      BY <1>0
    <3> QED
      BY <3>2, <3>3
  <2>3. FilledDish(kept, list[n + 1], IdsOf(g[n])) \in DishSet
    BY <2>2, AdoptedDish DEF FilledDish
  <2> QED
    BY <2>1, <2>3
<1> HIDE DEF N
<1>6. Nat \subseteq N
  BY <1>4, <1>5, NatSetInduction
<1> QED
  BY <1>0, <1>3, <1>6 DEF N

-----------------------------------------------------------------------------
(* Lists in the order of the categories.                                   *)

\* Each dish comes from somewhere, and those of one category in their order.
Sorts(list, s, at) ==
  /\ s = [n \in DOMAIN list |-> list[at[n]]]
  /\ at \in [DOMAIN list -> DOMAIN list]
  /\ \A k \in DOMAIN list : \E n \in DOMAIN list : at[n] = k
  /\ \A m, n \in DOMAIN list : at[m] = at[n] => m = n
  /\ \A m, n \in DOMAIN list : list[at[m]].cat = list[at[n]].cat => (m < n <=> at[m] < at[n])

LEMMA InOrderIs ==
  ASSUME NEW list \in Seq(DishSet)
  PROVE  \E at : Sorts(list, InOrder(list), at)
<1> DEFINE N == Len(list)
           place(k)   == CHOOSE c \in DOMAIN Categories : Categories[c] = list[k].cat
           upTo(j, k) == place(j) < place(k) \/ (place(j) = place(k) /\ j <= k)
           rank(k)    == Cardinality({j \in DOMAIN list : upTo(j, k)})
           w  == [k \in 1 .. N |-> place(k)]
           at == [m \in 1 .. N |-> CHOOSE k \in DOMAIN list : rank(k) = m]
<1>1. N \in Nat /\ DOMAIN list = 1 .. N
  OBVIOUS
<1>2. ASSUME NEW k \in 1 .. N PROVE place(k) \in Nat /\ Categories[place(k)] = list[k].cat
  <2>0. list[k] \in DishSet
    BY <1>1
  <2>1. list[k].cat \in Range(Categories)
    BY <2>0 DEF DishSet
  <2>2. Categories \in Seq(STRING)
    BY MenuAssumption
  <2>3. DOMAIN Categories = 1 .. Len(Categories) /\ Len(Categories) \in Nat
    BY <2>2
  <2>4. \E c \in DOMAIN Categories : Categories[c] = list[k].cat
    BY <2>1 DEF Range
  <2>5. place(k) \in DOMAIN Categories /\ Categories[place(k)] = list[k].cat
    BY <2>4
  <2> QED
    BY <2>3, <2>5
<1>3. \A j, k \in 1 .. N : list[j].cat = list[k].cat => place(j) = place(k)
  OBVIOUS
<1> HIDE DEF place
<1>4. w \in [1 .. N -> Nat] /\ \A k \in 1 .. N : w[k] = place(k)
  BY <1>2
<1>5. \A k \in 1 .. N : rank(k) = Cardinality({j \in 1 .. N : w[j] < w[k] \/ (w[j] = w[k] /\ j <= k)})
  <2> SUFFICES ASSUME NEW k \in 1 .. N
               PROVE  {j \in DOMAIN list : upTo(j, k)}
                        = {j \in 1 .. N : w[j] < w[k] \/ (w[j] = w[k] /\ j <= k)}
    OBVIOUS
  <2> QED
    BY <1>1, <1>4
<1> HIDE DEF w, rank
<1>6. /\ \A k \in 1 .. N : rank(k) \in 1 .. N
      /\ \A m \in 1 .. N : \E k \in 1 .. N : rank(k) = m
      /\ \A j, k \in 1 .. N : rank(j) = rank(k) => j = k
      /\ \A j, k \in 1 .. N : w[j] = w[k] => (j < k <=> rank(j) < rank(k))
  <2> DEFINE rk(k) == Cardinality({j \in 1 .. N : w[j] < w[k] \/ (w[j] = w[k] /\ j <= k)})
  <2>1. /\ \A k \in 1 .. N : rk(k) \in 1 .. N
        /\ \A m \in 1 .. N : \E k \in 1 .. N : rk(k) = m
        /\ \A j, k \in 1 .. N : rk(j) = rk(k) => j = k
        /\ \A j, k \in 1 .. N : w[j] = w[k] => (j < k <=> rk(j) < rk(k))
    BY <1>1, <1>4, PlacesRanked
  <2>2. \A k \in 1 .. N : rank(k) = rk(k)
    BY <1>5
  <2> HIDE DEF rk
  <2>3. \A k \in 1 .. N : rank(k) \in 1 .. N
    BY <2>1, <2>2
  <2>4. \A m \in 1 .. N : \E k \in 1 .. N : rank(k) = m
    BY <2>1, <2>2
  <2>5. \A j, k \in 1 .. N : rank(j) = rank(k) => j = k
    BY <2>1, <2>2
  <2>6. ASSUME NEW j \in 1 .. N, NEW k \in 1 .. N, w[j] = w[k] PROVE j < k <=> rank(j) < rank(k)
    <3>1. j < k <=> rk(j) < rk(k)
      BY <2>1, <2>6, Zenon
    <3>2. rank(j) = rk(j) /\ rank(k) = rk(k)
      BY <2>2
    <3> QED
      BY <3>1, <3>2, Zenon
  <2> QED
    BY <2>3, <2>4, <2>5, <2>6
<1>7. \A m \in 1 .. N : at[m] \in 1 .. N /\ rank(at[m]) = m
  BY <1>1, <1>6
<1>8. InOrder(list) = [m \in DOMAIN list |-> list[at[m]]]
  BY <1>1 DEF InOrder, rank, place
<1> HIDE DEF at
<1>9. at \in [DOMAIN list -> DOMAIN list]
  BY <1>1, <1>7 DEF at
<1>10. ASSUME NEW k \in DOMAIN list PROVE \E m \in DOMAIN list : at[m] = k
  <2>1. rank(k) \in 1 .. N /\ at[rank(k)] = k
    BY <1>1, <1>6, <1>7
  <2> QED
    BY <1>1, <2>1
<1>11. \A l, m \in DOMAIN list : at[l] = at[m] => l = m
  BY <1>1, <1>7
<1>12. ASSUME NEW l \in DOMAIN list, NEW m \in DOMAIN list, list[at[l]].cat = list[at[m]].cat
       PROVE  l < m <=> at[l] < at[m]
  <2>1. at[l] \in 1 .. N /\ at[m] \in 1 .. N /\ rank(at[l]) = l /\ rank(at[m]) = m
    BY <1>1, <1>7
  <2>2. w[at[l]] = w[at[m]]
    BY <1>3, <1>4, <1>12, <2>1
  <2>3. at[l] < at[m] <=> rank(at[l]) < rank(at[m])
    BY <1>6, <2>1, <2>2
  <2> QED
    BY <2>1, <2>3
<1>13. Sorts(list, InOrder(list), at)
  BY <1>8, <1>9, <1>10, <1>11, <1>12 DEF Sorts
<1> QED
  BY <1>13
\* The order changes nothing else.
LEMMA SortedIs ==
  ASSUME NEW list \in Seq(DishSet)
  PROVE  /\ InOrder(list) \in Seq(DishSet) /\ DOMAIN InOrder(list) = DOMAIN list
         /\ Range(InOrder(list)) = Range(list) /\ IdsOf(InOrder(list)) = IdsOf(list)
         /\ Twins(InOrder(list)) <=> Twins(list)
<1>1. PICK at : Sorts(list, InOrder(list), at)
  BY InOrderIs
<1> DEFINE s == InOrder(list)
<1> HIDE DEF s
<1>2. /\ s = [n \in DOMAIN list |-> list[at[n]]]
      /\ at \in [DOMAIN list -> DOMAIN list]
      /\ \A k \in DOMAIN list : \E n \in DOMAIN list : at[n] = k
      /\ \A m, n \in DOMAIN list : at[m] = at[n] => m = n
  BY <1>1 DEF Sorts, s
<1>3. DOMAIN list = 1 .. Len(list) /\ Len(list) \in Nat /\ \A k \in DOMAIN list : list[k] \in DishSet
  BY ListIs
<1>4. s \in Seq(DishSet) /\ DOMAIN s = DOMAIN list
  BY <1>2, <1>3, ListOf
<1>5. Range(s) = Range(list)
  <2>1. \A k \in DOMAIN list : \E n \in DOMAIN s : s[n] = list[k]
    BY <1>2
  <2>2. \A n \in DOMAIN s : \E k \in DOMAIN list : s[n] = list[k]
    BY <1>2
  <2> QED
    BY <2>1, <2>2 DEF Range
<1>6. IdsOf(s) = IdsOf(list)
  <2>1. \A k \in DOMAIN list : \E n \in DOMAIN s : s[n].id = list[k].id
    BY <1>2
  <2>2. \A n \in DOMAIN s : \E k \in DOMAIN list : s[n].id = list[k].id
    BY <1>2
  <2> QED
    BY <2>1, <2>2 DEF IdsOf
<1>7. Twins(s) => Twins(list)
  BY <1>2 DEF Twins
<1>8. ASSUME Twins(list) PROVE Twins(s)
  <2>1. PICK j, k \in DOMAIN list : j # k /\ list[j].id = list[k].id /\ list[j].id # NoId
    BY <1>8 DEF Twins
  <2>2. PICK m, n \in DOMAIN list : at[m] = j /\ at[n] = k
    BY <1>2, <2>1
  <2>3. m # n /\ s[m].id = s[n].id /\ s[m].id # NoId
    BY <1>2, <2>1, <2>2
  <2> QED
    BY <1>4, <2>3 DEF Twins
<1> QED
  BY <1>4, <1>5, <1>6, <1>7, <1>8 DEF s

\* A list without its k-th element.
LEMMA RemovedIs ==
  ASSUME NEW S, NEW list \in Seq(S), NEW k \in DOMAIN list
  PROVE  /\ RemoveAt(list, k) \in Seq(S)
         /\ DOMAIN RemoveAt(list, k) = 1 .. Len(list) - 1
         /\ Len(RemoveAt(list, k)) = Len(list) - 1
         /\ \A n \in 1 .. Len(list) - 1 : RemoveAt(list, k)[n] = list[IF n < k THEN n ELSE n + 1]
<1> DEFINE a == SubSeq(list, 1, k - 1)
           b == SubSeq(list, k + 1, Len(list))
<1>1. Len(list) \in Nat /\ k \in 1 .. Len(list)
  OBVIOUS
<1>2. a \in Seq(S) /\ Len(a) = k - 1 /\ \A n \in 1 .. k - 1 : a[n] = list[n]
  BY <1>1
<1>3. b \in Seq(S) /\ Len(b) = Len(list) - k /\ \A n \in 1 .. Len(list) - k : b[n] = list[k + n]
  BY <1>1
<1>4. RemoveAt(list, k) = a \o b
  BY DEF RemoveAt
<1> HIDE DEF a, b
<1>5. /\ a \o b \in Seq(S) /\ Len(a \o b) = Len(list) - 1
      /\ \A n \in 1 .. Len(list) - 1 : (a \o b)[n] = IF n < k THEN a[n] ELSE b[n - (k - 1)]
  BY <1>1, <1>2, <1>3
<1>6. ASSUME NEW n \in 1 .. Len(list) - 1 PROVE (a \o b)[n] = list[IF n < k THEN n ELSE n + 1]
  <2>1. CASE n < k
    BY <1>1, <1>2, <1>5, <2>1
  <2>2. CASE ~(n < k)
    <3>1. n - (k - 1) \in 1 .. Len(list) - k /\ k + (n - (k - 1)) = n + 1
      BY <1>1, <2>2
    <3>2. b[n - (k - 1)] = list[n + 1]
      BY <1>3, <3>1
    <3> QED
      BY <1>5, <2>2, <3>2
  <2> QED
    BY <2>1, <2>2
<1> QED
  BY <1>1, <1>4, <1>5, <1>6

LEMMA DishRemoved ==
  ASSUME NEW list \in Seq(DishSet), NEW k \in DOMAIN list
  PROVE  /\ RemoveAt(list, k) \in Seq(DishSet)
         /\ Range(RemoveAt(list, k)) = {list[n] : n \in DOMAIN list \ {k}}
         /\ IdsOf(RemoveAt(list, k)) = {list[n].id : n \in DOMAIN list \ {k}}
         /\ Twins(RemoveAt(list, k)) => Twins(list)
<1> DEFINE r == RemoveAt(list, k)
           from(n) == IF n < k THEN n ELSE n + 1
<1>1. /\ r \in Seq(DishSet) /\ DOMAIN r = 1 .. Len(list) - 1
      /\ \A n \in DOMAIN r : r[n] = list[from(n)]
  BY RemovedIs
<1>2. Len(list) \in Nat /\ DOMAIN list = 1 .. Len(list) /\ k \in 1 .. Len(list)
  OBVIOUS
<1> HIDE DEF r
<1>3. \A n \in DOMAIN r : from(n) \in DOMAIN list \ {k}
  BY <1>1, <1>2
<1>4. \A m \in DOMAIN list \ {k} : \E n \in DOMAIN r : from(n) = m
  <2> SUFFICES ASSUME NEW m \in DOMAIN list, m # k PROVE \E n \in DOMAIN r : from(n) = m
    OBVIOUS
  <2>1. CASE m < k
    BY <1>1, <1>2, <2>1
  <2>2. CASE m > k
    <3>1. m - 1 \in DOMAIN r /\ from(m - 1) = m
      BY <1>1, <1>2, <2>2
    <3> QED
      BY <3>1
  <2> QED
    BY <1>2, <2>1, <2>2
<1>5. \A m, n \in DOMAIN r : from(m) = from(n) => m = n
  BY <1>1, <1>2
<1> HIDE DEF from
<1>6. Range(r) = {list[n] : n \in DOMAIN list \ {k}}
  BY <1>1, <1>3, <1>4 DEF Range
<1>7. IdsOf(r) = {list[n].id : n \in DOMAIN list \ {k}}
  BY <1>1, <1>3, <1>4 DEF IdsOf
<1>8. Twins(r) => Twins(list)
  <2> SUFFICES ASSUME NEW m \in DOMAIN r, NEW n \in DOMAIN r, m # n, r[m].id = r[n].id, r[m].id # NoId
               PROVE  Twins(list)
    BY DEF Twins
  <2>1. from(m) \in DOMAIN list /\ from(n) \in DOMAIN list /\ from(m) # from(n)
    BY <1>3, <1>5
  <2> QED
    BY <1>1, <2>1 DEF Twins
<1> QED
  BY <1>1, <1>6, <1>7, <1>8 DEF r

LEMMA DishAppended ==
  ASSUME NEW list \in Seq(DishSet), NEW d \in DishSet
  PROVE  /\ Append(list, d) \in Seq(DishSet)
         /\ DOMAIN Append(list, d) = DOMAIN list \cup {Len(list) + 1}
         /\ Range(Append(list, d)) = Range(list) \cup {d}
         /\ IdsOf(Append(list, d)) = IdsOf(list) \cup {d.id}
         /\ Twins(Append(list, d)) => Twins(list) \/ d.id \in IdsOf(list)
<1> DEFINE a == Append(list, d)
           n == Len(list)
<1>1. n \in Nat /\ DOMAIN list = 1 .. n /\ n + 1 \notin 1 .. n
  OBVIOUS
<1>2. /\ a \in Seq(DishSet) /\ Len(a) = n + 1
      /\ \A k \in 1 .. n : a[k] = list[k]
      /\ a[n + 1] = d
  OBVIOUS
<1> HIDE DEF a
<1>3. DOMAIN a = DOMAIN list \cup {n + 1}
  <2>1. DOMAIN a = 1 .. n + 1
    BY <1>2
  <2> QED
    BY <1>1, <2>1
<1>4. Range(a) = Range(list) \cup {d}
  BY <1>1, <1>2, <1>3 DEF Range
<1>5. IdsOf(a) = IdsOf(list) \cup {d.id}
  BY <1>1, <1>2, <1>3 DEF IdsOf
<1>6. Twins(a) => Twins(list) \/ d.id \in IdsOf(list)
  BY <1>1, <1>2, <1>3 DEF Twins, IdsOf
<1> QED
  BY <1>2, <1>3, <1>4, <1>5, <1>6 DEF a
\* A dish in its place is another.
LEMMA DishReplaced ==
  ASSUME NEW list \in Seq(DishSet), NEW k \in DOMAIN list, NEW d \in DishSet
  PROVE  /\ [list EXCEPT ![k] = d] \in Seq(DishSet) /\ DOMAIN [list EXCEPT ![k] = d] = DOMAIN list
         /\ \A n \in DOMAIN list : [list EXCEPT ![k] = d][n] = IF n = k THEN d ELSE list[n]
OBVIOUS

\* d1GetMenuCategorized.
LEMMA RebuiltIs ==
  ASSUME MirrorRows(mirror)
  PROVE  LET list == InOrder(SetToSeq(mirror))
         IN list \in Seq(DishSet) /\ Range(list) = mirror /\ Full(list)
<1> DEFINE s == SetToSeq(mirror)
           list == InOrder(s)
<1>1. IsFiniteSet(mirror) /\ mirror \subseteq DishSet /\ \A e \in mirror : e.id # NoId
  BY DEF MirrorRows
<1>2. s \in Seq(mirror) /\ \A x \in mirror : \E k \in DOMAIN s : s[k] = x
  BY <1>1, SeqOfSet
<1> HIDE DEF s
<1>3. s \in Seq(DishSet)
  <2>1. \A k \in 1 .. Len(s) : s[k] \in DishSet
    BY <1>1, <1>2
  <2> QED
    BY <1>2, <2>1
<1>4. Range(s) = mirror
  <2>1. \A k \in DOMAIN s : s[k] \in mirror
    BY <1>2
  <2> QED
    BY <1>2, <2>1 DEF Range
<1>5. list \in Seq(DishSet) /\ Range(list) = mirror
  BY <1>3, <1>4, SortedIs
<1> HIDE DEF list
<1>6. Full(list)
  <2>1. \A k \in DOMAIN list : list[k] \in mirror
    BY <1>5 DEF Range
  <2> QED
    BY <1>1, <2>1 DEF Full, IdsOf
<1> QED
  BY <1>5, <1>6 DEF list, s

-----------------------------------------------------------------------------
(* crypto.randomUUID.                                                      *)

\* What is unused is nobody's tag, and in nobody's id.
LEMMA UnusedIs ==
  ASSUME MenuType, AtMenu
  PROVE  /\ Unused \in Nat \ {0}
         /\ \A d \in Known : d.tag # Unused /\ d.id # Random(Unused)
         /\ \A x \in served : x.dish # Unused /\ x.id # Random(Unused)
<1> DEFINE lists == {req[j].new : j \in Slots}
           news  == {Range(req[j].new) : j \in Slots}
           S     == {e \in Known \cup Served : e.id \in Randoms}
           tags  == {d.tag : d \in Known \cup Served}
           ids   == {d.id[2] : d \in S}
           n     == Cardinality(Taken)
<1>1. IsFiniteSet(Known \cup Served)
  <2>1. IsFiniteSet(mirror) /\ IsFiniteSet(served) /\ IsFiniteSet(Range(menu.list))
    BY IdsAreFinite DEF MenuType, MirrorRows
  <2>2. IsFiniteSet(news) /\ \A R \in news : IsFiniteSet(R)
    <3> DEFINE f == [j \in Slots |-> Range(req[j].new)]
    <3>1. f \in Surjection(Slots, news)
      BY DEF Surjection
    <3> HIDE DEF f
    <3>0. IsFiniteSet(Slots)
      BY MenuAssumption
    <3> HIDE DEF news
    <3>2. IsFiniteSet(news)
      BY <3>0, <3>1, FS_Surjection
    <3>3. \A j \in Slots : IsFiniteSet(Range(req[j].new))
      BY IdsAreFinite DEF MenuType
    <3> QED
      BY <3>2, <3>3 DEF news
  <2>3. IsFiniteSet(UNION news)
    BY <2>2, FS_UNION
  <2>4. IsFiniteSet(Served)
    <3> DEFINE f == [x \in served |-> Dish(x.id, "", "", FALSE, x.dish)]
    <3>1. f \in Surjection(served, Served)
      BY DEF Surjection, Served
    <3> HIDE DEF f
    <3> QED
      BY <2>1, <3>1, FS_Surjection
  <2> QED
    BY <2>1, <2>3, <2>4, FS_Union DEF Known
<1>2. IsFiniteSet(Taken)
  <2>1. IsFiniteSet(S)
    BY <1>1, FS_Subset
  <2>2. IsFiniteSet(tags)
    <3> DEFINE f == [d \in Known \cup Served |-> d.tag]
    <3>1. f \in Surjection(Known \cup Served, tags)
      BY DEF Surjection
    <3> HIDE DEF f
    <3> QED
      BY <1>1, <3>1, FS_Surjection
  <2>3. IsFiniteSet(ids)
    <3> DEFINE f == [d \in S |-> d.id[2]]
    <3>1. f \in Surjection(S, ids)
      BY DEF Surjection
    <3> HIDE DEF f
    <3> QED
      BY <2>1, <3>1, FS_Surjection
  <2>4. Taken = tags \cup ids
    BY DEF Taken
  <2> QED
    BY <2>2, <2>3, <2>4, FS_Union
<1>3. n \in Nat
  BY <1>2, FS_CardinalityType
<1>4. \E m \in 1 .. n + 1 : m \notin Taken
  <2> SUFFICES ASSUME 1 .. n + 1 \subseteq Taken PROVE FALSE
    OBVIOUS
  <2>1. IsFiniteSet(1 .. n + 1) /\ Cardinality(1 .. n + 1) = n + 1
    BY <1>3, FS_Interval
  <2>2. Cardinality(1 .. n + 1) <= n
    BY <1>2, FS_Subset
  <2> QED
    BY <1>3, <2>1, <2>2
<1>5. Unused \in 1 .. n + 1 /\ Unused \notin Taken
  BY <1>4 DEF Unused
<1>6. ASSUME NEW d \in Known \cup Served PROVE d.tag # Unused /\ d.id # Random(Unused)
  <2>1. d.tag # Unused
    BY <1>5 DEF Taken
  <2>2. ASSUME d.id = Random(Unused) PROVE FALSE
    <3>1. Unused \in Nat
      BY <1>3, <1>5
    <3>2. d.id \in Randoms /\ d.id[2] = Unused
      BY <2>2, <3>1 DEF Random, Randoms
    <3> QED
      BY <1>5, <3>2 DEF Taken
  <2> QED
    BY <2>1, <2>2
<1>7. ASSUME NEW x \in served PROVE x.dish # Unused /\ x.id # Random(Unused)
  <2>1. Dish(x.id, "", "", FALSE, x.dish) \in Served
    BY DEF Served
  <2>2. Dish(x.id, "", "", FALSE, x.dish).tag = x.dish /\ Dish(x.id, "", "", FALSE, x.dish).id = x.id
    BY DEF Dish
  <2> QED
    BY <1>6, <2>1, <2>2
<1> QED
  BY <1>3, <1>5, <1>6, <1>7
-----------------------------------------------------------------------------
(* Dishes without ids get the same ids from a list that keeps their order. *)

LEMMA DerivedSame ==
  ASSUME NEW used, NEW used2, IsFiniteSet(used), IsFiniteSet(used2),
         NEW d, NEW d2, d.cat \in STRING, d.name \in STRING, d2.cat = d.cat, d2.name = d.name,
         \A c \in Nat : <<d.cat, d.name, c>> \in used <=> <<d.cat, d.name, c>> \in used2
  PROVE  Derived(d, used) = Derived(d2, used2)
<1> DEFINE x(c) == <<d.cat, d.name, c>>
<1>1. \E k \in Nat : Derived(d, used) = x(k) /\ x(k) \notin used /\ \A j \in 0 .. k - 1 : x(j) \in used
  BY DerivedIs, Zenon
<1>2. \E k \in Nat : Derived(d2, used2) = x(k) /\ x(k) \notin used2 /\ \A j \in 0 .. k - 1 : x(j) \in used2
  <2>1. \E k \in Nat : /\ Derived(d2, used2) = <<d2.cat, d2.name, k>>
                       /\ <<d2.cat, d2.name, k>> \notin used2
                       /\ \A j \in 0 .. k - 1 : <<d2.cat, d2.name, j>> \in used2
    <3>1. d2.cat \in STRING /\ d2.name \in STRING
      OBVIOUS
    <3> QED
      BY <3>1, DerivedIs, Zenon
  <2> QED
    BY <2>1
<1>3. PICK k \in Nat : Derived(d, used) = x(k) /\ x(k) \notin used /\ \A j \in 0 .. k - 1 : x(j) \in used
  BY <1>1
<1>4. PICK l \in Nat : Derived(d2, used2) = x(l) /\ x(l) \notin used2 /\ \A j \in 0 .. l - 1 : x(j) \in used2
  BY <1>2
<1>5. \A c \in Nat : x(c) \in used <=> x(c) \in used2
  OBVIOUS
<1> HIDE DEF x
<1>6. ~(k < l)
  <2> SUFFICES ASSUME k < l PROVE FALSE
    OBVIOUS
  <2>1. k \in 0 .. l - 1
    OBVIOUS
  <2> QED
    BY <1>3, <1>4, <1>5, <2>1
<1>7. ~(l < k)
  <2> SUFFICES ASSUME l < k PROVE FALSE
    OBVIOUS
  <2>1. l \in 0 .. k - 1
    OBVIOUS
  <2> QED
    BY <1>3, <1>4, <1>5, <2>1
<1> QED
  BY <1>3, <1>4, <1>6, <1>7

OldPlaces(list) == {k \in DOMAIN list : list[k].id = NoId}

Before(list, k) == {EnsureMenuIds(list)[j].id : j \in 1 .. k - 1}

LEMMA OldIs ==
  ASSUME NEW list \in Seq(DishSet), NEW k \in OldPlaces(list)
  PROVE  /\ IsFiniteSet(Before(list, k)) /\ list[k].cat \in STRING /\ list[k].name \in STRING
         /\ EnsureMenuIds(list)[k].id = Derived(list[k], Before(list, k))
         /\ \E c \in Nat : EnsureMenuIds(list)[k].id = <<list[k].cat, list[k].name, c>>
<1> DEFINE e == EnsureMenuIds(list)
<1>1. k \in 1 .. Len(list) /\ Len(list) \in Nat /\ list[k] \in DishSet /\ list[k].id = NoId
  BY DEF OldPlaces
<1>2. IsFiniteSet(Before(list, k))
  <2> DEFINE f == [j \in 1 .. k - 1 |-> e[j].id]
  <2>1. f \in Surjection(1 .. k - 1, Before(list, k))
    BY DEF Surjection, Before
  <2>2. IsFiniteSet(1 .. k - 1)
    BY <1>1, FS_Interval
  <2> HIDE DEF f
  <2> QED
    BY <2>1, <2>2, FS_Surjection
<1>3. list[k].cat \in STRING /\ list[k].name \in STRING
  <2>1. Categories \in Seq(STRING)
    BY MenuAssumption
  <2> QED
    BY <1>1, <2>1, ListIs DEF DishSet
<1>4. e[k] = Ensured(list[k], Before(list, k))
  BY <1>1, EnsureIs DEF Before
<1> HIDE DEF e
<1>5. e[k].id = Derived(list[k], Before(list, k))
  BY <1>1, <1>4 DEF Ensured, DishSet
<1>6. \E c \in Nat : /\ Derived(list[k], Before(list, k)) = <<list[k].cat, list[k].name, c>>
                     /\ <<list[k].cat, list[k].name, c>> \notin Before(list, k)
                     /\ \A j \in 0 .. c - 1 : <<list[k].cat, list[k].name, j>> \in Before(list, k)
  BY <1>2, <1>3, DerivedIs, Zenon
<1> QED
  BY <1>2, <1>3, <1>5, <1>6 DEF e

\* The dishes without ids are the same ones, and those of one category in one order.
Carries(list, m, at) ==
  /\ at \in [OldPlaces(m) -> OldPlaces(list)]
  /\ \A k \in OldPlaces(list) : \E n \in OldPlaces(m) : at[n] = k
  /\ \A n \in OldPlaces(m) : /\ m[n].tag = list[at[n]].tag /\ m[n].cat = list[at[n]].cat
                             /\ m[n].name = list[at[n]].name
  /\ \A j, n \in OldPlaces(m) : m[j].cat = m[n].cat => (j < n <=> at[j] < at[n])

\* In a menu whose ids were derived at once, or are random, an id of category, name and
\* occurrence was derived just now, for a dish of that category and name.
LEMMA DerivedNow ==
  ASSUME NEW list \in Seq(DishSet), Old(list), NoId \in IdsOf(list), NEW j \in DOMAIN list,
         NEW d, d.cat \in STRING, d.name \in STRING, NEW x \in Nat,
         EnsureMenuIds(list)[j].id = <<d.cat, d.name, x>>
  PROVE  j \in OldPlaces(list) /\ list[j].cat = d.cat /\ list[j].name = d.name
<1>1. j \in OldPlaces(list)
  <2> SUFFICES ASSUME list[j].id # NoId PROVE FALSE
    BY DEF OldPlaces
  <2>1. EnsureMenuIds(list)[j] = list[j]
    BY EnsureKeeps
  <2>2. list[j].id \in {NoId} \cup Randoms
    BY DEF Old, IdsOf
  <2>3. list[j].id = <<d.cat, d.name, x>>
    BY <2>1
  <2>4. <<d.cat, d.name, x>> # NoId /\ <<d.cat, d.name, x>> \notin Randoms
    BY IdsApart
  <2> QED
    BY <2>2, <2>3, <2>4
<1>2. PICK y \in Nat : EnsureMenuIds(list)[j].id = <<list[j].cat, list[j].name, y>>
  BY <1>1, OldIs
<1> QED
  BY <1>1, <1>2

LEMMA SameIds ==
  ASSUME NEW list \in Seq(DishSet), NEW m \in Seq(DishSet), Old(list), Old(m),
         NEW at, Carries(list, m, at)
  PROVE  \A n \in OldPlaces(m) : EnsureMenuIds(m)[n].id = EnsureMenuIds(list)[at[n]].id
<1> DEFINE e == EnsureMenuIds(list)
           g == EnsureMenuIds(m)
           P(n) == g[n].id = e[at[n]].id
           T == {n \in Nat : \A k \in OldPlaces(m) : k <= n => P(k)}
<1>0. /\ DOMAIN list = 1 .. Len(list) /\ Len(list) \in Nat
      /\ DOMAIN m = 1 .. Len(m) /\ Len(m) \in Nat
  OBVIOUS
<1>1. /\ at \in [OldPlaces(m) -> OldPlaces(list)]
      /\ \A k \in OldPlaces(list) : \E n \in OldPlaces(m) : at[n] = k
      /\ \A n \in OldPlaces(m) : m[n].cat = list[at[n]].cat /\ m[n].name = list[at[n]].name
      /\ \A j, n \in OldPlaces(m) : m[j].cat = m[n].cat => (j < n <=> at[j] < at[n])
  BY DEF Carries
<1>2. /\ \A n \in OldPlaces(m) : n \in 1 .. Len(m) /\ m[n].id = NoId
      /\ \A n \in OldPlaces(list) : n \in 1 .. Len(list) /\ list[n].id = NoId
  BY DEF OldPlaces
<1> HIDE DEF e, g
<1>3. 0 \in T
  BY <1>2
<1>4. ASSUME NEW n \in Nat, n \in T PROVE n + 1 \in T
  <2> SUFFICES ASSUME NEW k \in OldPlaces(m), k <= n + 1 PROVE P(k)
    OBVIOUS
  <2>0. \A j \in OldPlaces(m) : j < k => P(j)
    BY <1>2, <1>4
  <2>1. /\ at[k] \in OldPlaces(list) /\ k \in 1 .. Len(m) /\ at[k] \in 1 .. Len(list)
        /\ m[k].cat = list[at[k]].cat /\ m[k].name = list[at[k]].name
    BY <1>1, <1>2
  <2>2. NoId \in IdsOf(m) /\ NoId \in IdsOf(list)
    BY <1>0, <1>2, <2>1 DEF IdsOf
  <2> DEFINE x(c) == <<m[k].cat, m[k].name, c>>
  <2>3. m[k].cat \in STRING /\ m[k].name \in STRING
    BY OldIs
  <2>4. ASSUME NEW c \in Nat, x(c) \in Before(m, k) PROVE x(c) \in Before(list, at[k])
    <3>1. PICK j \in 1 .. k - 1 : g[j].id = x(c)
      BY <2>4 DEF Before, g
    <3>2. j \in DOMAIN m
      BY <1>0, <2>1
    <3>a. EnsureMenuIds(m)[j].id = <<m[k].cat, m[k].name, c>>
      BY <3>1 DEF g
    <3>3. j \in OldPlaces(m) /\ m[j].cat = m[k].cat
      BY <2>2, <2>3, <3>2, <3>a, DerivedNow
    <3>b. j < k /\ at[j] \in OldPlaces(list)
      BY <1>1, <2>1, <3>1, <3>3
    <3>4. at[j] < at[k] /\ P(j) /\ at[j] \in 1 .. Len(list)
      BY <1>1, <1>2, <2>0, <3>3, <3>b
    <3>5. at[j] \in 1 .. at[k] - 1 /\ e[at[j]].id = x(c)
      BY <2>1, <3>1, <3>4
    <3> QED
      BY <3>5 DEF Before, e
  <2>5. ASSUME NEW c \in Nat, x(c) \in Before(list, at[k]) PROVE x(c) \in Before(m, k)
    <3>1. PICK i \in 1 .. at[k] - 1 : e[i].id = x(c)
      BY <2>5 DEF Before, e
    <3>2. i \in DOMAIN list
      BY <1>0, <2>1
    <3>a. EnsureMenuIds(list)[i].id = <<m[k].cat, m[k].name, c>>
      BY <3>1 DEF e
    <3>3. i \in OldPlaces(list) /\ list[i].cat = m[k].cat
      BY <2>2, <2>3, <3>2, <3>a, DerivedNow
    <3>4. PICK j \in OldPlaces(m) : at[j] = i
      BY <1>1, <3>3
    <3>5. m[j].cat = m[k].cat /\ at[j] < at[k]
      BY <1>1, <2>1, <3>1, <3>3, <3>4
    <3>6. j < k /\ j \in 1 .. Len(m)
      BY <1>1, <1>2, <3>4, <3>5
    <3>7. P(j)
      BY <2>0, <3>4, <3>6
    <3>8. g[j].id = x(c)
      BY <3>1, <3>4, <3>7
    <3>9. j \in 1 .. k - 1
      BY <2>1, <3>6
    <3> QED
      BY <3>8, <3>9 DEF Before, g
  <2>6. IsFiniteSet(Before(m, k)) /\ g[k].id = Derived(m[k], Before(m, k))
    BY OldIs DEF g
  <2>7. IsFiniteSet(Before(list, at[k])) /\ e[at[k]].id = Derived(list[at[k]], Before(list, at[k]))
    BY <2>1, OldIs DEF e
  <2>8. Derived(m[k], Before(m, k)) = Derived(list[at[k]], Before(list, at[k]))
    BY <2>1, <2>3, <2>4, <2>5, <2>6, <2>7, DerivedSame
  <2> QED
    BY <2>6, <2>7, <2>8
<1> HIDE DEF T
<1>5. Nat \subseteq T
  BY <1>3, <1>4, NatSetInduction
<1> QED
  BY <1>0, <1>2, <1>5 DEF T, e, g

\* What such a list bears: the same, and what its dishes with ids do.
LEMMA BearsOn ==
  ASSUME NEW list \in Seq(DishSet), NEW m \in Seq(DishSet), Old(list), Old(m),
         NEW at, Carries(list, m, at)
  PROVE  \A x \in Bears(m) : \/ x \in Bears(list)
                             \/ \E k \in DOMAIN m : m[k].id # NoId /\ x = [dish |-> m[k].tag, id |-> m[k].id]
<1> SUFFICES ASSUME NEW k \in DOMAIN m, m[k].id = NoId
             PROVE  [dish |-> EnsureMenuIds(m)[k].tag, id |-> EnsureMenuIds(m)[k].id] \in Bears(list)
  <2>1. ASSUME NEW x \in Bears(m)
        PROVE  \E k \in DOMAIN m : x = [dish |-> EnsureMenuIds(m)[k].tag, id |-> EnsureMenuIds(m)[k].id]
    BY <2>1, EnsureKeeps DEF Bears, Ids
  <2>2. \A k \in DOMAIN m : m[k].id # NoId => EnsureMenuIds(m)[k] = m[k]
    BY EnsureKeeps
  <2> QED
    BY <2>1, <2>2
<1>1. k \in OldPlaces(m)
  BY DEF OldPlaces
<1>2. at[k] \in DOMAIN list /\ m[k].tag = list[at[k]].tag
  BY <1>1 DEF Carries, OldPlaces
<1>3. EnsureMenuIds(m)[k].id = EnsureMenuIds(list)[at[k]].id
  BY <1>1, SameIds
<1>4. EnsureMenuIds(m)[k].tag = EnsureMenuIds(list)[at[k]].tag /\ DOMAIN EnsureMenuIds(list) = DOMAIN list
  BY <1>2, EnsureKeeps
<1> QED
  BY <1>2, <1>3, <1>4 DEF Bears, Ids

LEMMA SortCarries ==
  ASSUME NEW list \in Seq(DishSet)
  PROVE  \E c : Carries(list, InOrder(list), c)
<1>1. PICK at : Sorts(list, InOrder(list), at)
  BY InOrderIs
<1> DEFINE s == InOrder(list)
           c == [n \in OldPlaces(s) |-> at[n]]
<1>2. DOMAIN s = DOMAIN list
  BY SortedIs
<1> HIDE DEF s
<1>3. /\ \A n \in DOMAIN list : s[n] = list[at[n]] /\ at[n] \in DOMAIN list
      /\ \A k \in DOMAIN list : \E n \in DOMAIN list : at[n] = k
      /\ \A m, n \in DOMAIN list : list[at[m]].cat = list[at[n]].cat => (m < n <=> at[m] < at[n])
  BY <1>1 DEF Sorts, s
<1>4. c \in [OldPlaces(s) -> OldPlaces(list)] /\ \A n \in OldPlaces(s) : c[n] = at[n] /\ n \in DOMAIN list
  BY <1>2, <1>3 DEF OldPlaces
<1> HIDE DEF c
<1>5. \A k \in OldPlaces(list) : \E n \in OldPlaces(s) : c[n] = k
  BY <1>2, <1>3, <1>4 DEF OldPlaces
<1>6. \A n \in OldPlaces(s) : /\ s[n].tag = list[c[n]].tag /\ s[n].cat = list[c[n]].cat
                              /\ s[n].name = list[c[n]].name
  BY <1>3, <1>4
<1>7. ASSUME NEW j \in OldPlaces(s), NEW n \in OldPlaces(s), s[j].cat = s[n].cat
      PROVE  j < n <=> c[j] < c[n]
  BY <1>3, <1>4, <1>7
<1>8. Carries(list, s, c)
  BY <1>4, <1>5, <1>6, <1>7 DEF Carries
<1> QED
  BY <1>8 DEF s

LEMMA RemoveCarries ==
  ASSUME NEW list \in Seq(DishSet), NEW k \in DOMAIN list, list[k].id # NoId
  PROVE  \E c : Carries(list, RemoveAt(list, k), c)
<1> DEFINE s == RemoveAt(list, k)
           from(n) == IF n < k THEN n ELSE n + 1
           c == [n \in OldPlaces(s) |-> from(n)]
<1>1. /\ s \in Seq(DishSet) /\ DOMAIN s = 1 .. Len(list) - 1
      /\ \A n \in DOMAIN s : s[n] = list[from(n)]
  BY RemovedIs
<1>2. Len(list) \in Nat /\ DOMAIN list = 1 .. Len(list) /\ k \in 1 .. Len(list)
  OBVIOUS
<1> HIDE DEF s
<1>3. \A n \in DOMAIN s : from(n) \in DOMAIN list
  BY <1>1, <1>2
<1>4. \A m \in DOMAIN list \ {k} : \E n \in DOMAIN s : from(n) = m
  <2> SUFFICES ASSUME NEW m \in DOMAIN list, m # k PROVE \E n \in DOMAIN s : from(n) = m
    OBVIOUS
  <2>1. CASE m < k
    BY <1>1, <1>2, <2>1
  <2>2. CASE m > k
    <3>1. m - 1 \in DOMAIN s /\ from(m - 1) = m
      BY <1>1, <1>2, <2>2
    <3> QED
      BY <3>1
  <2> QED
    BY <1>2, <2>1, <2>2
<1>5. \A m, n \in DOMAIN s : m < n <=> from(m) < from(n)
  BY <1>1, <1>2
<1> HIDE DEF from
<1>6. c \in [OldPlaces(s) -> OldPlaces(list)] /\ \A n \in OldPlaces(s) : c[n] = from(n) /\ n \in DOMAIN s
  BY <1>1, <1>3 DEF OldPlaces
<1> HIDE DEF c
<1>7. \A m \in OldPlaces(list) : \E n \in OldPlaces(s) : c[n] = m
  <2> SUFFICES ASSUME NEW m \in OldPlaces(list) PROVE \E n \in OldPlaces(s) : c[n] = m
    OBVIOUS
  <2>1. m \in DOMAIN list \ {k} /\ list[m].id = NoId
    BY DEF OldPlaces
  <2>2. PICK n \in DOMAIN s : from(n) = m
    BY <1>4, <2>1
  <2>3. n \in OldPlaces(s)
    BY <1>1, <2>1, <2>2 DEF OldPlaces
  <2> QED
    BY <1>6, <2>2, <2>3
<1>8. Carries(list, s, c)
  BY <1>1, <1>5, <1>6, <1>7 DEF Carries
<1> QED
  BY <1>8 DEF s

\* A dish with an id comes, or is changed.
LEMMA AppendCarries ==
  ASSUME NEW list \in Seq(DishSet), NEW d \in DishSet, d.id # NoId
  PROVE  \E c : Carries(list, Append(list, d), c)
<1> DEFINE s == Append(list, d)
           c == [n \in OldPlaces(s) |-> n]
<1>1. \A n \in DOMAIN list : s[n] = list[n]
  OBVIOUS
<1>2. DOMAIN s = DOMAIN list \cup {Len(list) + 1} /\ s[Len(list) + 1] = d
  OBVIOUS
<1> HIDE DEF s
<1>3. OldPlaces(s) = OldPlaces(list)
  BY <1>1, <1>2 DEF OldPlaces
<1>4. \A n \in OldPlaces(s) : n \in DOMAIN list /\ s[n] = list[n]
  BY <1>1, <1>3 DEF OldPlaces
<1>5. Carries(list, s, c)
  BY <1>3, <1>4 DEF Carries
<1> QED
  BY <1>5 DEF s

LEMMA ReplaceCarries ==
  ASSUME NEW list \in Seq(DishSet), NEW k \in DOMAIN list, NEW d \in DishSet,
         list[k].id # NoId, d.id # NoId
  PROVE  \E c : Carries(list, [list EXCEPT ![k] = d], c)
<1> DEFINE s == [list EXCEPT ![k] = d]
           c == [n \in OldPlaces(s) |-> n]
<1>1. DOMAIN s = DOMAIN list /\ \A n \in DOMAIN list : s[n] = IF n = k THEN d ELSE list[n]
  BY DishReplaced
<1> HIDE DEF s
<1>2. OldPlaces(s) = OldPlaces(list)
  BY <1>1 DEF OldPlaces
<1>3. \A n \in OldPlaces(s) : n \in DOMAIN list /\ s[n] = list[n]
  BY <1>1 DEF OldPlaces
<1>4. Carries(list, s, c)
  BY <1>2, <1>3 DEF Carries
<1> QED
  BY <1>4 DEF s
-----------------------------------------------------------------------------
(* Steps of requests.                                                      *)

\* A request as it was but for some fields.
LEMMA RequestEdited ==
  ASSUME NEW r, DOMAIN r = DOMAIN FreeSlot, NEW op, NEW pc, NEW new, NEW todo, NEW row, NEW found
  PROVE  /\ LET q == [FreeSlot EXCEPT !.op = op, !.pc = pc, !.new = new, !.todo = todo]
            IN /\ DOMAIN q = DOMAIN FreeSlot /\ q.key = House
               /\ q.op = op /\ q.pc = pc /\ q.new = new /\ q.todo = todo
         /\ LET q == [r EXCEPT !.pc = pc]
            IN /\ DOMAIN q = DOMAIN FreeSlot /\ q.key = r.key
               /\ q.op = r.op /\ q.pc = pc /\ q.new = r.new /\ q.todo = r.todo
         /\ LET q == [[r EXCEPT !.pc = pc] EXCEPT !.new = new]
            IN /\ DOMAIN q = DOMAIN FreeSlot /\ q.key = r.key
               /\ q.op = r.op /\ q.pc = pc /\ q.new = new /\ q.todo = r.todo
         /\ LET q == [[r EXCEPT !.pc = pc] EXCEPT !.new = new, !.todo = todo]
            IN /\ DOMAIN q = DOMAIN FreeSlot /\ q.key = r.key
               /\ q.op = r.op /\ q.pc = pc /\ q.new = new /\ q.todo = todo
         /\ LET q == [[r EXCEPT !.pc = pc] EXCEPT !.row = row, !.found = found, !.todo = todo]
            IN /\ DOMAIN q = DOMAIN FreeSlot /\ q.key = r.key
               /\ q.op = r.op /\ q.pc = pc /\ q.new = r.new /\ q.todo = todo
               /\ q.row = row /\ q.found = found
         /\ LET q == [r EXCEPT !.row = @ + 1]
            IN /\ DOMAIN q = DOMAIN FreeSlot /\ q.key = r.key
               /\ q.op = r.op /\ q.pc = r.pc /\ q.new = r.new /\ q.todo = r.todo
               /\ q.row = r.row + 1 /\ q.found = r.found
         /\ LET q == [r EXCEPT !.todo = todo]
            IN /\ DOMAIN q = DOMAIN FreeSlot /\ q.key = r.key
               /\ q.op = r.op /\ q.pc = r.pc /\ q.new = r.new /\ q.todo = todo
               /\ q.row = r.row /\ q.found = r.found
<1>1. {"op", "pc", "key", "row", "new", "todo", "found"} \subseteq DOMAIN r
  BY DEF FreeSlot
<1>2. {"op", "pc", "key", "row", "new", "todo", "found"} \subseteq DOMAIN FreeSlot /\ FreeSlot.key = House
  BY DEF FreeSlot
<1> QED
  BY <1>1, <1>2

LEMMA FreeInMenu ==
  /\ DOMAIN FreeSlot = DOMAIN FreeSlot /\ FreeSlot.key = House /\ FreeSlot.pc = "free"
  /\ FreeSlot.new = <<>> /\ FreeSlot.new \in Seq(DishSet) /\ InMenu(FreeSlot)
  /\ Standing(FreeSlot) /\ Old(FreeSlot.new) /\ Full(FreeSlot.new) /\ Bears(FreeSlot.new) = {}
  /\ \A m, rows, a : Has(FreeSlot, m, rows, a)
<1>1. FreeSlot.key = House /\ FreeSlot.pc = "free" /\ FreeSlot.new = <<>> /\ FreeSlot.op = "none"
  BY DEF FreeSlot
<1>2. FreeSlot.new \in Seq(DishSet) /\ InMenu(FreeSlot)
  BY <1>1 DEF InMenu
<1>3. Full(FreeSlot.new) /\ Old(FreeSlot.new) /\ Standing(FreeSlot)
  BY <1>1 DEF Full, Old, IdsOf, Standing
<1>4. EnsureMenuIds(FreeSlot.new) = <<>>
  BY <1>1, <1>2, <1>3, EnsureKeeps
<1>5. Bears(FreeSlot.new) = {}
  BY <1>4 DEF Bears, Ids
<1> QED
  BY <1>1, <1>2, <1>3, <1>5 DEF Has

\* One request comes or goes on: what it and the rows are.
LEMMA TypeGoes ==
  ASSUME MenuType, AtMenu, NEW i \in Slots, NEW r, Goes(i, r),
         DOMAIN r = DOMAIN FreeSlot, r.key = House, r.new \in Seq(DishSet), InMenu(r),
         menu'.there \in BOOLEAN, menu'.list \in Seq(DishSet), ~menu'.there => menu'.list = <<>>,
         MirrorRows(mirror'),
         aligned' \in BOOLEAN, IsFiniteSet(served'), served' \subseteq [dish : Nat, id : IdSet],
         {"desk", "cut"} \subseteq DOMAIN counts'
  PROVE  MenuType'
<1>1. req' = [req EXCEPT ![i] = r] /\ req = [j \in Slots |-> req[j]]
  BY DEF Goes, MenuType
<1>2. req' = [j \in Slots |-> req'[j]]
  BY <1>1
<1>3. ASSUME NEW j \in Slots
      PROVE  /\ DOMAIN req'[j] = DOMAIN FreeSlot /\ req'[j].key = House
             /\ req'[j].new \in Seq(DishSet) /\ InMenu(req'[j])
  <2>1. req'[j] = IF j = i THEN r ELSE req[j]
    BY <1>1
  <2>2. /\ DOMAIN req[j] = DOMAIN FreeSlot /\ req[j].key = House
        /\ req[j].new \in Seq(DishSet) /\ InMenu(req[j])
    BY DEF MenuType
  <2> QED
    BY <2>1, <2>2
<1>4. \A j \in Slots : /\ DOMAIN req'[j] = DOMAIN FreeSlot /\ req'[j].key = House
                       /\ req'[j].new \in Seq(DishSet) /\ InMenu(req'[j])
  BY <1>3
<1>5. \A q : InMenu(q)' <=> InMenu(q)
  OBVIOUS
<1> QED
  BY <1>2, <1>4 DEF MenuType, MirrorRows

\* What is served is dishes by their ids.
LEMMA ServesType ==
  ASSUME MenuType, NEW list \in Seq(DishSet), Serves(list)
  PROVE  IsFiniteSet(served') /\ served' \subseteq [dish : Nat, id : IdSet]
<1> DEFINE S == {x \in Ids(list) : x.id # NoId}
<1>1. IsFiniteSet(Ids(list))
  <2> DEFINE f == [k \in DOMAIN list |-> [dish |-> list[k].tag, id |-> list[k].id]]
  <2>1. f \in Surjection(DOMAIN list, Ids(list))
    BY DEF Surjection, Ids
  <2>2. IsFiniteSet(DOMAIN list)
    BY ListIs
  <2> HIDE DEF f
  <2> QED
    BY <2>1, <2>2, FS_Surjection
<1>2. S \in SUBSET Ids(list)
  OBVIOUS
<1>3. IsFiniteSet(S)
  BY <1>1, <1>2, FS_Subset
<1>4. Ids(list) \subseteq [dish : Nat, id : IdSet]
  <2>1. \A k \in DOMAIN list : list[k] \in DishSet
    BY ListIs
  <2>2. \A d \in DishSet : d.tag \in Nat /\ d.id \in IdSet
    BY DEF DishSet
  <2> QED
    BY <2>1, <2>2 DEF Ids
<1>5. IsFiniteSet(served) /\ served \subseteq [dish : Nat, id : IdSet]
  BY DEF MenuType
<1>6. served' = IF served = {} THEN {} ELSE served \cup S
  BY DEF Serves
<1> HIDE DEF S
<1>7. IsFiniteSet(served \cup S)
  BY <1>3, <1>5, FS_Union
<1> QED
  BY <1>2, <1>4, <1>5, <1>6, <1>7, FS_EmptySet
LEMMA MirrorGoes ==
  ASSUME MenuInv, AtMenu, NEW i \in Slots, NEW r, Goes(i, r), ~At(i, "free"), UNCHANGED <<counts, torn>>,
         House \notin torn /\ counts.cut = <<>> /\ Has(req[i], menu, mirror, aligned)
           => /\ Has(r, menu', mirror', aligned')
              /\ r.pc = "free" => Resting(menu', mirror', aligned')
  PROVE  Mirroring'
<1> SUFFICES ASSUME House \notin torn, counts.cut = <<>>
             PROVE  /\ \A j, k \in Slots : j # k => req'[j].pc = "free" \/ req'[k].pc = "free"
                    /\ \A j \in Slots : Has(req'[j], menu', mirror', aligned')
                    /\ (\A j \in Slots : req'[j].pc = "free") => Resting(menu', mirror', aligned')
  BY DEF Mirroring, AtMenu, Quiet, At, Has, Resting
<1>1. /\ \A j, k \in Slots : j # k => At(j, "free") \/ At(k, "free")
      /\ \A j \in Slots : Has(req[j], menu, mirror, aligned)
  BY DEF MenuInv, Mirroring
<1>2. \A j \in Slots : req'[j] = IF j = i THEN r ELSE req[j]
  BY DEF Goes, MenuInv, MenuType
<1>3. \A j \in Slots \ {i} : req[j] = FreeSlot
  <2> SUFFICES ASSUME NEW j \in Slots, j # i PROVE req[j] = FreeSlot
    OBVIOUS
  <2>1. req[j].pc = "free" /\ InMenu(req[j])
    BY <1>1 DEF At, MenuInv, MenuType
  <2> QED
    BY <2>1 DEF InMenu
<1>4. Has(r, menu', mirror', aligned') /\ (r.pc = "free" => Resting(menu', mirror', aligned'))
  BY <1>1
<1>5. \A j \in Slots \ {i} : req'[j].pc = "free" /\ Has(req'[j], menu', mirror', aligned')
  BY <1>2, <1>3, FreeInMenu
<1> QED
  BY <1>2, <1>4, <1>5

LEMMA MirrorComes ==
  ASSUME MenuInv, AtMenu, NEW i \in Slots, NEW r, Begins(i, r), r.key = House, r.pc # "free",
         UNCHANGED <<menu, mirror, aligned>>,
         Resting(menu, mirror, aligned) => Has(r, menu, mirror, aligned)
  PROVE  Mirroring'
<1>1. /\ counts' = [counts EXCEPT !.requests = @ + 1]
      /\ torn' = torn \cup {k \in {House} : \E j \in Slots \ {i} : ~At(j, "free") /\ req[j].key = k}
      /\ At(i, "free") /\ Goes(i, r)
  BY DEF Begins
<1>2. counts'.cut = counts.cut /\ counts'.desk = counts.desk
  BY <1>1 DEF MenuInv, MenuType
<1> SUFFICES ASSUME House \notin torn', counts.cut = <<>>
             PROVE  /\ \A j, k \in Slots : j # k => req'[j].pc = "free" \/ req'[k].pc = "free"
                    /\ \A j \in Slots : Has(req'[j], menu', mirror', aligned')
                    /\ (\A j \in Slots : req'[j].pc = "free") => Resting(menu', mirror', aligned')
  BY <1>2 DEF Mirroring, AtMenu, Quiet, At, Has, Resting
<1>3. \A j \in Slots \ {i} : req[j].pc = "free"
  BY <1>1 DEF MenuInv, MenuType, At
<1>4. House \notin torn
  BY <1>1
<1>5. Resting(menu, mirror, aligned)
  BY <1>1, <1>3, <1>4 DEF MenuInv, Mirroring, Quiet, At
<1>6. \A j \in Slots : req'[j] = IF j = i THEN r ELSE req[j]
  BY <1>1 DEF Goes, MenuInv, MenuType
<1>7. \A j \in Slots \ {i} : req[j] = FreeSlot
  <2> SUFFICES ASSUME NEW j \in Slots, j # i PROVE req[j] = FreeSlot
    OBVIOUS
  <2>1. req[j].pc = "free" /\ InMenu(req[j])
    BY <1>3 DEF MenuInv, MenuType
  <2> QED
    BY <2>1 DEF InMenu
<1>8. \A j \in Slots \ {i} : req'[j].pc = "free" /\ Has(req'[j], menu', mirror', aligned')
  BY <1>6, <1>7, FreeInMenu
<1>9. Has(r, menu', mirror', aligned') /\ r.pc # "free"
  BY <1>5
<1> QED
  BY <1>6, <1>8, <1>9

\* What a list bears is of its dishes.
LEMMA BearsType ==
  ASSUME NEW list \in Seq(DishSet)
  PROVE  Bears(list) \subseteq [dish : Nat, id : IdSet]
<1>1. EnsureMenuIds(list) \in Seq(DishSet)
  BY EnsureKeeps
<1>2. \A k \in DOMAIN EnsureMenuIds(list) : EnsureMenuIds(list)[k] \in DishSet
  BY <1>1, ListIs
<1>3. \A d \in DishSet : d.tag \in Nat /\ d.id \in IdSet
  BY DEF DishSet
<1> QED
  BY <1>2, <1>3 DEF Bears, Ids

LEMMA BorneIs ==
  ASSUME MenuType, AtMenu
  PROVE  \A x : x \in Borne <=> BorneBy(x, served, menu.list, req, mirror, Rebuilding)
<1> SUFFICES ASSUME NEW x, BorneBy(x, served, menu.list, req, mirror, Rebuilding)
             PROVE  x \in [dish : Nat, id : IdSet]
  BY DEF Borne
<1>1. CASE x \in served
  BY <1>1 DEF MenuType
<1>2. CASE x \in Bears(menu.list)
  BY <1>2, BearsType DEF MenuType
<1>3. CASE \E j \in Slots : Standing(req[j]) /\ x \in Bears(req[j].new)
  BY <1>3, BearsType DEF MenuType
<1>4. CASE Rebuilding /\ \E e \in mirror : x = [dish |-> e.tag, id |-> e.id]
  BY <1>4 DEF MenuType, MirrorRows, DishSet
<1> QED
  BY <1>1, <1>2, <1>3, <1>4 DEF BorneBy

\* One request comes or goes on: what is borne, and nothing else but of new dishes, fits.
LEMMA KeepGoes ==
  ASSUME MenuInv, AtMenu, AtMenu', NEW i \in Slots, NEW r, Goes(i, r), NEW F, Single(F),
         served # {} => \A x \in F, y \in Borne : x.dish # y.dish,
         served' # {} => served # {},
         served' # {} =>
           /\ served' \subseteq Borne \cup F
           /\ Old(menu'.list) /\ Bears(menu'.list) \subseteq Borne \cup F
           /\ Standing(r) => Old(r.new) /\ Bears(r.new) \subseteq Borne \cup F
           /\ Rebuilding' =>
                /\ Rebuilding /\ Full(menu'.list) /\ (Standing(r) => Full(r.new))
                /\ \A e \in mirror' : [dish |-> e.tag, id |-> e.id] \in Borne \cup F
  PROVE  Keeping'
<1> SUFFICES ASSUME served' # {}
             PROVE  /\ Single(Borne')
                    /\ Old(menu'.list) /\ \A j \in Slots : Standing(req'[j]) => Old(req'[j].new)
                    /\ Rebuilding' => /\ Full(menu'.list)
                                      /\ \A j \in Slots : Standing(req'[j]) => Full(req'[j].new)
  BY DEF Keeping, AtMenu, Single, Standing, Old, Full, IdsOf, Randoms
<1>0. MenuType
  BY DEF MenuInv
<1>1. \A j \in Slots : req'[j] = IF j = i THEN r ELSE req[j]
  BY <1>0 DEF Goes, MenuType
<1>2. /\ Single(Borne)
      /\ \A j \in Slots : Standing(req[j]) => Old(req[j].new)
      /\ Rebuilding => \A j \in Slots : Standing(req[j]) => Full(req[j].new)
  BY DEF MenuInv, Keeping
<1>3. \A j \in Slots : Standing(req[j]) => Bears(req[j].new) \subseteq Borne
  BY <1>0, BorneIs DEF BorneBy
<1>4. \A j \in Slots : Standing(req'[j]) => Bears(req'[j].new) \subseteq Borne \cup F
  BY <1>1, <1>3
<1>5. Borne' \subseteq Borne \cup F
  <2> SUFFICES ASSUME NEW x \in Borne' PROVE x \in Borne \cup F
    OBVIOUS
  <2>1. \/ x \in served' \/ x \in Bears(menu'.list)
        \/ \E j \in Slots : Standing(req'[j]) /\ x \in Bears(req'[j].new)
        \/ Rebuilding' /\ \E e \in mirror' : x = [dish |-> e.tag, id |-> e.id]
    BY DEF Borne, BorneBy, Bears, Standing
  <2> QED
    BY <1>4, <2>1
<1>6. Single(Borne')
  <2> HIDE DEF Borne
  <2>1. \A x, y \in Borne \cup F : x.dish = y.dish => x.id = y.id
    BY <1>2 DEF Single
  <2> QED
    BY <1>5, <2>1 DEF Single
<1>7. \A j \in Slots : Standing(req'[j]) => Old(req'[j].new)
  BY <1>1, <1>2
<1>8. Rebuilding' => \A j \in Slots : Standing(req'[j]) => Full(req'[j].new)
  BY <1>1, <1>2
<1> QED
  BY <1>6, <1>7, <1>8
-----------------------------------------------------------------------------
(* What lists bear.                                                        *)

LEMMA BearsHas ==
  ASSUME NEW list \in Seq(DishSet)
  PROVE  /\ \A n \in DOMAIN list : list[n].id # NoId => [dish |-> list[n].tag, id |-> list[n].id] \in Bears(list)
         /\ {x \in Ids(list) : x.id # NoId} \subseteq Bears(list)
<1>1. \A n \in DOMAIN list : list[n].id # NoId => EnsureMenuIds(list)[n] = list[n]
  BY EnsureKeeps
<1>2. DOMAIN EnsureMenuIds(list) = DOMAIN list
  BY EnsureKeeps
<1>3. \A n \in DOMAIN list : list[n].id # NoId => [dish |-> list[n].tag, id |-> list[n].id] \in Bears(list)
  BY <1>1, <1>2 DEF Bears, Ids
<1> QED
  BY <1>3 DEF Ids

LEMMA BearsFull ==
  ASSUME NEW list \in Seq(DishSet), Full(list)
  PROVE  Old(list) /\ Bears(list) = Ids(list)
BY EnsureKeeps DEF Full, Old, Bears

LEMMA BearsEnsured ==
  ASSUME NEW list \in Seq(DishSet)
  PROVE  /\ EnsureMenuIds(list) \in Seq(DishSet) /\ Full(EnsureMenuIds(list))
         /\ Old(EnsureMenuIds(list)) /\ Bears(EnsureMenuIds(list)) = Bears(list)
         /\ Full(list) => EnsureMenuIds(list) = list
<1>1. EnsureMenuIds(list) \in Seq(DishSet) /\ Full(EnsureMenuIds(list)) /\ (Full(list) => EnsureMenuIds(list) = list)
  BY EnsureKeeps
<1>2. Old(EnsureMenuIds(list)) /\ Bears(EnsureMenuIds(list)) = Ids(EnsureMenuIds(list))
  BY <1>1, BearsFull
<1> QED
  BY <1>1, <1>2 DEF Bears

LEMMA BearsSorted ==
  ASSUME NEW list \in Seq(DishSet), Old(list)
  PROVE  Old(InOrder(list)) /\ Bears(InOrder(list)) \subseteq Bears(list)
<1> DEFINE m == InOrder(list)
<1>1. m \in Seq(DishSet) /\ Range(m) = Range(list) /\ IdsOf(m) = IdsOf(list)
  BY SortedIs
<1>2. \E c : Carries(list, m, c)
  BY SortCarries
<1> HIDE DEF m
<1>3. Old(m)
  BY <1>1 DEF Old
<1>4. ASSUME NEW x \in Bears(m) PROVE x \in Bears(list)
  <2>1. \/ x \in Bears(list)
        \/ \E k \in DOMAIN m : m[k].id # NoId /\ x = [dish |-> m[k].tag, id |-> m[k].id]
    BY <1>1, <1>2, <1>3, <1>4, BearsOn
  <2>2. ASSUME NEW k \in DOMAIN m, m[k].id # NoId
        PROVE  [dish |-> m[k].tag, id |-> m[k].id] \in Bears(list)
    <3>1. PICK n \in DOMAIN list : list[n] = m[k]
      BY <1>1 DEF Range
    <3> QED
      BY <2>2, <3>1, BearsHas
  <2> QED
    BY <2>1, <2>2
<1> QED
  BY <1>3, <1>4 DEF m

LEMMA BearsRemoved ==
  ASSUME NEW list \in Seq(DishSet), Old(list), NEW k \in DOMAIN list, list[k].id # NoId
  PROVE  Old(RemoveAt(list, k)) /\ Bears(RemoveAt(list, k)) \subseteq Bears(list)
<1> DEFINE m == RemoveAt(list, k)
<1>1. /\ m \in Seq(DishSet) /\ Range(m) = {list[n] : n \in DOMAIN list \ {k}}
      /\ IdsOf(m) = {list[n].id : n \in DOMAIN list \ {k}}
  BY DishRemoved
<1>2. \E c : Carries(list, m, c)
  BY RemoveCarries
<1> HIDE DEF m
<1>3. IdsOf(m) \subseteq IdsOf(list)
  BY <1>1 DEF IdsOf
<1>4. Old(m)
  BY <1>3 DEF Old
<1>5. ASSUME NEW x \in Bears(m) PROVE x \in Bears(list)
  <2>1. \/ x \in Bears(list)
        \/ \E j \in DOMAIN m : m[j].id # NoId /\ x = [dish |-> m[j].tag, id |-> m[j].id]
    BY <1>1, <1>2, <1>4, <1>5, BearsOn
  <2>2. ASSUME NEW j \in DOMAIN m, m[j].id # NoId
        PROVE  [dish |-> m[j].tag, id |-> m[j].id] \in Bears(list)
    <3>0. m[j] \in Range(m)
      BY DEF Range
    <3>1. PICK n \in DOMAIN list : list[n] = m[j]
      BY <1>1, <3>0
    <3> QED
      BY <2>2, <3>1, BearsHas
  <2> QED
    BY <2>1, <2>2
<1> QED
  BY <1>4, <1>5 DEF m

LEMMA BearsAppended ==
  ASSUME NEW list \in Seq(DishSet), Old(list), NEW d \in DishSet, d.id # NoId,
         d.id \in IdsOf(list) \cup Randoms \/ Full(list)
  PROVE  /\ Old(Append(list, d))
         /\ Bears(Append(list, d)) \subseteq Bears(list) \cup {[dish |-> d.tag, id |-> d.id]}
<1> DEFINE m == Append(list, d)
<1>1. m \in Seq(DishSet) /\ Range(m) = Range(list) \cup {d} /\ IdsOf(m) = IdsOf(list) \cup {d.id}
  BY DishAppended
<1>2. \E c : Carries(list, m, c)
  BY AppendCarries
<1> HIDE DEF m
<1>3. Old(m)
  BY <1>1 DEF Old, Full
<1>4. ASSUME NEW x \in Bears(m) PROVE x \in Bears(list) \cup {[dish |-> d.tag, id |-> d.id]}
  <2>1. \/ x \in Bears(list)
        \/ \E k \in DOMAIN m : m[k].id # NoId /\ x = [dish |-> m[k].tag, id |-> m[k].id]
    BY <1>1, <1>2, <1>3, <1>4, BearsOn
  <2>2. ASSUME NEW k \in DOMAIN m, m[k].id # NoId, m[k] # d
        PROVE  [dish |-> m[k].tag, id |-> m[k].id] \in Bears(list)
    <3>1. PICK n \in DOMAIN list : list[n] = m[k]
      BY <1>1, <2>2 DEF Range
    <3> QED
      BY <2>2, <3>1, BearsHas
  <2> QED
    BY <2>1, <2>2
<1> QED
  BY <1>3, <1>4 DEF m

LEMMA BearsReplaced ==
  ASSUME NEW list \in Seq(DishSet), Old(list), NEW k \in DOMAIN list, list[k].id # NoId,
         NEW d \in DishSet, d.id = list[k].id, d.tag = list[k].tag
  PROVE  Old([list EXCEPT ![k] = d]) /\ Bears([list EXCEPT ![k] = d]) \subseteq Bears(list)
<1> DEFINE m == [list EXCEPT ![k] = d]
<1>1. /\ m \in Seq(DishSet) /\ DOMAIN m = DOMAIN list
      /\ \A n \in DOMAIN list : m[n] = IF n = k THEN d ELSE list[n]
  BY DishReplaced
<1>2. \E c : Carries(list, m, c)
  BY ReplaceCarries
<1> HIDE DEF m
<1>3. \A n \in DOMAIN list : m[n].id = list[n].id /\ m[n].tag = list[n].tag
  BY <1>1
<1>4. IdsOf(m) = IdsOf(list)
  BY <1>1, <1>3 DEF IdsOf
<1>5. Old(m)
  BY <1>4 DEF Old
<1>6. ASSUME NEW x \in Bears(m) PROVE x \in Bears(list)
  <2>1. \/ x \in Bears(list)
        \/ \E j \in DOMAIN m : m[j].id # NoId /\ x = [dish |-> m[j].tag, id |-> m[j].id]
    BY <1>1, <1>2, <1>5, <1>6, BearsOn
  <2> QED
    BY <1>1, <1>3, <2>1, BearsHas
<1> QED
  BY <1>5, <1>6 DEF m
-----------------------------------------------------------------------------
(* Requests come.                                                          *)

\* A new dish is not borne.
Fresh(F) == Single(F) /\ (served # {} => \A x \in F, y \in Borne : x.dish # y.dish)

LEMMA NoneFresh == Fresh({})
BY DEF Fresh, Single

LEMMA UnusedFresh ==
  ASSUME MenuInv, AtMenu, NEW id
  PROVE  Fresh({[dish |-> Unused, id |-> id]})
<1>0. MenuType
  BY DEF MenuInv
<1>1. /\ \A d \in Known : d.tag # Unused
      /\ \A x \in served : x.dish # Unused
  BY <1>0, UnusedIs
<1>2. /\ Range(menu.list) \subseteq Known /\ mirror \subseteq Known
      /\ \A j \in Slots : Range(req[j].new) \subseteq Known
  BY DEF Known
<1>3. ASSUME NEW list \in Seq(DishSet), Range(list) \subseteq Known, NEW y \in Bears(list)
      PROVE  y.dish # Unused
  <2>1. PICK k \in DOMAIN EnsureMenuIds(list) : y.dish = EnsureMenuIds(list)[k].tag
    BY <1>3 DEF Bears, Ids
  <2>2. k \in DOMAIN list /\ y.dish = list[k].tag
    BY <2>1, EnsureKeeps
  <2>3. list[k] \in Known
    BY <1>3, <2>2 DEF Range
  <2> QED
    BY <1>1, <2>2, <2>3
<1>4. ASSUME NEW y \in Borne PROVE y.dish # Unused
  <2>1. BorneBy(y, served, menu.list, req, mirror, Rebuilding)
    BY <1>0, BorneIs
  <2>2. CASE y \in served
    BY <1>1, <2>2
  <2>3. CASE y \in Bears(menu.list)
    BY <1>0, <1>2, <1>3, <2>3 DEF MenuType
  <2>4. CASE \E j \in Slots : y \in Bears(req[j].new)
    BY <1>0, <1>2, <1>3, <2>4 DEF MenuType
  <2>5. CASE \E e \in mirror : y = [dish |-> e.tag, id |-> e.id]
    BY <1>1, <1>2, <2>5
  <2> QED
    BY <2>1, <2>2, <2>3, <2>4, <2>5 DEF BorneBy
<1> HIDE DEF Borne
<1> QED
  BY <1>4 DEF Fresh, Single

Asking(r, op, pc, list, todo) ==
  /\ DOMAIN r = DOMAIN FreeSlot /\ r.key = House
  /\ r.op = op /\ r.pc = pc /\ r.new = list /\ r.todo = todo

LEMMA AsksKeeps ==
  ASSUME MenuInv, AtMenu, NEW i \in Slots, NEW op, NEW pc, NEW list \in Seq(DishSet), NEW todo,
         AsksMenu(i, op, pc, list, todo), pc # "free",
         pc \in {"first", "rebuild"} => ~menu.there,
         \A r : Asking(r, op, pc, list, todo) =>
           InMenu(r) /\ (Resting(menu, mirror, aligned) => Has(r, menu, mirror, aligned)),
         NEW F, Fresh(F),
         served # {} => /\ Old(list) /\ Bears(list) \subseteq Borne \cup F
                        /\ Rebuilding => Full(list)
  PROVE  MenuInv'
<1> DEFINE r == [FreeSlot EXCEPT !.op = op, !.pc = pc, !.new = list, !.todo = todo]
<1>0. MenuType
  BY DEF MenuInv
<1>1. /\ Begins(i, r) /\ UNCHANGED <<menu, mirror, aligned>>
      /\ served' = served \/ Serves(list)
  BY DEF AsksMenu
<1>2. Asking(r, op, pc, list, todo)
  BY RequestEdited DEF Asking
<1> HIDE DEF r
<1>3. InMenu(r) /\ (Resting(menu, mirror, aligned) => Has(r, menu, mirror, aligned))
  BY <1>2
<1>4. Goes(i, r) /\ counts' = [counts EXCEPT !.requests = @ + 1]
  BY <1>1 DEF Begins
<1>5. counts'.desk = counts.desk /\ {"desk", "cut"} \subseteq DOMAIN counts'
  BY <1>0, <1>4 DEF MenuType
<1>6. IsFiniteSet(served') /\ served' \subseteq [dish : Nat, id : IdSet]
  BY <1>0, <1>1, ServesType DEF MenuType
<1>7. MenuType'
  <2>1. /\ menu'.there \in BOOLEAN /\ menu'.list \in Seq(DishSet) /\ (~menu'.there => menu'.list = <<>>)
        /\ MirrorRows(mirror') /\ aligned' \in BOOLEAN
    BY <1>0, <1>1 DEF MenuType
  <2>2. DOMAIN r = DOMAIN FreeSlot /\ r.key = House /\ r.new \in Seq(DishSet)
    BY <1>2 DEF Asking
  <2> QED
    BY <1>0, <1>3, <1>4, <1>5, <1>6, <2>1, <2>2, TypeGoes
<1>8. Mirroring'
  <2>1. r.key = House /\ r.pc # "free"
    BY <1>2 DEF Asking
  <2> QED
    BY <1>1, <1>3, <2>1, MirrorComes
<1>9. Keeping'
  <2>1. AtMenu'
    BY <1>5 DEF AtMenu
  <2>2. Single(F) /\ (served # {} => \A x \in F, y \in Borne : x.dish # y.dish)
    BY DEF Fresh
  <2>3. served' # {} => served # {}
    BY <1>1 DEF Serves
  <2>4. ASSUME served' # {}
        PROVE  /\ served' \subseteq Borne \cup F
               /\ Old(menu'.list) /\ Bears(menu'.list) \subseteq Borne \cup F
               /\ Standing(r) => Old(r.new) /\ Bears(r.new) \subseteq Borne \cup F
               /\ Rebuilding' =>
                    /\ Rebuilding /\ Full(menu'.list) /\ (Standing(r) => Full(r.new))
                    /\ \A e \in mirror' : [dish |-> e.tag, id |-> e.id] \in Borne \cup F
    <3>1. served # {} /\ Old(list) /\ Bears(list) \subseteq Borne \cup F /\ (Rebuilding => Full(list))
      BY <2>3, <2>4
    <3>2. \A x : x \in Borne <=> BorneBy(x, served, menu.list, req, mirror, Rebuilding)
      BY <1>0, BorneIs
    <3>3. r.new = list /\ r.pc = pc
      BY <1>2 DEF Asking
    <3>4. Rebuilding' => Rebuilding
      <4>1. \A j \in Slots : req'[j] = IF j = i THEN r ELSE req[j]
        BY <1>0, <1>4 DEF Goes, MenuType
      <4> QED
        BY <1>1, <3>3, <4>1 DEF Rebuilding
    <3>5. served \subseteq Borne /\ Bears(menu.list) \subseteq Borne
      BY <3>2 DEF BorneBy
    <3>6. Rebuilding => \A e \in mirror : [dish |-> e.tag, id |-> e.id] \in Borne
      BY <3>2 DEF BorneBy
    <3>7. Old(menu.list) /\ (Rebuilding => Full(menu.list))
      BY <3>1 DEF MenuInv, Keeping
    <3> HIDE DEF Borne
    <3>8. served' \subseteq Borne \cup F
      <4>1. {x \in Ids(list) : x.id # NoId} \subseteq Bears(list)
        BY BearsHas
      <4> QED
        BY <1>1, <3>1, <3>5, <4>1 DEF Serves
    <3> QED
      BY <1>1, <3>1, <3>3, <3>4, <3>5, <3>6, <3>7, <3>8
  <2> HIDE DEF Fresh
  <2> QED
    BY <1>4, <2>1, <2>2, <2>3, <2>4, KeepGoes
<1> QED
  BY <1>7, <1>8, <1>9 DEF MenuInv

\* What the lists that are put have of the menu.
LEMMA MenuBears ==
  ASSUME MenuInv, AtMenu
  PROVE  /\ menu.list \in Seq(DishSet) /\ DOMAIN menu.list = 1 .. Len(menu.list)
         /\ \A k \in DOMAIN menu.list : menu.list[k] \in DishSet
         /\ Bears(menu.list) \subseteq Borne
         /\ served # {} => Old(menu.list) /\ (Rebuilding => Full(menu.list))
<1>0. MenuType
  BY DEF MenuInv
<1>1. menu.list \in Seq(DishSet)
  BY <1>0 DEF MenuType
<1>2. Bears(menu.list) \subseteq Borne
  BY <1>0, BorneIs DEF BorneBy
<1>3. served # {} => Old(menu.list) /\ (Rebuilding => Full(menu.list))
  BY DEF MenuInv, Keeping
<1> QED
  BY <1>1, <1>2, <1>3, ListIs
LEMMA TodoApart ==
  All # {} /\ \A f \in DishDone : f.op # "all" /\ {f} # {} /\ {f} # All
<1>1. ASSUME NEW f \in DishDone PROVE f.op # "all"
  BY DEF DishDone
<1>2. \A f \in DishDone : {f} # All
  BY <1>1 DEF All
<1> QED
  BY <1>1, <1>2 DEF All

\* A menu that lines up has its ids.
LEMMA RestingFull ==
  ASSUME Resting(menu, mirror, aligned), aligned, menu.there
  PROVE  Full(menu.list) /\ LinesUp(menu.list, mirror)
BY DEF Resting, LinesUp, Full

LEMMA ReadArrivesKeeps ==
  ASSUME MenuInv, AtMenu, NEW i \in Slots, ReadArrives(i) PROVE MenuInv'
<1>0. /\ menu.list \in Seq(DishSet) /\ Bears(menu.list) \subseteq Borne
      /\ All # {}
  BY MenuBears, TodoApart
<1>1. CASE menu.there /\ EnsureMenuIds(menu.list) # menu.list
             /\ AsksMenu(i, "read", "put", EnsureMenuIds(menu.list), {})
  <2> DEFINE list == EnsureMenuIds(menu.list)
  <2>1. list \in Seq(DishSet) /\ Full(list) /\ Old(list) /\ Bears(list) = Bears(menu.list)
    BY <1>0, BearsEnsured
  <2>2. ASSUME Resting(menu, mirror, aligned) PROVE ~aligned
    BY <1>0, <1>1, <2>2, RestingFull, BearsEnsured
  <2> HIDE DEF list
  <2>3. ASSUME NEW r, Asking(r, "read", "put", list, {})
        PROVE  InMenu(r) /\ (Resting(menu, mirror, aligned) => Has(r, menu, mirror, aligned))
    <3>1. r.op = "read" /\ r.pc = "put" /\ r.todo = {}
      BY <2>3 DEF Asking
    <3> QED
      BY <1>0, <1>1, <2>2, <3>1 DEF InMenu, Has
  <2>4. AsksMenu(i, "read", "put", list, {})
    BY <1>1 DEF list
  <2>5. Bears(list) \subseteq Borne \cup {}
    BY <1>0, <2>1
  <2> QED
    BY <2>1, <2>3, <2>4, <2>5, NoneFresh, AsksKeeps
<1>2. CASE ~menu.there /\ AsksMenu(i, "read", "rebuild", <<>>, {})
  <2>1. <<>> \in Seq(DishSet) /\ Old(<<>>) /\ Full(<<>>) /\ Bears(<<>>) = {}
    BY FreeInMenu
  <2>2. ASSUME NEW r, Asking(r, "read", "rebuild", <<>>, {})
        PROVE  InMenu(r) /\ (Resting(menu, mirror, aligned) => Has(r, menu, mirror, aligned))
    <3>1. r.op = "read" /\ r.pc = "rebuild" /\ r.todo = {}
      BY <2>2 DEF Asking
    <3> QED
      BY <1>2, <3>1 DEF InMenu, Has
  <2>3. Bears(<<>>) \subseteq Borne \cup {}
    BY <2>1
  <2> QED
    BY <1>2, <2>1, <2>2, <2>3, NoneFresh, AsksKeeps
<1> QED
  BY <1>1, <1>2 DEF ReadArrives

LEMMA EditorArrivesKeeps ==
  ASSUME MenuInv, AtMenu, NEW i \in Slots, EditorArrives(i) PROVE MenuInv'
<1> DEFINE list == EnsureMenuIds(menu.list)
<1>0. menu.list \in Seq(DishSet) /\ Bears(menu.list) \subseteq Borne
  BY MenuBears
<1>1. list \in Seq(DishSet) /\ Full(list) /\ Old(list) /\ Bears(list) = Bears(menu.list)
  BY <1>0, BearsEnsured
<1>2. menu.there /\ AsksMenu(i, "edit", "edit", list, {})
  BY DEF EditorArrives
<1> HIDE DEF list
<1>3. ASSUME NEW r, Asking(r, "edit", "edit", list, {})
      PROVE  InMenu(r) /\ (Resting(menu, mirror, aligned) => Has(r, menu, mirror, aligned))
  <2>1. r.op = "edit" /\ r.pc = "edit" /\ r.todo = {} /\ r.new = list
    BY <1>3 DEF Asking
  <2> QED
    BY <1>1, <1>2, <2>1 DEF InMenu, Has
<1>4. Bears(list) \subseteq Borne \cup {}
  BY <1>0, <1>1
<1> QED
  BY <1>1, <1>2, <1>3, <1>4, NoneFresh, AsksKeeps

LEMMA RepairArrivesKeeps ==
  ASSUME MenuInv, AtMenu, NEW i \in Slots, NEW force \in BOOLEAN, RepairArrives(i, force) PROVE MenuInv'
<1> DEFINE todo == {[op |-> "force"] : f \in {force} \cap {TRUE}}
<1>0. /\ menu.list \in Seq(DishSet) /\ Bears(menu.list) \subseteq Borne \cup {}
      /\ served # {} => Old(menu.list) /\ (Rebuilding => Full(menu.list))
  BY MenuBears
<1>1. menu.there /\ AsksMenu(i, "repair", "adopt", menu.list, todo) /\ todo \subseteq {[op |-> "force"]}
  BY DEF RepairArrives
<1> HIDE DEF todo
<1>2. ASSUME NEW r, Asking(r, "repair", "adopt", menu.list, todo)
      PROVE  InMenu(r) /\ (Resting(menu, mirror, aligned) => Has(r, menu, mirror, aligned))
  <2>1. r.op = "repair" /\ r.pc = "adopt" /\ r.todo = todo
    BY <1>2 DEF Asking
  <2> QED
    BY <1>1, <2>1 DEF InMenu, Has
<1> QED
  BY <1>0, <1>1, <1>2, NoneFresh, AsksKeeps

LEMMA AddArrivesKeeps ==
  ASSUME MenuInv, AtMenu, NEW i \in Slots, NEW cat \in Range(Categories), NEW name \in DishNames,
         AddArrives(i, cat, name)
  PROVE  MenuInv'
<1> DEFINE d == Dish(Random(Unused), cat, name, FALSE, Unused)
           F == {[dish |-> Unused, id |-> Random(Unused)]}
<1>0. /\ menu.list \in Seq(DishSet) /\ Bears(menu.list) \subseteq Borne
      /\ served # {} => Old(menu.list) /\ (Rebuilding => Full(menu.list))
      /\ All # {} /\ MenuType
  BY MenuBears, TodoApart DEF MenuInv
<1>1. Unused \in Nat \ {0}
  BY <1>0, UnusedIs
<1>2. Random(Unused) \in Randoms /\ Random(Unused) # NoId /\ Random(Unused) \in IdSet
  BY <1>1, IdsApart
<1>3. name \in STRING
  BY MenuAssumption
<1>4. d \in DishSet /\ d.id = Random(Unused) /\ d.tag = Unused
  BY <1>1, <1>2, <1>3 DEF Dish, DishSet
<1>5. Fresh(F)
  BY UnusedFresh
<1>6. IF menu.there THEN AsksMenu(i, "add", "put", InOrder(Append(menu.list, d)), All)
      ELSE AsksMenu(i, "add", "first", <<d>>, {})
  BY DEF AddArrives
<1>f. F = {[dish |-> d.tag, id |-> d.id]}
  BY <1>4
<1> HIDE DEF d, F
<1>7. CASE menu.there
  <2> DEFINE a    == Append(menu.list, d)
             list == InOrder(a)
  <2>1. a \in Seq(DishSet) /\ IdsOf(a) = IdsOf(menu.list) \cup {d.id}
    BY <1>0, <1>4, DishAppended
  <2>2. Old(menu.list) => Old(a) /\ Bears(a) \subseteq Bears(menu.list) \cup F
    BY <1>0, <1>2, <1>4, <1>f, BearsAppended
  <2> HIDE DEF a
  <2>3. list \in Seq(DishSet) /\ IdsOf(list) = IdsOf(a)
    BY <2>1, SortedIs
  <2>4. Old(a) => Old(list) /\ Bears(list) \subseteq Bears(a)
    BY <2>1, BearsSorted
  <2>5. Full(menu.list) => Full(list)
    BY <1>2, <1>4, <2>1, <2>3 DEF Full
  <2>6. AsksMenu(i, "add", "put", list, All)
    BY <1>6, <1>7 DEF a
  <2> HIDE DEF list
  <2>7. ASSUME NEW r, Asking(r, "add", "put", list, All)
        PROVE  InMenu(r) /\ (Resting(menu, mirror, aligned) => Has(r, menu, mirror, aligned))
    <3>1. r.op = "add" /\ r.pc = "put" /\ r.todo = All /\ r.new = list
      BY <2>7 DEF Asking
    <3> QED
      BY <1>0, <1>7, <2>5, <3>1, RestingFull DEF InMenu, Has
  <2>8. served # {} => /\ Old(list) /\ Bears(list) \subseteq Borne \cup F
                       /\ Rebuilding => Full(list)
    BY <1>0, <2>2, <2>4, <2>5
  <2> QED
    BY <1>5, <2>3, <2>6, <2>7, <2>8, AsksKeeps
<1>8. CASE ~menu.there
  <2> DEFINE list == <<d>>
  <2>1. list \in Seq(DishSet) /\ Len(list) = 1 /\ DOMAIN list = {1} /\ list[1] = d
    BY <1>4
  <2> HIDE DEF list
  <2>2. Full(list)
    BY <1>2, <1>4, <2>1 DEF Full, IdsOf
  <2>3. Old(list) /\ Bears(list) = F
    BY <1>f, <2>1, <2>2, BearsFull DEF Ids
  <2>4. AsksMenu(i, "add", "first", list, {})
    BY <1>6, <1>8 DEF list
  <2>5. ASSUME NEW r, Asking(r, "add", "first", list, {})
        PROVE  InMenu(r) /\ (Resting(menu, mirror, aligned) => Has(r, menu, mirror, aligned))
    <3>1. r.op = "add" /\ r.pc = "first" /\ r.todo = {} /\ r.new = list
      BY <2>5 DEF Asking
    <3> QED
      BY <1>8, <2>1, <2>2, <3>1 DEF InMenu, Has
  <2>6. Bears(list) \subseteq Borne \cup F
    BY <2>3
  <2> QED
    BY <1>5, <1>8, <2>1, <2>2, <2>3, <2>4, <2>5, <2>6, AsksKeeps
<1> QED
  BY <1>7, <1>8
\* One dish, and its row.
LEMMA PlaceIs ==
  ASSUME MenuInv, AtMenu, NEW id, id # NoId, NEW k \in Place(id)
  PROVE  /\ k \in DOMAIN menu.list /\ menu.list[k] \in DishSet /\ menu.list[k].id = id /\ id \in IdSet
         /\ id \in IdsOf(menu.list) /\ menu.there
<1>1. k \in DOMAIN menu.list /\ menu.list[k].id = id
  BY DEF Place
<1>2. menu.list[k] \in DishSet
  BY <1>1, MenuBears
<1>3. id \in IdSet /\ id \in IdsOf(menu.list)
  BY <1>1, <1>2 DEF DishSet, IdsOf
<1>4. menu.there
  BY <1>1 DEF MenuInv, MenuType
<1> QED
  BY <1>1, <1>2, <1>3, <1>4

LEMMA AfterRowIs ==
  ASSUME NEW f \in DishDone, f.op # "delete", NEW e \in DishSet
  PROVE  /\ AfterRow(f, e) \in DishSet /\ AfterRow(f, e).id = e.id /\ AfterRow(f, e).tag = e.tag
         /\ AfterRow(f, e).name = (IF "name" \in DOMAIN f.set THEN f.set.name ELSE e.name)
         /\ AfterRow(f, e).off = (IF "off" \in DOMAIN f.set THEN f.set.off ELSE e.off)
<1>1. f.set \in Sets
  BY DEF DishDone
<1>2. /\ "cat" \in DOMAIN f.set => f.set.cat \in Range(Categories)
      /\ "name" \in DOMAIN f.set => f.set.name \in STRING
      /\ "off" \in DOMAIN f.set => f.set.off \in BOOLEAN
  BY <1>1 DEF Sets
<1>3. Other \in Range(Categories)
  BY MenuAssumption
<1> QED
  BY <1>2, <1>3 DEF AfterRow, DishSet

LEMMA AfterDishIs ==
  ASSUME NEW f \in DishDone, MirrorRows(mirror)
  PROVE  /\ MirrorRows(AfterDish(f, mirror))
         /\ \A x \in AfterDish(f, mirror) :
              \/ x \in mirror /\ x.id # f.id
              \/ f.op # "delete" /\ \E e \in mirror : e.id = f.id /\ x = AfterRow(f, e)
         /\ \A e \in mirror : e.id # f.id => e \in AfterDish(f, mirror)
         /\ f.op # "delete" => \A e \in mirror : e.id = f.id => AfterRow(f, e) \in AfterDish(f, mirror)
<1> DEFINE row == {e \in mirror : e.id = f.id}
           aft == {AfterRow(f, e) : e \in row}
<1>1. AfterDish(f, mirror) = (mirror \ row) \cup IF f.op = "delete" THEN {} ELSE aft
  BY DEF AfterDish
<1>2. mirror \subseteq DishSet /\ IsFiniteSet(mirror) /\ \A e \in mirror : e.id # NoId
  BY DEF MirrorRows
<1>3. IsFiniteSet(mirror \ row) /\ IsFiniteSet(aft)
  <2> DEFINE g == [e \in row |-> AfterRow(f, e)]
  <2>1. g \in Surjection(row, aft)
    BY DEF Surjection
  <2>2. row \in SUBSET mirror /\ mirror \ row \in SUBSET mirror
    OBVIOUS
  <2> HIDE DEF g, row, aft
  <2>3. IsFiniteSet(row) /\ IsFiniteSet(mirror \ row)
    BY <1>2, <2>2, FS_Subset
  <2> QED
    BY <2>1, <2>3, FS_Surjection
<1>4. IsFiniteSet(AfterDish(f, mirror))
  <2>1. IsFiniteSet((mirror \ row) \cup aft)
    <3> HIDE DEF row, aft
    <3> QED
      BY <1>3, FS_Union
  <2>2. CASE f.op = "delete"
    <3>1. AfterDish(f, mirror) = mirror \ row
      BY <1>1, <2>2
    <3> HIDE DEF row
    <3> QED
      BY <1>3, <3>1
  <2>3. CASE f.op # "delete"
    <3>1. AfterDish(f, mirror) = (mirror \ row) \cup aft
      BY <1>1, <2>3
    <3> HIDE DEF row, aft
    <3> QED
      BY <2>1, <3>1
  <2> QED
    BY <2>2, <2>3
<1>5. \A x \in AfterDish(f, mirror) :
        \/ x \in mirror /\ x.id # f.id
        \/ f.op # "delete" /\ \E e \in mirror : e.id = f.id /\ x = AfterRow(f, e)
  BY <1>1
<1>6. \A e \in mirror : e.id # f.id => e \in AfterDish(f, mirror)
  BY <1>1
<1>7. f.op # "delete" => \A e \in mirror : e.id = f.id => AfterRow(f, e) \in AfterDish(f, mirror)
  BY <1>1
<1>8. \A x \in AfterDish(f, mirror) : x \in DishSet /\ x.id # NoId
  BY <1>2, <1>5, AfterRowIs
<1> QED
  BY <1>4, <1>5, <1>6, <1>7, <1>8 DEF MirrorRows

\* A dish o becomes d as f says, and in the list.
Suits(f, o, d) ==
  /\ f.op # "delete" /\ f.id = o.id /\ d.id = o.id
  /\ "name" \in DOMAIN f.set => d.name \in {f.set.name, ""}
  /\ "name" \notin DOMAIN f.set => d.name \in {o.name, ""}
  /\ "off" \in DOMAIN f.set => (d.off => f.set.off)
  /\ "off" \notin DOMAIN f.set => (d.off => o.off)

Changed(list, k, d, m) ==
  /\ IdsOf(m) = IdsOf(list)
  /\ \A x \in Range(m) : x = d \/ \E n \in DOMAIN list \ {k} : x = list[n]

\* A dish is changed as its row is.
LEMMA LinesUpSet ==
  ASSUME NEW list \in Seq(DishSet), MirrorRows(mirror), LinesUp(list, mirror), NEW k \in DOMAIN list,
         NEW f \in DishDone, NEW d, Suits(f, list[k], d),
         NEW m, Changed(list, k, d, m), ~Twins(m)
  PROVE  LinesUp(m, AfterDish(f, mirror))
<1>a. /\ f.op # "delete" /\ f.id = list[k].id /\ d.id = list[k].id
      /\ "name" \in DOMAIN f.set => d.name \in {f.set.name, ""}
      /\ "name" \notin DOMAIN f.set => d.name \in {list[k].name, ""}
      /\ "off" \in DOMAIN f.set => (d.off => f.set.off)
      /\ "off" \notin DOMAIN f.set => (d.off => list[k].off)
  BY DEF Suits
<1>b. /\ IdsOf(m) = IdsOf(list)
      /\ \A x \in Range(m) : x = d \/ \E n \in DOMAIN list \ {k} : x = list[n]
  BY DEF Changed
<1> DEFINE rows == AfterDish(f, mirror)
<1>1. /\ NoId \notin IdsOf(list) /\ ~Twins(list) /\ IdsOf(list) = {e.id : e \in mirror}
      /\ \A x \in Range(list), e \in mirror :
           x.id = e.id => x.name \in {e.name, ""} /\ (x.off => e.off)
      /\ mirror \subseteq DishSet
  BY DEF LinesUp, MirrorRows
<1>2. /\ \A x \in rows : \/ x \in mirror /\ x.id # f.id
                         \/ \E e \in mirror : e.id = f.id /\ x = AfterRow(f, e)
      /\ \A e \in mirror : e.id # f.id => e \in rows
      /\ \A e \in mirror : e.id = f.id => AfterRow(f, e) \in rows
  BY <1>a, AfterDishIs
<1> HIDE DEF rows
<1>3. \A e \in mirror :
        /\ AfterRow(f, e).id = e.id
        /\ AfterRow(f, e).name = (IF "name" \in DOMAIN f.set THEN f.set.name ELSE e.name)
        /\ AfterRow(f, e).off = (IF "off" \in DOMAIN f.set THEN f.set.off ELSE e.off)
  BY <1>1, <1>a, AfterRowIs
<1>4. {e.id : e \in rows} = {e.id : e \in mirror}
  <2>1. ASSUME NEW x \in rows PROVE x.id \in {e.id : e \in mirror}
    <3>1. CASE x \in mirror
      BY <3>1
    <3>2. CASE \E e \in mirror : e.id = f.id /\ x = AfterRow(f, e)
      BY <1>3, <3>2
    <3> QED
      BY <1>2, <3>1, <3>2
  <2>2. ASSUME NEW e \in mirror PROVE e.id \in {x.id : x \in rows}
    <3>1. CASE e.id # f.id
      BY <1>2, <3>1
    <3>2. CASE e.id = f.id
      <4>1. AfterRow(f, e) \in rows /\ AfterRow(f, e).id = e.id
        BY <1>2, <1>3, <3>2
      <4> QED
        BY <4>1
    <3> QED
      BY <3>1, <3>2
  <2>3. {e.id : e \in rows} \subseteq {e.id : e \in mirror}
    BY <2>1
  <2>4. {e.id : e \in mirror} \subseteq {e.id : e \in rows}
    BY <2>2
  <2> QED
    BY <2>3, <2>4
<1>5. ASSUME NEW x \in Range(m), NEW e \in rows, x.id = e.id
      PROVE  x.name \in {e.name, ""} /\ (x.off => e.off)
  <2>0. list[k] \in Range(list)
    BY DEF Range
  <2>1. CASE e \in mirror /\ e.id # f.id
    <3>1. PICK n \in DOMAIN list \ {k} : x = list[n]
      BY <1>5, <1>a, <1>b, <2>1
    <3>2. x \in Range(list)
      BY <3>1 DEF Range
    <3> QED
      BY <1>1, <1>5, <2>1, <3>2
  <2>2. CASE \E o \in mirror : o.id = f.id /\ e = AfterRow(f, o)
    <3>1. PICK o \in mirror : o.id = f.id /\ e = AfterRow(f, o)
      BY <2>2
    <3>2. e.id = f.id
      BY <1>3, <3>1
    <3>3. x = d
      <4>1. ASSUME NEW n \in DOMAIN list \ {k}, x = list[n] PROVE FALSE
        <5>1. list[n].id = list[k].id /\ list[n].id \in IdsOf(list)
          BY <1>5, <1>a, <3>2, <4>1 DEF IdsOf
        <5> QED
          BY <1>1, <5>1 DEF Twins
      <4> QED
        BY <1>5, <1>b, <4>1
    <3>4. list[k].name \in {o.name, ""} /\ (list[k].off => o.off)
      BY <1>1, <1>a, <2>0, <3>1
    <3>5. e.name = (IF "name" \in DOMAIN f.set THEN f.set.name ELSE o.name)
          /\ e.off = (IF "off" \in DOMAIN f.set THEN f.set.off ELSE o.off)
      BY <1>3, <3>1
    <3>6. x.name \in {e.name, ""}
      BY <1>a, <3>3, <3>4, <3>5
    <3>7. x.off => e.off
      BY <1>a, <3>3, <3>4, <3>5
    <3> QED
      BY <3>6, <3>7
  <2> QED
    BY <1>2, <2>1, <2>2
<1> QED
  BY <1>1, <1>4, <1>5, <1>b DEF LinesUp, rows

LEMMA LinesUpDelete ==
  ASSUME NEW list \in Seq(DishSet), MirrorRows(mirror), LinesUp(list, mirror), NEW k \in DOMAIN list,
         NEW f \in DishDone, f.op = "delete", f.id = list[k].id
  PROVE  LinesUp(RemoveAt(list, k), AfterDish(f, mirror))
<1> DEFINE rows == AfterDish(f, mirror)
           m    == RemoveAt(list, k)
<1>1. /\ NoId \notin IdsOf(list) /\ ~Twins(list) /\ IdsOf(list) = {e.id : e \in mirror}
      /\ \A x \in Range(list), e \in mirror :
           x.id = e.id => x.name \in {e.name, ""} /\ (x.off => e.off)
  BY DEF LinesUp
<1>2. \A x : x \in rows <=> x \in mirror /\ x.id # f.id
  BY AfterDishIs
<1>3. /\ Range(m) = {list[n] : n \in DOMAIN list \ {k}}
      /\ IdsOf(m) = {list[n].id : n \in DOMAIN list \ {k}}
      /\ Twins(m) => Twins(list)
  BY DishRemoved
<1> HIDE DEF rows, m
<1>4. IdsOf(m) = IdsOf(list) \ {f.id}
  <2>1. \A n \in DOMAIN list \ {k} : list[n].id # f.id
    BY <1>1 DEF Twins, IdsOf
  <2> QED
    BY <1>3, <2>1 DEF IdsOf
<1>5. {e.id : e \in rows} = {e.id : e \in mirror} \ {f.id}
  BY <1>2
<1>6. Range(m) \subseteq Range(list)
  BY <1>3 DEF Range
<1>7. \A x \in Range(m), e \in rows : x.id = e.id => x.name \in {e.name, ""} /\ (x.off => e.off)
  BY <1>1, <1>2, <1>6
<1>8. NoId \notin IdsOf(m) /\ ~Twins(m) /\ IdsOf(m) = {e.id : e \in rows}
  BY <1>1, <1>3, <1>4, <1>5
<1> QED
  BY <1>7, <1>8 DEF LinesUp, rows, m
\* A request for one dish puts a menu that lines up with the rows once that is done.
LEMMA DishAsks ==
  ASSUME MenuInv, AtMenu, NEW i \in Slots, NEW op \in {"86", "put", "delete"},
         NEW list \in Seq(DishSet), NEW f \in DishDone,
         AsksMenu(i, op, "put", list, {f}), menu.there,
         LinesUp(menu.list, mirror) => LinesUp(list, AfterDish(f, mirror)),
         Old(menu.list) => Old(list) /\ Bears(list) \subseteq Bears(menu.list),
         IdsOf(list) \subseteq IdsOf(menu.list)
  PROVE  MenuInv'
<1>1. f.op # "all" /\ {f} # {} /\ {f} # All
  BY TodoApart
<1>2. ASSUME NEW r, Asking(r, op, "put", list, {f})
      PROVE  InMenu(r) /\ (Resting(menu, mirror, aligned) => Has(r, menu, mirror, aligned))
  <2>1. r.op = op /\ r.pc = "put" /\ r.todo = {f} /\ r.new = list
    BY <1>2 DEF Asking
  <2>2. InMenu(r)
    BY <2>1 DEF InMenu
  <2>3. Resting(menu, mirror, aligned) /\ aligned => LinesUp(list, AfterDish(f, mirror))
    BY RestingFull
  <2>4. Resting(menu, mirror, aligned) => Has(r, menu, mirror, aligned)
    BY <1>1, <2>1, <2>3 DEF Has
  <2> QED
    BY <2>2, <2>4
<1>3. served # {} => /\ Old(list) /\ Bears(list) \subseteq Borne \cup {}
                     /\ Rebuilding => Full(list)
  <2>1. Bears(menu.list) \subseteq Borne /\ (served # {} => Old(menu.list) /\ (Rebuilding => Full(menu.list)))
    BY MenuBears
  <2>2. Full(menu.list) => Full(list)
    BY DEF Full
  <2> HIDE DEF Borne
  <2> QED
    BY <2>1, <2>2
<1> QED
  BY <1>2, <1>3, NoneFresh, AsksKeeps

LEMMA DeleteArrivesKeeps ==
  ASSUME MenuInv, AtMenu, NEW i \in Slots, NEW id \in IdsOf(menu.list) \ {NoId}, DeleteArrives(i, id)
  PROVE  MenuInv'
<1> DEFINE f == [op |-> "delete", id |-> id]
<1>1. PICK k \in Place(id) : AsksMenu(i, "delete", "put", RemoveAt(menu.list, k), {f})
  BY DEF DeleteArrives
<1>2. /\ k \in DOMAIN menu.list /\ menu.list[k].id = id /\ id \in IdSet /\ menu.there /\ id # NoId
      /\ menu.list \in Seq(DishSet) /\ MirrorRows(mirror)
  BY PlaceIs, MenuBears DEF MenuInv, MenuType
<1>3. f \in DishDone /\ f.op = "delete" /\ f.id = id
  BY <1>2 DEF DishDone
<1> DEFINE m == RemoveAt(menu.list, k)
<1>4. m \in Seq(DishSet) /\ IdsOf(m) = {menu.list[n].id : n \in DOMAIN menu.list \ {k}}
  BY <1>2, DishRemoved
<1>5. Old(menu.list) => Old(m) /\ Bears(m) \subseteq Bears(menu.list)
  BY <1>2, BearsRemoved
<1> HIDE DEF f
<1>6. LinesUp(menu.list, mirror) => LinesUp(m, AfterDish(f, mirror))
  BY <1>2, <1>3, LinesUpDelete
<1> HIDE DEF m
<1>7. IdsOf(m) \subseteq IdsOf(menu.list)
  BY <1>4 DEF IdsOf
<1>8. AsksMenu(i, "delete", "put", m, {f})
  BY <1>1 DEF m, f
<1> QED
  BY <1>2, <1>3, <1>4, <1>5, <1>6, <1>7, <1>8, DishAsks

\* A dish in its place is changed.
LEMMA InPlace ==
  ASSUME NEW list \in Seq(DishSet), NEW k \in DOMAIN list, NEW d \in DishSet, d.id = list[k].id,
         NEW m, m = [list EXCEPT ![k] = d]
  PROVE  /\ m \in Seq(DishSet) /\ IdsOf(m) = IdsOf(list) /\ (Twins(m) => Twins(list))
         /\ \A x \in Range(m) : x = d \/ \E n \in DOMAIN list \ {k} : x = list[n]
<1>1. /\ m \in Seq(DishSet) /\ DOMAIN m = DOMAIN list
      /\ \A n \in DOMAIN list : m[n] = IF n = k THEN d ELSE list[n]
  BY DishReplaced
<1>2. \A n \in DOMAIN list : m[n].id = list[n].id
  BY <1>1
<1>3. IdsOf(m) = IdsOf(list)
  BY <1>1, <1>2 DEF IdsOf
<1>4. Twins(m) => Twins(list)
  BY <1>1, <1>2 DEF Twins
<1>5. \A x \in Range(m) : x = d \/ \E n \in DOMAIN list \ {k} : x = list[n]
  BY <1>1 DEF Range
<1> QED
  BY <1>1, <1>3, <1>4, <1>5

LEMMA AvailabilityArrivesKeeps ==
  ASSUME MenuInv, AtMenu, NEW i \in Slots, NEW id \in IdsOf(menu.list) \ {NoId}, NEW off \in BOOLEAN,
         AvailabilityArrives(i, id, off)
  PROVE  MenuInv'
<1>1. PICK k \in Place(id) :
        AsksMenu(i, "86", "put", [menu.list EXCEPT ![k].off = off],
                 {[op |-> "update", id |-> id, set |-> [cat |-> menu.list[k].cat, off |-> off]]})
  BY DEF AvailabilityArrives
<1>2. /\ k \in DOMAIN menu.list /\ menu.list[k] \in DishSet /\ menu.list[k].id = id /\ id \in IdSet
      /\ menu.there /\ id # NoId /\ menu.list \in Seq(DishSet) /\ MirrorRows(mirror)
  BY PlaceIs, MenuBears DEF MenuInv, MenuType
<1> DEFINE set == [cat |-> menu.list[k].cat, off |-> off]
           f   == [op |-> "update", id |-> id, set |-> set]
           d   == [menu.list[k] EXCEPT !.off = off]
           m   == [menu.list EXCEPT ![k] = d]
<1>3. /\ d \in DishSet /\ d.id = id /\ d.tag = menu.list[k].tag /\ d.name = menu.list[k].name
      /\ d.off = off
  BY <1>2 DEF DishSet
<1>4. set \in Sets /\ "name" \notin DOMAIN set /\ "off" \in DOMAIN set /\ set.off = off
  BY <1>2 DEF Sets, DishSet
<1>5. f \in DishDone /\ f.op # "delete" /\ f.id = id /\ f.set = set
  <2> HIDE DEF set
  <2> QED
    BY <1>2, <1>4 DEF DishDone
<1>6. AsksMenu(i, "86", "put", m, {f})
  BY <1>1
<1>m. m = [menu.list EXCEPT ![k] = d]
  OBVIOUS
<1> HIDE DEF set, f, d, m
<1>7. /\ m \in Seq(DishSet) /\ IdsOf(m) = IdsOf(menu.list) /\ (Twins(m) => Twins(menu.list))
      /\ \A x \in Range(m) : x = d \/ \E n \in DOMAIN menu.list \ {k} : x = menu.list[n]
  BY <1>2, <1>3, <1>m, InPlace
<1>8. Old(menu.list) => Old(m) /\ Bears(m) \subseteq Bears(menu.list)
  BY <1>2, <1>3, <1>m, BearsReplaced
<1>10. Suits(f, menu.list[k], d) /\ Changed(menu.list, k, d, m)
  BY <1>2, <1>3, <1>4, <1>5, <1>7 DEF Suits, Changed
<1>9. ASSUME LinesUp(menu.list, mirror) PROVE LinesUp(m, AfterDish(f, mirror))
  <2>1. ~Twins(m)
    BY <1>7, <1>9 DEF LinesUp
  <2> QED
    BY <1>2, <1>7, <1>9, <1>10, <1>5, <2>1, LinesUpSet
<1> QED
  BY <1>2, <1>5, <1>6, <1>7, <1>8, <1>9, DishAsks

LEMMA PutArrivesKeeps ==
  ASSUME MenuInv, AtMenu, NEW i \in Slots, NEW id \in IdsOf(menu.list) \ {NoId},
         NEW name \in DishNames, NEW cat \in Range(Categories),
         NEW set \in {[name |-> name], [cat |-> cat], [name |-> name, cat |-> cat]},
         PutArrives(i, id, set)
  PROVE  MenuInv'
<1> DEFINE f == [op |-> "update", id |-> id, set |-> set]
<1>1. PICK k \in Place(id) :
        LET d == menu.list[k]
            e == Edited(d, set)
        IN AsksMenu(i, "put", "put",
                    IF e.cat = d.cat THEN [menu.list EXCEPT ![k] = e]
                                     ELSE InOrder(Append(RemoveAt(menu.list, k), e)), {f})
  BY DEF PutArrives
<1> DEFINE d == menu.list[k]
           e == Edited(d, set)
           a == [menu.list EXCEPT ![k] = e]
           r == RemoveAt(menu.list, k)
           p == Append(r, e)
           b == InOrder(p)
           m == IF e.cat = d.cat THEN a ELSE b
<1>2. /\ k \in DOMAIN menu.list /\ d \in DishSet /\ d.id = id /\ id \in IdSet
      /\ menu.there /\ id # NoId /\ menu.list \in Seq(DishSet) /\ MirrorRows(mirror)
  BY PlaceIs, MenuBears DEF MenuInv, MenuType
<1>3. /\ set \in Sets /\ "off" \notin DOMAIN set
      /\ "cat" \in DOMAIN set => set.cat \in Range(Categories)
      /\ "name" \in DOMAIN set => set.name \in STRING
  <2>1. name \in STRING
    BY MenuAssumption
  <2> QED
    BY <2>1 DEF Sets
<1> HIDE DEF d
<1>4. /\ e \in DishSet /\ e.id = id /\ e.tag = d.tag /\ (e.off => d.off)
      /\ IF "name" \in DOMAIN set THEN e.name \in {set.name, ""} ELSE e.name \in {d.name, ""}
  <2>1. d.cat \in Range(Categories) /\ d.name \in STRING /\ d.off \in BOOLEAN /\ d.tag \in Nat \ {0}
    BY <1>2 DEF DishSet
  <2>2. "" \in STRING
    BY MenuAssumption
  <2>3. CASE "cat" \in DOMAIN set /\ set.cat # d.cat
    <3> DEFINE n == IF "name" \in DOMAIN set THEN set.name ELSE ""
    <3>1. e = Dish(d.id, set.cat, n, FALSE, d.tag)
      BY <2>3 DEF Edited
    <3>2. n \in STRING /\ set.cat \in Range(Categories)
      BY <1>3, <2>2, <2>3
    <3> HIDE DEF n, e
    <3>3. /\ e \in DishSet /\ e.id = d.id /\ e.tag = d.tag /\ e.name = n /\ e.off = FALSE
      BY <1>2, <2>1, <3>1, <3>2 DEF Dish, DishSet
    <3> QED
      BY <1>2, <3>3 DEF n
  <2>4. CASE ~("cat" \in DOMAIN set /\ set.cat # d.cat) /\ "name" \in DOMAIN set
    <3>1. e = [d EXCEPT !.name = set.name]
      BY <2>4 DEF Edited
    <3> HIDE DEF e
    <3> QED
      BY <1>2, <1>3, <2>4, <3>1 DEF DishSet
  <2>5. CASE ~("cat" \in DOMAIN set /\ set.cat # d.cat) /\ "name" \notin DOMAIN set
    <3>1. e = d
      BY <2>5 DEF Edited
    <3> HIDE DEF e
    <3> QED
      BY <1>2, <2>5, <3>1
  <2> QED
    BY <2>3, <2>4, <2>5
<1>5. f \in DishDone /\ f.op # "delete" /\ f.id = id /\ f.set = set
  BY <1>2, <1>3 DEF DishDone
<1>6. AsksMenu(i, "put", "put", m, {f})
  BY <1>1 DEF d
<1> HIDE DEF f, e
<1>7. /\ m \in Seq(DishSet) /\ IdsOf(m) = IdsOf(menu.list)
      /\ LinesUp(menu.list, mirror) => ~Twins(m)
      /\ \A x \in Range(m) : x = e \/ \E n \in DOMAIN menu.list \ {k} : x = menu.list[n]
      /\ Old(menu.list) => Old(m) /\ Bears(m) \subseteq Bears(menu.list)
  <2>1. CASE e.cat = d.cat
    <3>0. e.id = menu.list[k].id /\ a = [menu.list EXCEPT ![k] = e]
      BY <1>2, <1>4 DEF d
    <3> HIDE DEF a
    <3>1. /\ a \in Seq(DishSet) /\ IdsOf(a) = IdsOf(menu.list) /\ (Twins(a) => Twins(menu.list))
          /\ \A x \in Range(a) : x = e \/ \E n \in DOMAIN menu.list \ {k} : x = menu.list[n]
      <4>1. menu.list \in Seq(DishSet) /\ k \in DOMAIN menu.list /\ e \in DishSet
        BY <1>2, <1>4
      <4> QED
        BY <3>0, <4>1, InPlace
    <3>2. Old(menu.list) => Old(a) /\ Bears(a) \subseteq Bears(menu.list)
      BY <1>2, <1>4, <3>0, BearsReplaced DEF d
    <3>3. m = a
      BY <2>1 DEF a
    <3> HIDE DEF m
    <3> QED
      BY <3>1, <3>2, <3>3 DEF LinesUp
  <2>2. CASE e.cat # d.cat
    <3>1. /\ r \in Seq(DishSet) /\ Range(r) = {menu.list[n] : n \in DOMAIN menu.list \ {k}}
          /\ IdsOf(r) = {menu.list[n].id : n \in DOMAIN menu.list \ {k}}
          /\ Twins(r) => Twins(menu.list)
      BY <1>2, DishRemoved
    <3>2. Old(menu.list) => Old(r) /\ Bears(r) \subseteq Bears(menu.list)
      BY <1>2, BearsRemoved DEF d
    <3> HIDE DEF r
    <3>3. /\ p \in Seq(DishSet) /\ Range(p) = Range(r) \cup {e} /\ IdsOf(p) = IdsOf(r) \cup {e.id}
          /\ Twins(p) => Twins(r) \/ e.id \in IdsOf(r)
      BY <1>4, <3>1, DishAppended
    <3>4. Old(menu.list) => Old(p) /\ Bears(p) \subseteq Bears(menu.list)
      <4> SUFFICES ASSUME Old(menu.list) PROVE Old(p) /\ Bears(p) \subseteq Bears(menu.list)
        OBVIOUS
      <4>1. IdsOf(p) = IdsOf(menu.list)
        BY <1>2, <1>4, <3>1, <3>3 DEF IdsOf, d
      <4>2. e.id \in Randoms \/ Full(r)
        <5>1. CASE NoId \in IdsOf(menu.list)
          <6>1. id \in Randoms
            BY <1>2, <5>1 DEF Old, IdsOf, d
          <6> QED
            BY <1>4, <6>1
        <5>2. CASE NoId \notin IdsOf(menu.list)
          BY <4>1, <3>3, <5>2 DEF Full
        <5> QED
          BY <5>1, <5>2
      <4>3. Old(p) /\ Bears(p) \subseteq Bears(r) \cup {[dish |-> e.tag, id |-> e.id]}
        BY <1>2, <1>4, <3>1, <3>2, <4>2, BearsAppended
      <4>4. [dish |-> e.tag, id |-> e.id] \in Bears(menu.list)
        BY <1>2, <1>4, BearsHas DEF d
      <4> QED
        BY <3>2, <4>3, <4>4
    <3> HIDE DEF p
    <3>5. b \in Seq(DishSet) /\ Range(b) = Range(p) /\ IdsOf(b) = IdsOf(p) /\ (Twins(b) <=> Twins(p))
      BY <3>3, SortedIs
    <3>6. Old(p) => Old(b) /\ Bears(b) \subseteq Bears(p)
      BY <3>3, BearsSorted
    <3> HIDE DEF b
    <3>7. IdsOf(b) = IdsOf(menu.list)
      BY <1>2, <1>4, <3>1, <3>3, <3>5 DEF IdsOf, d
    <3>8. ASSUME LinesUp(menu.list, mirror) PROVE ~Twins(b)
      <4>1. ~Twins(menu.list)
        BY <3>8 DEF LinesUp
      <4>2. e.id \notin IdsOf(r)
        <5>1. \A n \in DOMAIN menu.list \ {k} : menu.list[n].id # id
          BY <1>2, <4>1 DEF Twins, d
        <5> QED
          BY <1>4, <3>1, <5>1
      <4> QED
        BY <3>1, <3>3, <3>5, <4>1, <4>2
    <3>9. \A x \in Range(b) : x = e \/ \E n \in DOMAIN menu.list \ {k} : x = menu.list[n]
      BY <3>1, <3>3, <3>5
    <3>10. m = b
      BY <2>2
    <3>11. Old(menu.list) => Old(b) /\ Bears(b) \subseteq Bears(menu.list)
      BY <3>4, <3>6
    <3> HIDE DEF m
    <3> QED
      BY <3>5, <3>7, <3>8, <3>9, <3>10, <3>11
  <2> QED
    BY <2>1, <2>2
<1> HIDE DEF m
<1>9. Suits(f, menu.list[k], e) /\ Changed(menu.list, k, e, m)
  BY <1>2, <1>3, <1>4, <1>5, <1>7 DEF Suits, Changed, d
<1>8. LinesUp(menu.list, mirror) => LinesUp(m, AfterDish(f, mirror))
  BY <1>2, <1>5, <1>7, <1>9, LinesUpSet
<1> QED
  BY <1>2, <1>5, <1>6, <1>7, <1>8, DishAsks
-----------------------------------------------------------------------------
(* Requests go on.                                                         *)

\* What a request is at each step.
LEMMA RequestIs ==
  ASSUME MenuInv, AtMenu, NEW i \in Slots
  PROVE  /\ DOMAIN req[i] = DOMAIN FreeSlot /\ req[i].key = House /\ req[i].new \in Seq(DishSet)
         /\ MenuType /\ MirrorRows(mirror)
         /\ At(i, "rebuild") => req[i].op \in {"read", "add"} /\ req[i].todo = {}
         /\ At(i, "first") => /\ req[i].op = "add" /\ req[i].todo = {}
                              /\ Len(req[i].new) = 1 /\ Full(req[i].new)
         /\ At(i, "edit") => req[i].op = "edit" /\ Full(req[i].new)
         /\ At(i, "adopt") => req[i].op = "repair"
         /\ At(i, "put") /\ req[i].todo # {} =>
              \/ req[i].op \in {"edit", "add"} /\ req[i].todo = All
              \/ req[i].op \in {"86", "put", "delete"} /\ \E f \in DishDone : req[i].todo = {f}
         /\ At(i, "follow") =>
              \/ req[i].op \in {"edit", "add"} /\ req[i].todo = All
              \/ req[i].op \in {"86", "put", "delete"} /\ \E f \in DishDone : req[i].todo = {f}
         /\ At(i, "rows") => req[i].op \in {"edit", "add"} /\ req[i].row \in 1 .. Len(req[i].new) + 1
         /\ Standing(req[i]) => /\ Bears(req[i].new) \subseteq Borne
                                /\ served # {} => Old(req[i].new) /\ (Rebuilding => Full(req[i].new))
<1>1. MenuType /\ MirrorRows(mirror)
  BY DEF MenuInv, MenuType
<1>2. /\ DOMAIN req[i] = DOMAIN FreeSlot /\ req[i].key = House /\ req[i].new \in Seq(DishSet)
      /\ InMenu(req[i])
  BY <1>1 DEF MenuType
<1>3. FreeSlot.pc = "free"
  BY DEF FreeSlot
<1>4. /\ At(i, "rebuild") => req[i].op \in {"read", "add"} /\ req[i].todo = {}
      /\ At(i, "first") => /\ req[i].op = "add" /\ req[i].todo = {}
                           /\ Len(req[i].new) = 1 /\ Full(req[i].new)
      /\ At(i, "edit") => req[i].op = "edit" /\ Full(req[i].new)
      /\ At(i, "adopt") => req[i].op = "repair"
      /\ At(i, "rows") => req[i].op \in {"edit", "add"} /\ req[i].row \in 1 .. Len(req[i].new) + 1
  BY <1>2, <1>3 DEF InMenu, At
<1>5. /\ At(i, "put") /\ req[i].todo # {} =>
              \/ req[i].op \in {"edit", "add"} /\ req[i].todo = All
              \/ req[i].op \in {"86", "put", "delete"} /\ \E f \in DishDone : req[i].todo = {f}
      /\ At(i, "follow") =>
              \/ req[i].op \in {"edit", "add"} /\ req[i].todo = All
              \/ req[i].op \in {"86", "put", "delete"} /\ \E f \in DishDone : req[i].todo = {f}
  BY <1>2, <1>3 DEF InMenu, At
<1>6. Standing(req[i]) => Bears(req[i].new) \subseteq Borne
  BY <1>1, BorneIs DEF BorneBy
<1>7. Standing(req[i]) /\ served # {} => Old(req[i].new) /\ (Rebuilding => Full(req[i].new))
  BY DEF MenuInv, Keeping
<1> QED
  BY <1>1, <1>2, <1>4, <1>5, <1>6, <1>7

\* What is borne already.
LEMMA BorneAlready ==
  ASSUME MenuInv, AtMenu
  PROVE  /\ served \subseteq Borne /\ Bears(menu.list) \subseteq Borne
         /\ Rebuilding => \A e \in mirror : [dish |-> e.tag, id |-> e.id] \in Borne
         /\ served # {} => Old(menu.list) /\ (Rebuilding => Full(menu.list))
BY BorneIs, MenuBears DEF MenuInv, BorneBy

\* A step that leaves r in slot i leaves, of the rows, what r has to do, ...
Advances(i, r) ==
  House \notin torn /\ counts.cut = <<>> /\ Has(req[i], menu, mirror, aligned)
    => Has(r, menu', mirror', aligned') /\ (r.pc = "free" => Resting(menu', mirror', aligned'))

\* ... and of the ids, what was borne, but for the new dish of F.
Carried(r, F) ==
  served # {} /\ served' # {} =>
    /\ Old(menu'.list) /\ Bears(menu'.list) \subseteq Borne
    /\ Standing(r) => Old(r.new) /\ Bears(r.new) \subseteq Borne \cup F
    /\ Rebuilding =>
         /\ Full(menu'.list) /\ (Standing(r) => Full(r.new))
         /\ \A e \in mirror' : [dish |-> e.tag, id |-> e.id] \in Borne

\* A step keeps what no step of its kind disturbs: the lists it leaves are served or borne.
LEMMA StepKeeps ==
  ASSUME MenuInv, AtMenu, NEW i \in Slots, ~At(i, "free"), UNCHANGED <<counts, torn>>,
         NEW r, Goes(i, r), DOMAIN r = DOMAIN FreeSlot, r.key = House, r.new \in Seq(DishSet), InMenu(r),
         menu'.there \in BOOLEAN, menu'.list \in Seq(DishSet), menu'.there = FALSE => menu' = menu,
         MirrorRows(mirror'), aligned' \in BOOLEAN,
         served' = served \/ served' = {} \/ \E list \in Seq(DishSet) : Serves(list) /\ Bears(list) \subseteq Borne,
         Advances(i, r), NEW F, Fresh(F), Carried(r, F),
         r.pc \in {"first", "rebuild"} => Rebuilding
  PROVE  MenuInv'
<1>0. MenuType /\ {"desk", "cut"} \subseteq DOMAIN counts
  BY DEF MenuInv, MenuType
<1>1. IsFiniteSet(served') /\ served' \subseteq [dish : Nat, id : IdSet]
  <2>1. CASE served' = served
    BY <1>0, <2>1 DEF MenuType
  <2>2. CASE served' = {}
    BY <2>2, FS_EmptySet
  <2>3. CASE \E list \in Seq(DishSet) : Serves(list)
    BY <1>0, <2>3, ServesType
  <2> QED
    BY <2>1, <2>2, <2>3
<1>2. MenuType'
  <2>1. ~menu'.there => menu'.list = <<>>
    BY <1>0 DEF MenuType
  <2> QED
    BY <1>0, <1>1, <2>1, TypeGoes
<1>3. Mirroring'
  BY MirrorGoes DEF Advances
<1>4. Keeping'
  <2>1. AtMenu'
    BY DEF AtMenu
  <2>2. Single(F) /\ (served # {} => \A x \in F, y \in Borne : x.dish # y.dish)
    BY DEF Fresh
  <2>3. served' # {} => served # {}
    BY DEF Serves
  <2>4. ASSUME served' # {}
        PROVE  /\ served' \subseteq Borne \cup F
               /\ Old(menu'.list) /\ Bears(menu'.list) \subseteq Borne \cup F
               /\ Standing(r) => Old(r.new) /\ Bears(r.new) \subseteq Borne \cup F
               /\ Rebuilding' =>
                    /\ Rebuilding /\ Full(menu'.list) /\ (Standing(r) => Full(r.new))
                    /\ \A e \in mirror' : [dish |-> e.tag, id |-> e.id] \in Borne \cup F
    <3>1. Rebuilding' => Rebuilding
      <4>1. \A j \in Slots : req'[j] = IF j = i THEN r ELSE req[j]
        BY <1>0 DEF Goes, MenuType
      <4> QED
        BY <4>1 DEF Rebuilding
    <3>2. served \subseteq Borne
      BY BorneAlready
    <3> HIDE DEF Borne
    <3>3. served' \subseteq Borne
      <4>1. CASE served' = served
        BY <3>2, <4>1
      <4>2. CASE \E list \in Seq(DishSet) : Serves(list) /\ Bears(list) \subseteq Borne
        <5>1. PICK list \in Seq(DishSet) : Serves(list) /\ Bears(list) \subseteq Borne
          BY <4>2
        <5>2. {x \in Ids(list) : x.id # NoId} \subseteq Bears(list)
          BY BearsHas
        <5> QED
          BY <3>2, <5>1, <5>2 DEF Serves
      <4> QED
        BY <2>4, <4>1, <4>2
    <3> QED
      BY <2>3, <2>4, <3>1, <3>3 DEF Carried
  <2> HIDE DEF Fresh
  <2> QED
    BY <2>1, <2>2, <2>3, <2>4, KeepGoes
<1> QED
  BY <1>2, <1>3, <1>4 DEF MenuInv
LEMMA RebuildsKeeps ==
  ASSUME MenuInv, AtMenu, NEW i \in Slots, Rebuilds(i) PROVE MenuInv'
<1> DEFINE list == InOrder(SetToSeq(mirror))
           r    == [Step(i, "put") EXCEPT !.new = list]
<1>1. /\ At(i, "rebuild") /\ Goes(i, r) /\ UNCHANGED <<counts, torn, menu, mirror, aligned>>
      /\ served' = served \/ Serves(list)
  BY DEF Rebuilds
<1>2. /\ DOMAIN req[i] = DOMAIN FreeSlot /\ req[i].key = House /\ MirrorRows(mirror) /\ MenuType
      /\ req[i].op \in {"read", "add"} /\ req[i].todo = {}
  BY <1>1, RequestIs
<1>3. /\ list \in Seq(DishSet) /\ Range(list) = mirror /\ Full(list)
  BY <1>2, RebuiltIs
<1> HIDE DEF list
<1>4. /\ DOMAIN r = DOMAIN FreeSlot /\ r.key = House /\ r.op \in {"read", "add"} /\ r.pc = "put"
      /\ r.new = list /\ r.todo = {}
  BY <1>2, RequestEdited DEF Step
<1> HIDE DEF r
<1>5. InMenu(r) /\ All # {} /\ ~At(i, "free")
  BY <1>1, <1>4, TodoApart DEF InMenu, At
<1>6. Has(req[i], menu, mirror, aligned) => Has(r, menu, mirror, aligned) /\ r.pc # "free"
  BY <1>1, <1>3, <1>4, <1>5 DEF Has, At
<1>7. Rebuilding
  BY <1>1 DEF Rebuilding, At
<1>8. /\ \A e \in mirror : [dish |-> e.tag, id |-> e.id] \in Borne
      /\ Bears(menu.list) \subseteq Borne
      /\ served # {} => Old(menu.list) /\ Full(menu.list)
  BY <1>7, BorneAlready
<1>9. Old(list) /\ Bears(list) \subseteq Borne
  <2>1. Old(list) /\ Bears(list) = Ids(list)
    BY <1>3, BearsFull
  <2>2. \A k \in DOMAIN list : list[k] \in mirror
    BY <1>3 DEF Range
  <2> HIDE DEF Borne
  <2> QED
    BY <1>8, <2>1, <2>2 DEF Ids
<1>10. /\ menu'.there \in BOOLEAN /\ menu'.list \in Seq(DishSet) /\ (menu'.there = FALSE => menu' = menu)
       /\ MirrorRows(mirror') /\ aligned' \in BOOLEAN
  BY <1>1, <1>2 DEF MenuType
<1>11. served' = served \/ served' = {} \/ \E l \in Seq(DishSet) : Serves(l) /\ Bears(l) \subseteq Borne
  BY <1>1, <1>3, <1>9
<1> HIDE DEF Borne
<1>12. Carried(r, {})
  BY <1>1, <1>3, <1>4, <1>8, <1>9 DEF Carried
<1>13. Advances(i, r)
  BY <1>1, <1>6 DEF Advances
<1>14. r.new \in Seq(DishSet) /\ (r.pc \in {"first", "rebuild"} => Rebuilding)
  BY <1>3, <1>4
<1> QED
  BY <1>1, <1>4, <1>5, <1>10, <1>11, <1>12, <1>13, <1>14, NoneFresh, StepKeeps

LEMMA InsertsFirstKeeps ==
  ASSUME MenuInv, AtMenu, NEW i \in Slots, InsertsFirst(i) PROVE MenuInv'
<1> DEFINE r == Step(i, "rebuild")
           d == req[i].new[1]
           e == AsInserted(d)
<1>1. /\ At(i, "first") /\ Goes(i, r) /\ UNCHANGED <<counts, torn, menu, aligned, served>>
      /\ mirror' = mirror \cup {e}
  BY DEF InsertsFirst
<1>2. /\ DOMAIN req[i] = DOMAIN FreeSlot /\ req[i].key = House /\ MirrorRows(mirror) /\ MenuType
      /\ req[i].op = "add" /\ req[i].todo = {} /\ Len(req[i].new) = 1 /\ Full(req[i].new)
      /\ req[i].new \in Seq(DishSet)
  BY <1>1, RequestIs
<1>3. 1 \in DOMAIN req[i].new /\ d \in DishSet
  BY <1>2
<1>4. d.id # NoId
  BY <1>2, <1>3 DEF Full, IdsOf
<1>5. e \in DishSet /\ e.id = d.id /\ e.tag = d.tag
  BY <1>3 DEF AsInserted, DishSet
<1>6. /\ DOMAIN r = DOMAIN FreeSlot /\ r.key = House /\ r.op = "add" /\ r.pc = "rebuild"
      /\ r.new = req[i].new /\ r.todo = {}
  BY <1>2, RequestEdited DEF Step
<1> HIDE DEF r, e
<1>7. MirrorRows(mirror')
  <2>1. IsFiniteSet(mirror) /\ IsFiniteSet({e})
    BY <1>2, FS_Singleton DEF MirrorRows
  <2>2. IsFiniteSet(mirror')
    BY <1>1, <2>1, FS_Union
  <2> QED
    BY <1>1, <1>2, <1>4, <1>5, <2>2 DEF MirrorRows
<1>8. InMenu(r) /\ ~At(i, "free")
  BY <1>1, <1>6 DEF InMenu, At
<1>9. Advances(i, r)
  BY <1>1, <1>6 DEF Has, At, Advances
<1>10. Rebuilding
  BY <1>1 DEF Rebuilding, At
<1>11. /\ \A x \in mirror : [dish |-> x.tag, id |-> x.id] \in Borne
       /\ Bears(menu.list) \subseteq Borne
       /\ served # {} => Old(menu.list) /\ Full(menu.list)
  BY <1>10, BorneAlready
<1>12. Standing(req[i]) /\ Bears(req[i].new) \subseteq Borne /\ (served # {} => Old(req[i].new))
  <2>1. Standing(req[i])
    BY <1>2 DEF Standing
  <2> QED
    BY <2>1, RequestIs
<1>13. [dish |-> e.tag, id |-> e.id] \in Bears(req[i].new)
  BY <1>2, <1>3, <1>4, <1>5, BearsHas
<1> HIDE DEF Borne, d
<1>14. Carried(r, {})
  BY <1>1, <1>2, <1>6, <1>11, <1>12, <1>13 DEF Carried
<1>15. /\ menu'.there \in BOOLEAN /\ menu'.list \in Seq(DishSet) /\ (menu'.there = FALSE => menu' = menu)
       /\ aligned' \in BOOLEAN /\ r.new \in Seq(DishSet)
  BY <1>1, <1>2, <1>6 DEF MenuType
<1> QED
  BY <1>1, <1>6, <1>7, <1>8, <1>9, <1>10, <1>14, <1>15, NoneFresh, StepKeeps

LEMMA AdoptsKeeps ==
  ASSUME MenuInv, AtMenu, NEW i \in Slots, Adopts(i) PROVE MenuInv'
<1> DEFINE list == Backfilled(req[i].new, req[i].todo # {})
           q    == [Step(i, "put") EXCEPT !.new = list, !.todo = {}]
<1>1. /\ At(i, "adopt") /\ UNCHANGED <<counts, torn, menuRows>>
      /\ Goes(i, FreeSlot) \/ Goes(i, q)
  BY DEF Adopts, Answers
<1>2. /\ DOMAIN req[i] = DOMAIN FreeSlot /\ req[i].key = House /\ MirrorRows(mirror) /\ MenuType
      /\ req[i].op = "repair" /\ req[i].new \in Seq(DishSet)
  BY <1>1, RequestIs
<1>3. list \in Seq(DishSet)
  BY <1>2, BackfilledIs
<1> HIDE DEF list
<1>4. /\ DOMAIN q = DOMAIN FreeSlot /\ q.key = House /\ q.op = "repair" /\ q.pc = "put"
      /\ q.new = list /\ q.todo = {}
  BY <1>2, RequestEdited DEF Step
<1> HIDE DEF q
<1>5. InMenu(q) /\ ~At(i, "free") /\ ~Standing(q) /\ All # {}
  BY <1>1, <1>4, TodoApart DEF InMenu, At, Standing
<1>6. PICK r \in {FreeSlot, q} : Goes(i, r)
  BY <1>1
<1>7. /\ DOMAIN r = DOMAIN FreeSlot /\ r.key = House /\ r.new \in Seq(DishSet) /\ InMenu(r)
      /\ Standing(r) => Old(r.new) /\ Full(r.new) /\ Bears(r.new) = {}
      /\ r.pc \notin {"first", "rebuild"}
  BY <1>3, <1>4, <1>5, <1>6, FreeInMenu
<1>8. Has(req[i], menu, mirror, aligned) => Has(r, menu, mirror, aligned) /\ Resting(menu, mirror, aligned)
  <2>1. Has(req[i], menu, mirror, aligned) => Resting(menu, mirror, aligned)
    BY <1>1 DEF Has, At
  <2>2. Has(q, menu, mirror, aligned)
    BY <1>4, <1>5 DEF Has
  <2> QED
    BY <1>6, <2>1, <2>2, FreeInMenu
<1>9. menu' = menu /\ mirror' = mirror /\ aligned' = aligned /\ served' = served
  BY <1>1 DEF menuRows
<1>10. /\ Rebuilding => \A e \in mirror : [dish |-> e.tag, id |-> e.id] \in Borne
       /\ Bears(menu.list) \subseteq Borne
       /\ served # {} => Old(menu.list) /\ (Rebuilding => Full(menu.list))
  BY BorneAlready
<1> HIDE DEF Borne
<1>11. Carried(r, {})
  BY <1>7, <1>9, <1>10 DEF Carried
<1>12. /\ menu'.there \in BOOLEAN /\ menu'.list \in Seq(DishSet) /\ (menu'.there = FALSE => menu' = menu)
       /\ MirrorRows(mirror') /\ aligned' \in BOOLEAN
  BY <1>2, <1>9 DEF MenuType
<1>13. Advances(i, r)
  BY <1>8, <1>9 DEF Advances
<1> QED
  BY <1>1, <1>5, <1>6, <1>7, <1>9, <1>11, <1>12, <1>13, NoneFresh, StepKeeps

LEMMA PutsKeeps ==
  ASSUME MenuInv, AtMenu, NEW i \in Slots, Puts(i) PROVE MenuInv'
<1> DEFINE list == req[i].new
           q    == Step(i, "follow")
<1>1. /\ At(i, "put") /\ UNCHANGED <<mirror, counts, torn>>
      /\ menu' = [there |-> TRUE, list |-> list]
      /\ aligned' = ((aligned \/ ~menu.there) /\ req[i].op # "repair" /\ ~Twins(list))
      /\ IF req[i].op = "repair" THEN served' = {} ELSE Serves(list)
      /\ IF req[i].todo = {} THEN Goes(i, FreeSlot) ELSE Goes(i, q)
  BY DEF Puts, Answers
<1>2. /\ DOMAIN req[i] = DOMAIN FreeSlot /\ req[i].key = House /\ MirrorRows(mirror) /\ MenuType
      /\ list \in Seq(DishSet)
      /\ req[i].todo # {} =>
              \/ req[i].op \in {"edit", "add"} /\ req[i].todo = All
              \/ req[i].op \in {"86", "put", "delete"} /\ \E f \in DishDone : req[i].todo = {f}
  BY <1>1, RequestIs
<1>3. /\ DOMAIN q = DOMAIN FreeSlot /\ q.key = House /\ q.op = req[i].op /\ q.pc = "follow"
      /\ q.new = list /\ q.todo = req[i].todo
  BY <1>2, RequestEdited DEF Step
<1> HIDE DEF q
<1>4. menu'.there = TRUE /\ menu'.list = list /\ aligned' \in BOOLEAN
  BY <1>1
<1>5. req[i].todo # {} => InMenu(q)
  <2>1. CASE req[i].op \in {"edit", "add"} /\ req[i].todo = All
    BY <1>3, <2>1 DEF InMenu
  <2>2. CASE req[i].op \in {"86", "put", "delete"} /\ \E f \in DishDone : req[i].todo = {f}
    BY <1>3, <2>2 DEF InMenu
  <2> QED
    BY <1>2, <2>1, <2>2
<1> DEFINE r == IF req[i].todo = {} THEN FreeSlot ELSE q
<1>6. Goes(i, r) /\ ~At(i, "free")
  BY <1>1 DEF At
<1>7. /\ DOMAIN r = DOMAIN FreeSlot /\ r.key = House /\ r.new \in Seq(DishSet) /\ InMenu(r)
      /\ r.pc \in {"free", "follow"}
  BY <1>2, <1>3, <1>5, FreeInMenu
<1>8. r.new = list \/ (r.new = <<>> /\ Old(r.new) /\ Full(r.new) /\ Bears(r.new) = {})
  BY <1>3, FreeInMenu
<1>9. ASSUME Has(req[i], menu, mirror, aligned)
      PROVE  Has(r, menu', mirror', aligned') /\ (r.pc = "free" => Resting(menu', mirror', aligned'))
  <2>1. CASE req[i].todo = {}
    <3>1. r = FreeSlot
      BY <2>1
    <3>2. \/ req[i].op = "repair"
          \/ menu.there /\ ~aligned
          \/ ~menu.there /\ Range(list) = mirror
      BY <1>1, <1>9, <2>1 DEF Has, At
    <3>3. ASSUME ~menu.there, Range(list) = mirror, ~Twins(list) PROVE LinesUp(list, mirror)
      <4>1. NoId \notin IdsOf(list) /\ IdsOf(list) = {e.id : e \in mirror}
        <5>1. \A k \in DOMAIN list : list[k] \in mirror
          BY <3>3 DEF Range
        <5>2. \A e \in mirror : \E k \in DOMAIN list : list[k] = e
          BY <3>3 DEF Range
        <5> QED
          BY <1>2, <5>1, <5>2 DEF IdsOf, MirrorRows
      <4>2. ASSUME NEW d \in Range(list), NEW e \in mirror, d.id = e.id PROVE d = e
        <5>1. PICK j, k \in DOMAIN list : list[j] = d /\ list[k] = e
          BY <3>3, <4>2 DEF Range
        <5>2. e.id # NoId
          BY <1>2 DEF MirrorRows
        <5> QED
          BY <3>3, <4>2, <5>1, <5>2 DEF Twins
      <4> QED
        BY <3>3, <4>1, <4>2 DEF LinesUp
    <3>4. aligned' => ~menu.there /\ Range(list) = mirror /\ ~Twins(list)
      BY <1>1, <3>2
    <3>5. Resting(menu', mirror', aligned')
      BY <1>1, <1>4, <3>3, <3>4 DEF Resting
    <3> QED
      BY <3>1, <3>5, FreeInMenu
  <2>2. CASE req[i].todo = All /\ All # {}
    <3>1. r = q
      BY <2>2
    <3>2. menu.there /\ (aligned => Full(list))
      BY <1>1, <1>9, <2>2 DEF Has, At
    <3>3. aligned' => Full(list) /\ ~Twins(list)
      BY <1>1, <3>2
    <3> QED
      BY <1>3, <1>4, <2>2, <3>1, <3>3 DEF Has
  <2>3. CASE \E f \in DishDone : req[i].todo = {f}
    <3>1. r = q /\ req[i].todo \notin {{}, All}
      BY <2>3, TodoApart
    <3>2. menu.there /\ (aligned => \A f \in req[i].todo : LinesUp(list, AfterDish(f, mirror)))
      BY <1>1, <1>9, <3>1 DEF Has, At
    <3>3. aligned' => \A f \in req[i].todo : LinesUp(list, AfterDish(f, mirror'))
      BY <1>1, <3>2
    <3> QED
      BY <1>3, <1>4, <3>1, <3>3 DEF Has
  <2> QED
    BY <1>2, <2>1, <2>2, <2>3, TodoApart
<1> HIDE DEF r
<1>10. /\ Rebuilding => \A e \in mirror : [dish |-> e.tag, id |-> e.id] \in Borne
  BY BorneAlready
<1>11. req[i].op # "repair" =>
         Bears(list) \subseteq Borne /\ (served # {} => Old(list) /\ (Rebuilding => Full(list)))
  <2>1. req[i].op # "repair" => Standing(req[i])
    BY DEF Standing
  <2> QED
    BY <2>1, RequestIs
<1> HIDE DEF Borne
<1>12. Carried(r, {})
  BY <1>1, <1>4, <1>8, <1>10, <1>11 DEF Carried
<1>13. served' = {} \/ \E l \in Seq(DishSet) : Serves(l) /\ Bears(l) \subseteq Borne
  BY <1>1, <1>2, <1>11
<1>14. /\ menu'.there \in BOOLEAN /\ menu'.list \in Seq(DishSet) /\ (menu'.there = FALSE => menu' = menu)
       /\ MirrorRows(mirror') /\ r.pc \notin {"first", "rebuild"}
  BY <1>1, <1>2, <1>4, <1>7
<1>15. Advances(i, r)
  BY <1>9 DEF Advances
<1> QED
  BY <1>1, <1>4, <1>6, <1>7, <1>12, <1>13, <1>14, <1>15, NoneFresh, StepKeeps

\* A list gets one dish at most that is not of the list, and that one has no id yet.
OneNew(list, m, t) ==
  /\ \A n, k \in DOMAIN m : m[n].id = NoId /\ m[k].id = NoId => n = k
  /\ \A n \in DOMAIN m : \/ m[n].id = NoId /\ m[n].tag = t
                         \/ m[n].id # NoId /\ \E k \in DOMAIN list : m[n] = list[k]

LEMMA OneNewBears ==
  ASSUME NEW list \in Seq(DishSet), Full(list), NEW m \in Seq(DishSet), NEW t, OneNew(list, m, t)
  PROVE  \E z : Bears(m) \subseteq Bears(list) \cup {[dish |-> t, id |-> z]}
<1> DEFINE e == EnsureMenuIds(m)
           z == e[CHOOSE n \in DOMAIN m : m[n].id = NoId].id
<1>1. /\ DOMAIN e = DOMAIN m
      /\ \A n \in DOMAIN m : e[n].tag = m[n].tag /\ (m[n].id # NoId => e[n] = m[n])
  BY EnsureKeeps
<1>2. Bears(list) = Ids(list)
  BY BearsFull
<1>3. Bears(m) = {[dish |-> e[n].tag, id |-> e[n].id] : n \in DOMAIN m}
  BY <1>1 DEF Bears, Ids
<1>4. ASSUME NEW n \in DOMAIN m, m[n].id = NoId PROVE e[n].id = z /\ e[n].tag = t
  <2>1. \A k \in DOMAIN m : m[k].id = NoId => k = n
    BY <1>4 DEF OneNew
  <2>2. (CHOOSE k \in DOMAIN m : m[k].id = NoId) = n
    BY <1>4, <2>1
  <2>3. m[n].tag = t
    BY <1>4 DEF OneNew
  <2> QED
    BY <1>1, <2>2, <2>3
<1> HIDE DEF z, e
<1>5. ASSUME NEW n \in DOMAIN m, m[n].id # NoId PROVE [dish |-> e[n].tag, id |-> e[n].id] \in Ids(list)
  <2>1. PICK k \in DOMAIN list : m[n] = list[k]
    BY <1>5 DEF OneNew
  <2> QED
    BY <1>1, <1>5, <2>1 DEF Ids
<1>6. Bears(m) \subseteq Bears(list) \cup {[dish |-> t, id |-> z]}
  BY <1>2, <1>3, <1>4, <1>5
<1> QED
  BY <1>6

LEMMA OneNewSorted ==
  ASSUME NEW list \in Seq(DishSet), NEW m \in Seq(DishSet), NEW t, OneNew(list, m, t)
  PROVE  OneNew(list, InOrder(m), t)
<1>1. PICK at : Sorts(m, InOrder(m), at)
  BY InOrderIs
<1> DEFINE s == InOrder(m)
<1> HIDE DEF s
<1>2. /\ DOMAIN s = DOMAIN m
      /\ \A n \in DOMAIN m : s[n] = m[at[n]] /\ at[n] \in DOMAIN m
      /\ \A n, k \in DOMAIN m : at[n] = at[k] => n = k
  BY <1>1 DEF Sorts, s
<1>3. ASSUME NEW n \in DOMAIN s, NEW k \in DOMAIN s, s[n].id = NoId, s[k].id = NoId PROVE n = k
  <2>1. at[n] \in DOMAIN m /\ at[k] \in DOMAIN m /\ m[at[n]].id = NoId /\ m[at[k]].id = NoId
    BY <1>2, <1>3
  <2>2. at[n] = at[k]
    BY <2>1 DEF OneNew
  <2> QED
    BY <1>2, <2>2
<1>4. ASSUME NEW n \in DOMAIN s
      PROVE  \/ s[n].id = NoId /\ s[n].tag = t
             \/ s[n].id # NoId /\ \E k \in DOMAIN list : s[n] = list[k]
  <2>1. at[n] \in DOMAIN m /\ s[n] = m[at[n]]
    BY <1>2
  <2> QED
    BY <2>1 DEF OneNew
<1>5. OneNew(list, s, t)
  BY <1>3, <1>4 DEF OneNew
<1> QED
  BY <1>5 DEF s

\* What an editor sends.
LEMMA PayloadIs ==
  ASSUME MenuInv, AtMenu, NEW i \in Slots, At(i, "edit"), NEW payload \in Edits(i)
  PROVE  payload \in Seq(DishSet) /\ OneNew(req[i].new, payload, Unused)
<1> DEFINE list   == req[i].new
           new(n) == Dish(NoId, Categories[1], n, FALSE, Unused)
<1>1. list \in Seq(DishSet) /\ Full(list) /\ MenuType
  BY RequestIs
<1>2. DOMAIN list = 1 .. Len(list) /\ Len(list) \in Nat /\ \A k \in DOMAIN list : list[k].id # NoId
  BY <1>1 DEF Full, IdsOf
<1>3. ASSUME NEW n \in DishNames PROVE new(n) \in DishSet /\ new(n).id = NoId /\ new(n).tag = Unused
  <2>1. Unused \in Nat \ {0}
    BY <1>1, UnusedIs
  <2>2. Categories[1] \in Range(Categories)
    <3>1. Categories \in Seq(STRING) /\ Other \in Range(Categories)
      BY MenuAssumption
    <3>2. DOMAIN Categories = 1 .. Len(Categories) /\ Len(Categories) \in Nat
      BY <3>1
    <3>3. 1 \in DOMAIN Categories
      BY <3>1, <3>2 DEF Range
    <3> QED
      BY <3>3 DEF Range
  <2>3. n \in STRING /\ NoId \in IdSet
    BY MenuAssumption, IdsApart
  <2> QED
    BY <2>1, <2>2, <2>3 DEF Dish, DishSet
<1> HIDE DEF list, new
<1>4. CASE payload = list
  BY <1>1, <1>2, <1>4 DEF OneNew, list
<1>5. ASSUME NEW k \in DOMAIN list, payload = RemoveAt(list, k)
      PROVE  payload \in Seq(DishSet) /\ OneNew(list, payload, Unused)
  <2>1. /\ payload \in Seq(DishSet) /\ DOMAIN payload = 1 .. Len(list) - 1
        /\ \A n \in 1 .. Len(list) - 1 : payload[n] = list[IF n < k THEN n ELSE n + 1]
    BY <1>1, <1>5, RemovedIs
  <2>2. \A n \in DOMAIN payload : \E j \in DOMAIN list : payload[n] = list[j]
    BY <1>2, <2>1
  <2> QED
    BY <1>2, <2>1, <2>2 DEF OneNew
<1>6. ASSUME NEW n \in DishNames, payload = InOrder(Append(list, new(n)))
      PROVE  payload \in Seq(DishSet) /\ OneNew(list, payload, Unused)
  <2> DEFINE m == Append(list, new(n))
  <2>1. /\ m \in Seq(DishSet) /\ DOMAIN m = 1 .. Len(list) + 1
        /\ \A k \in 1 .. Len(list) : m[k] = list[k]
        /\ m[Len(list) + 1] = new(n)
    BY <1>1, <1>3
  <2>2. payload = InOrder(m)
    BY <1>6
  <2> HIDE DEF m
  <2>3. OneNew(list, m, Unused)
    <3>1. \A k \in DOMAIN m : k \in DOMAIN list \/ k = Len(list) + 1
      BY <1>2, <2>1
    <3>2. \A k \in DOMAIN list : m[k] = list[k] /\ m[k].id # NoId
      BY <1>2, <2>1
    <3> QED
      BY <1>3, <2>1, <3>1, <3>2 DEF OneNew
  <2> QED
    BY <1>1, <2>1, <2>2, <2>3, OneNewSorted, SortedIs
<1>7. ASSUME NEW n \in DishNames, payload = InOrder(<<new(n)>> \o list)
      PROVE  payload \in Seq(DishSet) /\ OneNew(list, payload, Unused)
  <2> DEFINE m == <<new(n)>> \o list
  <2>1. /\ m \in Seq(DishSet) /\ DOMAIN m = 1 .. Len(list) + 1
        /\ \A k \in 2 .. Len(list) + 1 : m[k] = list[k - 1]
        /\ m[1] = new(n)
    BY <1>1, <1>3
  <2>2. payload = InOrder(m)
    BY <1>7
  <2> HIDE DEF m
  <2>3. OneNew(list, m, Unused)
    <3>1. \A k \in DOMAIN m : k = 1 \/ (k - 1 \in DOMAIN list /\ m[k] = list[k - 1])
      BY <1>2, <2>1
    <3> QED
      BY <1>2, <1>3, <2>1, <3>1 DEF OneNew
  <2> QED
    BY <1>1, <2>1, <2>2, <2>3, OneNewSorted, SortedIs
<1> QED
  BY <1>4, <1>5, <1>6, <1>7 DEF Edits, list, new

LEMMA SavesKeeps ==
  ASSUME MenuInv, AtMenu, NEW i \in Slots, NEW payload \in Edits(i), Saves(i, payload) PROVE MenuInv'
<1> DEFINE list == EnsureMenuIds(payload)
           r    == [Step(i, "put") EXCEPT !.new = list, !.todo = All]
<1>1. /\ At(i, "edit") /\ Goes(i, r) /\ UNCHANGED <<counts, torn>> /\ UNCHANGED menuRows
  BY DEF Saves
<1>2. /\ DOMAIN req[i] = DOMAIN FreeSlot /\ req[i].key = House /\ MirrorRows(mirror) /\ MenuType
      /\ req[i].op = "edit" /\ Full(req[i].new) /\ req[i].new \in Seq(DishSet)
  BY <1>1, RequestIs
<1>3. payload \in Seq(DishSet) /\ OneNew(req[i].new, payload, Unused)
  BY <1>1, PayloadIs
<1>4. /\ list \in Seq(DishSet) /\ Full(list) /\ Old(list)
      /\ Bears(list) = Bears(payload)
  BY <1>3, BearsEnsured
<1> HIDE DEF list
<1>5. PICK z : Bears(payload) \subseteq Bears(req[i].new) \cup {[dish |-> Unused, id |-> z]}
  BY <1>2, <1>3, OneNewBears
<1>6. /\ DOMAIN r = DOMAIN FreeSlot /\ r.key = House /\ r.op = "edit" /\ r.pc = "put"
      /\ r.new = list /\ r.todo = All
  BY <1>2, RequestEdited DEF Step
<1> HIDE DEF r
<1>7. InMenu(r) /\ All # {} /\ ~At(i, "free")
  BY <1>1, <1>6, TodoApart DEF InMenu, At
<1>8. Advances(i, r)
  <2>1. Has(req[i], menu, mirror, aligned) => menu.there
    BY <1>1 DEF Has, At
  <2> QED
    BY <1>1, <1>4, <1>6, <1>7, <2>1 DEF Has, menuRows, Advances
<1> DEFINE F == {[dish |-> Unused, id |-> z]}
<1>9. Fresh(F)
  BY UnusedFresh
<1>10. Bears(req[i].new) \subseteq Borne
  <2>1. Standing(req[i])
    BY <1>2 DEF Standing
  <2> QED
    BY <2>1, RequestIs
<1>11. /\ Rebuilding => \A e \in mirror : [dish |-> e.tag, id |-> e.id] \in Borne
       /\ Bears(menu.list) \subseteq Borne
       /\ served # {} => Old(menu.list) /\ (Rebuilding => Full(menu.list))
  BY BorneAlready
<1>12. menu' = menu /\ mirror' = mirror /\ aligned' = aligned /\ served' = served
  BY <1>1 DEF menuRows
<1>14. /\ menu'.there \in BOOLEAN /\ menu'.list \in Seq(DishSet) /\ (menu'.there = FALSE => menu' = menu)
       /\ MirrorRows(mirror') /\ aligned' \in BOOLEAN
  BY <1>2, <1>12 DEF MenuType
<1> HIDE DEF Borne, F
<1>13. Carried(r, F)
  BY <1>4, <1>5, <1>6, <1>10, <1>11, <1>12 DEF F, Carried
<1>15. r.new \in Seq(DishSet) /\ r.pc \notin {"first", "rebuild"}
  BY <1>4, <1>6
<1> QED
  BY <1>1, <1>6, <1>7, <1>8, <1>9, <1>12, <1>13, <1>14, <1>15, StepKeeps

-----------------------------------------------------------------------------
(* The rows follow.                                                        *)

LEMMA FollowsKeeps ==
  ASSUME MenuInv, AtMenu, NEW i \in Slots, Follows(i) PROVE MenuInv'
<1>1. /\ At(i, "follow") /\ Follow(i).op # "all" /\ Goes(i, FreeSlot)
      /\ mirror' = AfterDish(Follow(i), mirror)
      /\ UNCHANGED <<menu, aligned, served, counts, torn>>
  BY DEF Follows, Answers, AfterDish, AfterRow, Row
<1>2. /\ MirrorRows(mirror) /\ MenuType
      /\ \/ req[i].op \in {"edit", "add"} /\ req[i].todo = All
         \/ req[i].op \in {"86", "put", "delete"} /\ \E f \in DishDone : req[i].todo = {f}
  BY <1>1, RequestIs
<1>3. req[i].todo # All
  <2>1. req[i].todo = All => Follow(i) \in All
    BY TodoApart DEF Follow
  <2>2. \A f \in All : f.op = "all"
    BY DEF All
  <2> QED
    BY <1>1, <2>1, <2>2
<1>4. PICK f \in DishDone : req[i].todo = {f}
  BY <1>2, <1>3
<1>5. Follow(i) = f
  BY <1>4 DEF Follow
<1>6. /\ MirrorRows(mirror')
      /\ \A x \in mirror' :
           \/ x \in mirror
           \/ f.op # "delete" /\ \E e \in mirror : x = AfterRow(f, e)
  BY <1>1, <1>2, <1>5, AfterDishIs
<1>7. \A x \in mirror' : \E e \in mirror : x.id = e.id /\ x.tag = e.tag
  <2> SUFFICES ASSUME NEW x \in mirror' PROVE \E e \in mirror : x.id = e.id /\ x.tag = e.tag
    OBVIOUS
  <2>1. CASE x \in mirror
    BY <2>1
  <2>2. CASE f.op # "delete" /\ \E e \in mirror : x = AfterRow(f, e)
    <3>1. PICK e \in mirror : x = AfterRow(f, e)
      BY <2>2
    <3>2. e \in DishSet
      BY <1>2 DEF MirrorRows
    <3>3. AfterRow(f, e).id = e.id /\ AfterRow(f, e).tag = e.tag
      BY <2>2, <3>2, AfterRowIs
    <3> QED
      BY <3>1, <3>3
  <2> QED
    BY <1>6, <2>1, <2>2
<1>8. Has(req[i], menu, mirror, aligned) => Resting(menu, mirror', aligned)
  <2>1. Has(req[i], menu, mirror, aligned)
          => (aligned => \A g \in req[i].todo : LinesUp(menu.list, AfterDish(g, mirror)))
    BY <1>1, <1>3 DEF Has, At
  <2> QED
    BY <1>1, <1>4, <1>5, <2>1 DEF Resting
<1>9. Advances(i, FreeSlot)
  BY <1>1, <1>8, FreeInMenu DEF Advances
<1>10. /\ Rebuilding => \A e \in mirror : [dish |-> e.tag, id |-> e.id] \in Borne
       /\ Bears(menu.list) \subseteq Borne
       /\ served # {} => Old(menu.list) /\ (Rebuilding => Full(menu.list))
  BY BorneAlready
<1> HIDE DEF Borne
<1>11. Rebuilding => \A e \in mirror' : [dish |-> e.tag, id |-> e.id] \in Borne
  BY <1>7, <1>10
<1>12. Carried(FreeSlot, {})
  BY <1>1, <1>10, <1>11, FreeInMenu DEF Carried
<1>13. /\ menu'.there \in BOOLEAN /\ menu'.list \in Seq(DishSet) /\ (menu'.there = FALSE => menu' = menu)
       /\ aligned' \in BOOLEAN /\ ~At(i, "free") /\ FreeSlot.pc \notin {"first", "rebuild"}
  BY <1>1, <1>2, FreeInMenu DEF MenuType, At
<1> QED
  BY <1>1, <1>6, <1>9, <1>12, <1>13, FreeInMenu, NoneFresh, StepKeeps

\* The ids are read, and a request at its rows.
LEMMA RowsIs ==
  ASSUME MenuInv, AtMenu, NEW i \in Slots
  PROVE  /\ At(i, "follow") /\ Follow(i).op = "all" => req[i].op \in {"edit", "add"} /\ req[i].todo = All
         /\ At(i, "rows") => /\ req[i].op \in {"edit", "add"}
                             /\ req[i].row \in 1 .. Len(req[i].new) + 1
<1>1. InMenu(req[i])
  BY DEF MenuInv, MenuType
<1>2. At(i, "rows") => /\ req[i].op \in {"edit", "add"}
                       /\ req[i].row \in 1 .. Len(req[i].new) + 1
  BY <1>1 DEF InMenu, FreeSlot, At
<1>3. ASSUME At(i, "follow"), NEW f \in DishDone, req[i].todo = {f} PROVE Follow(i).op # "all"
  <2>1. Follow(i) = f
    BY <1>3 DEF Follow
  <2> QED
    BY <2>1, TodoApart
<1> QED
  BY <1>2, <1>3, RequestIs

LEMMA ReadsIdsKeeps ==
  ASSUME MenuInv, AtMenu, NEW i \in Slots, ReadsIds(i) PROVE MenuInv'
<1> DEFINE ids == {d.id : d \in mirror}
           r   == [Step(i, "rows") EXCEPT !.row = 1, !.found = ids, !.todo = ids \ IdsOf(req[i].new)]
<1>1. /\ At(i, "follow") /\ Follow(i).op = "all" /\ Goes(i, r)
      /\ UNCHANGED <<counts, torn>> /\ UNCHANGED menuRows
  BY DEF ReadsIds
<1>2. /\ DOMAIN req[i] = DOMAIN FreeSlot /\ req[i].key = House /\ MirrorRows(mirror) /\ MenuType
      /\ req[i].op \in {"edit", "add"} /\ req[i].todo = All /\ req[i].new \in Seq(DishSet)
  BY <1>1, RequestIs, RowsIs
<1>3. /\ DOMAIN r = DOMAIN FreeSlot /\ r.key = House /\ r.op = req[i].op /\ r.pc = "rows"
      /\ r.new = req[i].new /\ r.todo = ids \ IdsOf(req[i].new) /\ r.row = 1 /\ r.found = ids
  BY <1>2, RequestEdited DEF Step
<1> HIDE DEF r
<1>4. InMenu(r) /\ ~At(i, "free")
  <2>1. r.row \in 1 .. Len(r.new) + 1
    BY <1>2, <1>3
  <2> QED
    BY <1>1, <1>2, <1>3, <2>1 DEF InMenu, At
<1>5. Written(r, mirror)
  BY <1>3 DEF Written
<1>6. Has(req[i], menu, mirror, aligned) => Has(r, menu, mirror, aligned)
  <2>1. Has(req[i], menu, mirror, aligned)
          => menu.there /\ menu.list = req[i].new /\ (aligned => Full(req[i].new) /\ ~Twins(req[i].new))
    BY <1>1, <1>2 DEF Has, At
  <2> QED
    BY <1>3, <1>5, <2>1 DEF Has
<1>7. menu' = menu /\ mirror' = mirror /\ aligned' = aligned /\ served' = served
  BY <1>1 DEF menuRows
<1>8. Standing(req[i]) /\ Standing(r)
  BY <1>2, <1>3 DEF Standing
<1>9. /\ Rebuilding => \A e \in mirror : [dish |-> e.tag, id |-> e.id] \in Borne
      /\ Bears(menu.list) \subseteq Borne
      /\ served # {} => Old(menu.list) /\ (Rebuilding => Full(menu.list))
      /\ Bears(req[i].new) \subseteq Borne
      /\ served # {} => Old(req[i].new) /\ (Rebuilding => Full(req[i].new))
  BY <1>8, BorneAlready, RequestIs
<1> HIDE DEF Borne
<1>10. Carried(r, {})
  BY <1>3, <1>7, <1>9 DEF Carried
<1>11. /\ menu'.there \in BOOLEAN /\ menu'.list \in Seq(DishSet) /\ (menu'.there = FALSE => menu' = menu)
       /\ MirrorRows(mirror') /\ aligned' \in BOOLEAN /\ r.new \in Seq(DishSet)
       /\ r.pc \notin {"first", "rebuild", "free"}
  BY <1>2, <1>3, <1>7 DEF MenuType
<1>12. Advances(i, r)
  BY <1>6, <1>7, <1>11 DEF Advances
<1> QED
  BY <1>1, <1>3, <1>4, <1>7, <1>10, <1>11, <1>12, NoneFresh, StepKeeps

\* One dish more has its row.
HasRow(d, rows, rows2) ==
  /\ \A x \in rows2 : x.id = d.id => d.name = x.name /\ (d.off => x.off)
  /\ \A x \in rows2 : x.id # d.id => x \in rows
  /\ \A x \in rows : x.id # d.id => x \in rows2
  /\ \E x \in rows2 : x.id = d.id

LEMMA WrittenOn ==
  ASSUME NEW r, r.new \in Seq(DishSet), NEW n \in 1 .. Len(r.new), r.row = n, Full(r.new), ~Twins(r.new),
         NEW rows, Written(r, rows),
         NEW q, q.new = r.new, q.todo = r.todo, q.found = r.found, q.row = n + 1,
         NEW rows2, NEW d, d = r.new[n], HasRow(d, rows, rows2)
  PROVE  Written(q, rows2)
<1> DEFINE done  == {r.new[k].id : k \in 1 .. n - 1}
           done2 == {r.new[k].id : k \in 1 .. n}
<1>1. n \in DOMAIN r.new /\ n \in Nat /\ Len(r.new) \in Nat /\ DOMAIN r.new = 1 .. Len(r.new)
  OBVIOUS
<1>2. done2 = done \cup {d.id}
  BY <1>1
<1>3. ASSUME NEW k \in 1 .. n - 1 PROVE r.new[k].id # d.id
  <2>1. k \in DOMAIN r.new /\ k # n
    BY <1>1
  <2>2. r.new[k].id \in IdsOf(r.new) /\ r.new[k].id # NoId
    BY <2>1 DEF Full, IdsOf
  <2> QED
    BY <1>1, <2>1, <2>2 DEF Twins
<1> HIDE DEF done, done2
<1>4. {x.id : x \in rows2} = {x.id : x \in rows} \cup {d.id}
  BY DEF HasRow
<1>5. {x.id : x \in rows} = r.todo \cup (r.found \cap IdsOf(r.new)) \cup done
  BY DEF Written, done
<1>6. {x.id : x \in rows2} = q.todo \cup (q.found \cap IdsOf(q.new)) \cup done2
  BY <1>2, <1>4, <1>5
<1>7. ASSUME NEW k \in 1 .. n, NEW x \in rows2, r.new[k].id = x.id
      PROVE  r.new[k].name = x.name /\ (r.new[k].off => x.off)
  <2>1. CASE k = n
    BY <1>7, <2>1 DEF HasRow
  <2>2. CASE k # n
    <3>1. k \in 1 .. n - 1
      BY <1>1, <2>2
    <3>2. x \in rows
      BY <1>3, <1>7, <3>1 DEF HasRow
    <3> QED
      BY <1>7, <3>1, <3>2 DEF Written
  <2> QED
    BY <2>1, <2>2
<1>8. q.todo \cap IdsOf(q.new) = {}
  BY DEF Written
<1>9. q.row - 1 = n
  BY <1>1
<1>10. \A k \in 1 .. q.row - 1, x \in rows2 :
         q.new[k].id = x.id => q.new[k].name = x.name /\ (q.new[k].off => x.off)
  BY <1>7, <1>9
<1>11. done2 = {q.new[k].id : k \in 1 .. q.row - 1}
  BY <1>9 DEF done2
<1> QED
  BY <1>6, <1>8, <1>10, <1>11 DEF Written

\* The rows of a dish that are found are written over ...
LEMMA FoundRows ==
  ASSUME MirrorRows(mirror), NEW e \in DishSet, e.id # NoId,
         NEW rows, rows = (mirror \ Row(e.id)) \cup {[e EXCEPT !.tag = r.tag] : r \in Row(e.id)}
  PROVE  /\ MirrorRows(rows)
         /\ \A x \in rows : \/ x \in mirror /\ x.id # e.id
                            \/ /\ x.id = e.id /\ x.name = e.name /\ x.off = e.off
                               /\ \E r \in mirror : r.id = e.id /\ x.tag = r.tag
         /\ \A x \in mirror : x.id # e.id => x \in rows
         /\ (\E x \in mirror : x.id = e.id) => \E x \in rows : x.id = e.id
<1> DEFINE over == {[e EXCEPT !.tag = r.tag] : r \in Row(e.id)}
<1>1. Row(e.id) = {r \in mirror : r.id = e.id}
  BY DEF Row
<1>2. ASSUME NEW r \in Row(e.id)
      PROVE  LET x == [e EXCEPT !.tag = r.tag]
             IN x \in DishSet /\ x.id = e.id /\ x.name = e.name /\ x.off = e.off /\ x.tag = r.tag
  BY <1>1 DEF MirrorRows, DishSet
<1>3. IsFiniteSet(over)
  <2>1. IsFiniteSet(Row(e.id))
    BY <1>1, FS_Subset DEF MirrorRows
  <2> DEFINE g == [r \in Row(e.id) |-> [e EXCEPT !.tag = r.tag]]
  <2>2. g \in Surjection(Row(e.id), over)
    BY DEF Surjection
  <2> HIDE DEF g, over
  <2> QED
    BY <2>1, <2>2, FS_Surjection
<1>4. IsFiniteSet(mirror \ Row(e.id))
  BY FS_Subset DEF MirrorRows
<1>5. IsFiniteSet(rows)
  BY <1>3, <1>4, FS_Union
<1>6. \A x \in over : /\ x \in DishSet /\ x.id = e.id /\ x.name = e.name /\ x.off = e.off
                      /\ \E r \in mirror : r.id = e.id /\ x.tag = r.tag
  BY <1>1, <1>2
<1>7. rows = (mirror \ Row(e.id)) \cup over
  OBVIOUS
<1>8. (\E x \in mirror : x.id = e.id) => \E x \in over : TRUE
  BY <1>1
<1> HIDE DEF over
<1> QED
  BY <1>1, <1>5, <1>6, <1>7, <1>8 DEF MirrorRows

\* ... and a new one is inserted.
LEMMA InsertedRows ==
  ASSUME MirrorRows(mirror), NEW e \in DishSet, e.id # NoId, NEW rows, rows = mirror \cup {AsInserted(e)}
  PROVE  /\ MirrorRows(rows)
         /\ \A x \in rows : \/ x \in mirror
                            \/ x.id = e.id /\ x.name = e.name /\ x.off /\ x.tag = e.tag
         /\ mirror \subseteq rows
         /\ \E x \in rows : x.id = e.id
<1> DEFINE x == AsInserted(e)
<1>1. x \in DishSet /\ x.id = e.id /\ x.name = e.name /\ x.off /\ x.tag = e.tag
  BY DEF AsInserted, DishSet
<1>2. IsFiniteSet({x}) /\ IsFiniteSet(mirror)
  BY FS_Singleton DEF MirrorRows
<1> HIDE DEF x
<1>3. rows = mirror \cup {x}
  BY DEF x
<1>4. IsFiniteSet(rows)
  BY <1>2, <1>3, FS_Union
<1> QED
  BY <1>1, <1>3, <1>4 DEF MirrorRows

\* A request at its rows, of menu `list`, and what is next to be done.
RowsOnly(r, list, rows) == Full(list) /\ ~Twins(list) => Written(r, rows)

LEMMA RowsHas ==
  ASSUME NEW r, r.pc = "rows", NEW m, NEW rows, NEW a
  PROVE  Has(r, m, rows, a) <=> /\ m.there /\ m.list = r.new /\ (a => Full(r.new) /\ ~Twins(r.new))
                                /\ RowsOnly(r, r.new, rows)
BY DEF Has, RowsOnly

\* A step at the rows that leaves the menu alone.
LEMMA RowsStepKeeps ==
  ASSUME MenuInv, AtMenu, NEW i \in Slots, At(i, "rows"), UNCHANGED <<menu, served, counts, torn>>,
         NEW r, Goes(i, r), DOMAIN r = DOMAIN FreeSlot, r.key = House, r.new \in {<<>>, req[i].new}, InMenu(r),
         r.pc \notin {"first", "rebuild"},
         MirrorRows(mirror'), aligned' \in BOOLEAN,
         House \notin torn /\ counts.cut = <<>> /\ Has(req[i], menu, mirror, aligned)
           => /\ Has(r, menu, mirror', aligned')
              /\ r.pc = "free" => Resting(menu, mirror', aligned'),
         \A x \in mirror' : \/ \E e \in mirror : x.id = e.id /\ x.tag = e.tag
                            \/ Full(req[i].new) => \E n \in DOMAIN req[i].new :
                                 x.id = req[i].new[n].id /\ x.tag = req[i].new[n].tag
  PROVE  MenuInv'
<1>1. Standing(req[i]) /\ ~At(i, "free")
  BY RowsIs DEF Standing, At
<1>2. /\ MenuType /\ req[i].new \in Seq(DishSet)
      /\ Bears(req[i].new) \subseteq Borne
      /\ served # {} => Old(req[i].new) /\ (Rebuilding => Full(req[i].new))
  BY <1>1, RequestIs
<1>3. /\ Rebuilding => \A e \in mirror : [dish |-> e.tag, id |-> e.id] \in Borne
      /\ Bears(menu.list) \subseteq Borne
      /\ served # {} => Old(menu.list) /\ (Rebuilding => Full(menu.list))
  BY BorneAlready
<1>4. ASSUME Full(req[i].new), NEW n \in DOMAIN req[i].new
      PROVE  [dish |-> req[i].new[n].tag, id |-> req[i].new[n].id] \in Bears(req[i].new)
  <2>1. Bears(req[i].new) = Ids(req[i].new)
    BY <1>2, <1>4, BearsFull
  <2> QED
    BY <2>1 DEF Ids
<1> HIDE DEF Borne
<1>5. served # {} /\ Rebuilding => \A x \in mirror' : [dish |-> x.tag, id |-> x.id] \in Borne
  <2> SUFFICES ASSUME served # {}, Rebuilding, NEW x \in mirror' PROVE [dish |-> x.tag, id |-> x.id] \in Borne
    OBVIOUS
  <2>1. CASE \E e \in mirror : x.id = e.id /\ x.tag = e.tag
    BY <1>3, <2>1
  <2>2. CASE \E n \in DOMAIN req[i].new : x.id = req[i].new[n].id /\ x.tag = req[i].new[n].tag
    <3>1. PICK n \in DOMAIN req[i].new : x.id = req[i].new[n].id /\ x.tag = req[i].new[n].tag
      BY <2>2
    <3> QED
      BY <1>2, <1>4, <3>1
  <2> QED
    BY <1>2, <2>1, <2>2
<1>6. r.new \in Seq(DishSet) /\ (served # {} => Old(r.new) /\ Bears(r.new) \subseteq Borne
                                                /\ (Rebuilding => Full(r.new)))
  <2>1. CASE r.new = req[i].new
    BY <1>2, <2>1
  <2>2. CASE r.new = <<>>
    BY <2>2, FreeInMenu
  <2> QED
    BY <2>1, <2>2
<1>7. Carried(r, {})
  BY <1>3, <1>5, <1>6 DEF Carried
<1>8. /\ menu'.there \in BOOLEAN /\ menu'.list \in Seq(DishSet) /\ (menu'.there = FALSE => menu' = menu)
  BY <1>2 DEF MenuType
<1>9. Advances(i, r)
  BY DEF Advances
<1> QED
  BY <1>1, <1>6, <1>7, <1>8, <1>9, NoneFresh, StepKeeps

LEMMA WritesRowKeeps ==
  ASSUME MenuInv, AtMenu, NEW i \in Slots, WritesRow(i) PROVE MenuInv'
<1> DEFINE n == req[i].row
           d == req[i].new[n]
           e == IF d.id = NoId THEN [d EXCEPT !.id = Random(Unused)] ELSE d
           q == [req[i] EXCEPT !.row = @ + 1]
           list == req[i].new
<1>0. At(i, "rows") /\ n <= Len(list)
  BY DEF WritesRow
<1>1. /\ At(i, "rows") /\ n <= Len(list) /\ UNCHANGED <<menu, served, counts, torn>>
      /\ \/ /\ e.id \in req[i].found /\ Goes(i, q) /\ aligned' = aligned
            /\ mirror' = (mirror \ Row(e.id)) \cup {[e EXCEPT !.tag = r.tag] : r \in Row(e.id)}
         \/ /\ e.id \notin req[i].found /\ Row(e.id) # {} /\ Goes(i, FreeSlot)
            /\ aligned' = FALSE /\ mirror' = mirror
         \/ /\ e.id \notin req[i].found /\ Row(e.id) = {} /\ Goes(i, q) /\ aligned' = aligned
            /\ mirror' = mirror \cup {AsInserted(e)}
  BY DEF WritesRow, Answers
<1>2. /\ DOMAIN req[i] = DOMAIN FreeSlot /\ req[i].key = House /\ MirrorRows(mirror) /\ MenuType
      /\ req[i].op \in {"edit", "add"} /\ n \in 1 .. Len(list) /\ list \in Seq(DishSet)
  <2>1. list \in Seq(DishSet)
    BY RequestIs
  <2>2. At(i, "rows") /\ n <= Len(list) /\ Len(list) \in Nat
    BY <1>0, <2>1
  <2>3. n \in 1 .. Len(list) + 1
    BY <2>2, RowsIs
  <2>4. n \in 1 .. Len(list)
    BY <2>2, <2>3
  <2> QED
    BY <2>1, <2>2, <2>4, RequestIs, RowsIs
<1>3. n \in DOMAIN list /\ d \in DishSet /\ n \in Nat /\ n + 1 \in 1 .. Len(list) + 1
  BY <1>2
<1>4. e \in DishSet /\ e.id # NoId /\ e.tag = d.tag
  <2>1. Random(Unused) \in IdSet /\ Random(Unused) # NoId
    BY <1>2, UnusedIs, IdsApart
  <2> QED
    BY <1>3, <2>1 DEF DishSet
<1>5. Full(list) => e = d
  BY <1>3 DEF Full, IdsOf
<1> HIDE DEF e
<1>6. /\ DOMAIN q = DOMAIN FreeSlot /\ q.key = House /\ q.op = req[i].op /\ q.pc = "rows"
      /\ q.new = list /\ q.todo = req[i].todo /\ q.row = n + 1 /\ q.found = req[i].found
  BY <1>1, <1>2, RequestEdited DEF At
<1> HIDE DEF q
<1>7. InMenu(q)
  BY <1>2, <1>3, <1>6 DEF InMenu
<1>8. req[i].pc = "rows"
  BY <1>1 DEF At
<1>9. Row(e.id) = {x \in mirror : x.id = e.id}
  BY DEF Row
\* Of a menu of ids all different, the row is there if it was found.
<1>10. ASSUME Full(list), ~Twins(list), Written(req[i], mirror)
       PROVE  Row(e.id) # {} <=> e.id \in req[i].found
  <2>1. d.id \in IdsOf(list)
    BY <1>3 DEF IdsOf
  <2>2. \A k \in 1 .. n - 1 : list[k].id # d.id
    <3> SUFFICES ASSUME NEW k \in 1 .. n - 1 PROVE list[k].id # d.id
      OBVIOUS
    <3>1. k \in DOMAIN list /\ k # n
      BY <1>2
    <3>2. d.id # NoId
      BY <1>4, <1>5, <1>10
    <3> QED
      BY <1>3, <1>10, <3>1, <3>2 DEF Twins
  <2>3. d.id \in {x.id : x \in mirror} <=> d.id \in req[i].found
    BY <1>10, <2>1, <2>2 DEF Written
  <2> QED
    BY <1>5, <1>9, <1>10, <2>3
<1>11. ASSUME e.id \in req[i].found, Goes(i, q), aligned' = aligned,
              mirror' = (mirror \ Row(e.id)) \cup {[e EXCEPT !.tag = r.tag] : r \in Row(e.id)}
       PROVE  MenuInv'
  <2>1. /\ MirrorRows(mirror')
        /\ \A x \in mirror' : \/ x \in mirror /\ x.id # e.id
                              \/ /\ x.id = e.id /\ x.name = e.name /\ x.off = e.off
                                 /\ \E r \in mirror : r.id = e.id /\ x.tag = r.tag
        /\ \A x \in mirror : x.id # e.id => x \in mirror'
        /\ (\E x \in mirror : x.id = e.id) => \E x \in mirror' : x.id = e.id
    BY <1>2, <1>4, <1>11, FoundRows
  <2>2. \A x \in mirror' : \E r \in mirror : x.id = r.id /\ x.tag = r.tag
    BY <2>1
  <2>3. ASSUME Full(list), ~Twins(list), Written(req[i], mirror) PROVE Written(q, mirror')
    <3>1. e = d /\ \E x \in mirror : x.id = e.id
      BY <1>5, <1>9, <1>10, <1>11, <2>3
    <3>2. HasRow(req[i].new[n], mirror, mirror')
      BY <2>1, <3>1 DEF HasRow
    <3> QED
      BY <1>2, <1>6, <2>3, <3>2, WrittenOn
  <2>4. Has(req[i], menu, mirror, aligned) => Has(q, menu, mirror', aligned')
    BY <1>6, <1>8, <1>11, <2>3, RowsHas DEF RowsOnly
  <2> QED
    BY <1>1, <1>2, <1>6, <1>7, <1>11, <2>1, <2>2, <2>4, RowsStepKeeps DEF MenuType
<1>12. ASSUME e.id \notin req[i].found, Row(e.id) # {}, Goes(i, FreeSlot), aligned' = FALSE, mirror' = mirror
       PROVE  MenuInv'
  <2>1. Resting(menu, mirror', aligned')
    BY <1>12 DEF Resting
  <2>2. \A x \in mirror' : \E r \in mirror : x.id = r.id /\ x.tag = r.tag
    BY <1>12
  <2> QED
    BY <1>1, <1>2, <1>12, <2>1, <2>2, FreeInMenu, RowsStepKeeps
<1>13. ASSUME e.id \notin req[i].found, Row(e.id) = {}, Goes(i, q), aligned' = aligned,
              mirror' = mirror \cup {AsInserted(e)}
       PROVE  MenuInv'
  <2>1. /\ MirrorRows(mirror')
        /\ \A x \in mirror' : \/ x \in mirror
                              \/ x.id = e.id /\ x.name = e.name /\ x.off /\ x.tag = e.tag
        /\ mirror \subseteq mirror'
        /\ \E x \in mirror' : x.id = e.id
    BY <1>2, <1>4, <1>13, InsertedRows
  <2>2. \A x \in mirror' : \/ \E r \in mirror : x.id = r.id /\ x.tag = r.tag
                           \/ Full(list) => \E k \in DOMAIN list :
                                x.id = list[k].id /\ x.tag = list[k].tag
    BY <1>3, <1>5, <2>1
  <2>3. ASSUME Full(list), ~Twins(list), Written(req[i], mirror) PROVE Written(q, mirror')
    <3>1. e = d /\ \A x \in mirror : x.id # e.id
      BY <1>5, <1>9, <1>13, <2>3
    <3>2. HasRow(req[i].new[n], mirror, mirror')
      BY <2>1, <3>1 DEF HasRow
    <3> QED
      BY <1>2, <1>6, <2>3, <3>2, WrittenOn
  <2>4. Has(req[i], menu, mirror, aligned) => Has(q, menu, mirror', aligned')
    BY <1>6, <1>8, <1>13, <2>3, RowsHas DEF RowsOnly
  <2> QED
    BY <1>1, <1>2, <1>6, <1>7, <1>13, <2>1, <2>2, <2>4, RowsStepKeeps DEF MenuType
<1> QED
  BY <1>1, <1>11, <1>12, <1>13

LEMMA DeletesRowKeeps ==
  ASSUME MenuInv, AtMenu, NEW i \in Slots, DeletesRow(i) PROVE MenuInv'
<1> DEFINE id == CHOOSE x \in Unseen(i) : TRUE
           q  == [req[i] EXCEPT !.todo = @ \ {id}]
           list == req[i].new
<1>1. /\ At(i, "rows") /\ req[i].row > Len(list) /\ UNCHANGED <<menu, served, counts, torn>>
      /\ aligned' = (aligned \/ (req[i].todo = {} /\ NoId \notin IdsOf(list) /\ ~Twins(list)))
      /\ \/ req[i].todo = {} /\ Goes(i, FreeSlot) /\ mirror' = mirror
         \/ req[i].todo # {} /\ Goes(i, q) /\ mirror' = mirror \ Row(id)
  BY DEF DeletesRow, Answers, Unseen
<1>2. /\ DOMAIN req[i] = DOMAIN FreeSlot /\ req[i].key = House /\ MirrorRows(mirror) /\ MenuType
      /\ req[i].op \in {"edit", "add"} /\ req[i].row \in 1 .. Len(list) + 1 /\ list \in Seq(DishSet)
  BY <1>1, RequestIs, RowsIs
<1>3. req[i].todo # {} => id \in req[i].todo
  BY DEF Unseen
<1> HIDE DEF id
<1>4. req[i].pc = "rows" /\ req[i].row = Len(list) + 1 /\ DOMAIN list = 1 .. Len(list) /\ Len(list) \in Nat
  BY <1>1, <1>2 DEF At
<1>5. /\ DOMAIN q = DOMAIN FreeSlot /\ q.key = House /\ q.op = req[i].op /\ q.pc = "rows"
      /\ q.new = list /\ q.todo = req[i].todo \ {id} /\ q.row = req[i].row /\ q.found = req[i].found
  BY <1>2, <1>4, RequestEdited
<1> HIDE DEF q
<1>6. InMenu(q)
  BY <1>2, <1>5 DEF InMenu
<1>7. Row(id) = {x \in mirror : x.id = id}
  BY DEF Row
<1>8. ASSUME req[i].todo = {}, Goes(i, FreeSlot), mirror' = mirror PROVE MenuInv'
  <2>1. ASSUME Full(list), ~Twins(list), Written(req[i], mirror) PROVE LinesUp(list, mirror)
    <3>1. {list[k].id : k \in 1 .. req[i].row - 1} = IdsOf(list)
      BY <1>4 DEF IdsOf
    <3>2. IdsOf(list) = {e.id : e \in mirror}
      BY <1>8, <2>1, <3>1 DEF Written
    <3>3. ASSUME NEW d \in Range(list), NEW e \in mirror, d.id = e.id
          PROVE  d.name = e.name /\ (d.off => e.off)
      <4>1. PICK k \in DOMAIN list : d = list[k]
        BY DEF Range
      <4>2. k \in 1 .. req[i].row - 1
        BY <1>4
      <4> QED
        BY <2>1, <3>3, <4>1, <4>2 DEF Written
    <3> QED
      BY <2>1, <3>2, <3>3 DEF LinesUp, Full
  <2>2. Has(req[i], menu, mirror, aligned) => Resting(menu, mirror', aligned')
    <3>1. Has(req[i], menu, mirror, aligned)
            => menu.list = list /\ (aligned => Full(list) /\ ~Twins(list)) /\ RowsOnly(req[i], list, mirror)
      BY <1>4, RowsHas
    <3>2. aligned' => aligned \/ (Full(list) /\ ~Twins(list))
      BY <1>1 DEF Full
    <3>3. RowsOnly(req[i], list, mirror) /\ Full(list) /\ ~Twins(list) => LinesUp(list, mirror')
      BY <1>8, <2>1 DEF RowsOnly
    <3> QED
      BY <3>1, <3>2, <3>3 DEF Resting
  <2>3. \A x \in mirror' : \E r \in mirror : x.id = r.id /\ x.tag = r.tag
    BY <1>8
  <2>4. aligned' \in BOOLEAN /\ MirrorRows(mirror')
    BY <1>1, <1>2, <1>8
  <2> QED
    BY <1>1, <1>2, <1>8, <2>2, <2>3, <2>4, FreeInMenu, RowsStepKeeps
<1>9. ASSUME req[i].todo # {}, Goes(i, q), mirror' = mirror \ Row(id) PROVE MenuInv'
  <2>1. aligned' = aligned /\ aligned' \in BOOLEAN
    BY <1>1, <1>2, <1>9 DEF MenuType
  <2>2. mirror' = {x \in mirror : x.id # id}
    BY <1>7, <1>9
  <2>3. MirrorRows(mirror')
    <3>1. mirror' \in SUBSET mirror
      BY <2>2
    <3>2. IsFiniteSet(mirror')
      BY <1>2, <3>1, FS_Subset DEF MirrorRows
    <3> QED
      BY <1>2, <3>1, <3>2 DEF MirrorRows
  <2>4. ASSUME Written(req[i], mirror) PROVE Written(q, mirror')
    <3> DEFINE done == {list[k].id : k \in 1 .. req[i].row - 1}
               ids  == {x.id : x \in mirror}
    <3>1. done \subseteq IdsOf(list)
      BY <1>4 DEF IdsOf
    <3>2. /\ ids = req[i].todo \cup (req[i].found \cap IdsOf(list)) \cup done
          /\ req[i].todo \cap IdsOf(list) = {}
      BY <2>4 DEF Written
    <3>3. {x.id : x \in mirror'} = ids \ {id}
      BY <2>2
    <3> HIDE DEF done, ids
    <3>4. {x.id : x \in mirror'} = q.todo \cup (q.found \cap IdsOf(list)) \cup done
      BY <1>3, <1>5, <1>9, <3>1, <3>2, <3>3
    <3>5. \A k \in 1 .. req[i].row - 1, x \in mirror' :
            list[k].id = x.id => list[k].name = x.name /\ (list[k].off => x.off)
      BY <2>2, <2>4 DEF Written
    <3>6. q.todo \cap IdsOf(list) = {}
      BY <1>5, <3>2
    <3>7. done = {q.new[k].id : k \in 1 .. q.row - 1}
      BY <1>5 DEF done
    <3>8. \A k \in 1 .. q.row - 1, x \in mirror' :
            q.new[k].id = x.id => q.new[k].name = x.name /\ (q.new[k].off => x.off)
      BY <1>5, <3>5
    <3>9. {x.id : x \in mirror'} = q.todo \cup (q.found \cap IdsOf(q.new)) \cup {q.new[k].id : k \in 1 .. q.row - 1}
      BY <1>5, <3>4, <3>7
    <3> QED
      BY <1>5, <3>6, <3>8, <3>9 DEF Written
  <2>5. Has(req[i], menu, mirror, aligned) => Has(q, menu, mirror', aligned')
    BY <1>4, <1>5, <2>1, <2>4, RowsHas DEF RowsOnly
  <2>6. \A x \in mirror' : \E r \in mirror : x.id = r.id /\ x.tag = r.tag
    BY <2>2
  <2> QED
    BY <1>1, <1>2, <1>5, <1>6, <1>9, <2>1, <2>3, <2>5, <2>6, RowsStepKeeps
<1> QED
  BY <1>1, <1>8, <1>9

-----------------------------------------------------------------------------
(* Every step, and the first state.                                        *)

\* A request cut short: the rows are promised nothing from then on.
LEMMA DiesInMenu ==
  ASSUME MenuInv, AtMenu, NEW i \in Slots, Dies(i), UNCHANGED menuRows PROVE MenuInv'
<1>0. MenuType
  BY DEF MenuInv
<1>1. /\ Goes(i, FreeSlot) /\ menu' = menu /\ mirror' = mirror /\ aligned' = aligned /\ served' = served
      /\ counts' = [counts EXCEPT !.cut = Append(@, [op |-> req[i].op, key |-> req[i].key])]
  BY DEF Dies, Answers, menuRows
<1>2. {"desk", "cut"} \subseteq DOMAIN counts /\ DOMAIN counts' = DOMAIN counts
  BY <1>0, <1>1 DEF MenuType
<1>3. /\ counts'.desk = counts.desk
      /\ counts'.cut = Append(counts.cut, [op |-> req[i].op, key |-> req[i].key])
  BY <1>1, <1>2
<1>4. counts'.cut # <<>>
  BY <1>3
<1>5. AtMenu'
  BY <1>3 DEF AtMenu
<1>6. MenuType'
  <2>1. /\ menu'.there \in BOOLEAN /\ menu'.list \in Seq(DishSet) /\ (~menu'.there => menu'.list = <<>>)
        /\ MirrorRows(mirror') /\ aligned' \in BOOLEAN
        /\ IsFiniteSet(served') /\ served' \subseteq [dish : Nat, id : IdSet]
        /\ {"desk", "cut"} \subseteq DOMAIN counts'
    BY <1>0, <1>1, <1>2 DEF MenuType
  <2> QED
    BY <1>0, <1>1, <2>1, FreeInMenu, TypeGoes
<1>7. Mirroring'
  BY <1>4, <1>5 DEF Mirroring
<1>8. Keeping'
  <2>1. /\ served \subseteq Borne /\ Bears(menu.list) \subseteq Borne
        /\ Rebuilding => \A e \in mirror : [dish |-> e.tag, id |-> e.id] \in Borne
        /\ served # {} => Old(menu.list) /\ (Rebuilding => Full(menu.list))
    BY BorneAlready
  <2>2. Rebuilding' => Rebuilding
    <3>1. \A j \in Slots : req'[j] = IF j = i THEN FreeSlot ELSE req[j]
      BY <1>0, <1>1 DEF Goes, MenuType
    <3> QED
      BY <1>1, <3>1, FreeInMenu DEF Rebuilding
  <2>3. Single({}) /\ (served # {} => \A x \in {}, y \in Borne : x.dish # y.dish)
    BY DEF Single
  <2> HIDE DEF Borne
  <2>4. served' # {} =>
           /\ served' \subseteq Borne \cup {}
           /\ Old(menu'.list) /\ Bears(menu'.list) \subseteq Borne \cup {}
           /\ Standing(FreeSlot) => Old(FreeSlot.new) /\ Bears(FreeSlot.new) \subseteq Borne \cup {}
           /\ Rebuilding' =>
                /\ Rebuilding /\ Full(menu'.list) /\ (Standing(FreeSlot) => Full(FreeSlot.new))
                /\ \A e \in mirror' : [dish |-> e.tag, id |-> e.id] \in Borne \cup {}
    BY <1>1, <2>1, <2>2, FreeInMenu
  <2> QED
    BY <1>1, <1>5, <2>3, <2>4, KeepGoes
<1> QED
  BY <1>6, <1>7, <1>8 DEF MenuInv

\* A step of another desk leaves the menu alone.
LEMMA NotAtMenu ==
  ASSUME MenuInv, ~AtMenu, UNCHANGED menuRows, counts'.desk = counts.desk PROVE MenuInv'
<1>1. ~AtMenu' /\ menu' = menu /\ mirror' = mirror /\ aligned' = aligned /\ served' = served
  BY DEF AtMenu, menuRows
<1>2. MenuType'
  BY <1>1 DEF MenuInv, MenuType
<1>3. Mirroring'
  BY <1>1 DEF MenuInv, Mirroring
<1>4. Keeping'
  BY <1>1 DEF MenuInv, Keeping
<1> QED
  BY <1>2, <1>3, <1>4 DEF MenuInv

LEMMA MenuArrivesKeeps == ASSUME MenuInv, AtMenu, NEW i \in Slots, MenuArrives(i) PROVE MenuInv'
<1>1. ASSUME NEW cat \in Range(Categories), NEW name \in DishNames, AddArrives(i, cat, name) PROVE MenuInv'
  BY <1>1, AddArrivesKeeps
<1>2. ASSUME NEW id \in IdsOf(menu.list) \ {NoId}, DeleteArrives(i, id) PROVE MenuInv'
  BY <1>2, DeleteArrivesKeeps
<1>3. ASSUME NEW id \in IdsOf(menu.list) \ {NoId}, NEW off \in BOOLEAN, AvailabilityArrives(i, id, off)
      PROVE  MenuInv'
  BY <1>3, AvailabilityArrivesKeeps
<1>4. ASSUME NEW id \in IdsOf(menu.list) \ {NoId}, NEW name \in DishNames, NEW cat \in Range(Categories),
             NEW set \in {[name |-> name], [cat |-> cat], [name |-> name, cat |-> cat]},
             PutArrives(i, id, set)
      PROVE  MenuInv'
  BY <1>4, PutArrivesKeeps
<1>5. ASSUME NEW force \in BOOLEAN, RepairArrives(i, force) PROVE MenuInv'
  BY <1>5, RepairArrivesKeeps
<1>6. ReadArrives(i) \/ EditorArrives(i) => MenuInv'
  BY ReadArrivesKeeps, EditorArrivesKeeps
<1> QED
  BY <1>1, <1>2, <1>3, <1>4, <1>5, <1>6 DEF MenuArrives

LEMMA MenuStepKeeps == ASSUME MenuInv, AtMenu, NEW i \in Slots, MenuStep(i) PROVE MenuInv'
<1>1. ASSUME NEW payload \in Edits(i), Saves(i, payload) PROVE MenuInv'
  BY <1>1, SavesKeeps
<1>2. Rebuilds(i) => MenuInv'
  BY RebuildsKeeps
<1>3. InsertsFirst(i) => MenuInv'
  BY InsertsFirstKeeps
<1>4. Adopts(i) => MenuInv'
  BY AdoptsKeeps
<1>5. Puts(i) => MenuInv'
  BY PutsKeeps
<1>6. Follows(i) => MenuInv'
  BY FollowsKeeps
<1>7. ReadsIds(i) => MenuInv'
  BY ReadsIdsKeeps
<1>8. WritesRow(i) => MenuInv'
  BY WritesRowKeeps
<1>9. DeletesRow(i) => MenuInv'
  BY DeletesRowKeeps
<1> QED
  BY <1>1, <1>2, <1>3, <1>4, <1>5, <1>6, <1>7, <1>8, <1>9 DEF MenuStep

\* It holds at first.
LEMMA FirstMenuInv == ASSUME Init PROVE MenuInv
<1>1. PICK f \in FirstMenus : menu = f.menu /\ mirror = f.mirror /\ aligned = f.aligned
                              /\ served = {[dish |-> 0, id |-> NoId]}
  BY DEF Init, MenuInit
<1>2. /\ req = [i \in Slots |-> FreeSlot] /\ torn = {}
      /\ counts \in {[desk |-> d, requests |-> 0, changes |-> 0, cut |-> <<>>] : d \in Desks}
  BY DEF Init, DeskInit
<1>3. /\ f.menu.there \in BOOLEAN /\ f.menu.list \in Seq(DishSet)
      /\ f.mirror \subseteq DishSet /\ IsFiniteSet(f.mirror)
      /\ \A j, k \in DOMAIN f.menu.list : f.menu.list[j].tag = f.menu.list[k].tag => j = k
      /\ \A d, e \in f.mirror : d.id = e.id \/ d.tag = e.tag => d = e
      /\ \A e \in f.mirror : e.id # NoId
      /\ NoId \in IdsOf(f.menu.list) => IdsOf(f.menu.list) \subseteq {NoId} \cup Randoms
      /\ f.aligned /\ f.menu.there => LinesUp(f.menu.list, f.mirror)
      /\ ~f.menu.there => f.menu.list = <<>>
      /\ f.aligned \in BOOLEAN
  BY MenuAssumption
<1>4. \A i \in Slots : req[i] = FreeSlot
  BY <1>2
<1>5. MenuType
  <2>1. MirrorRows(mirror)
    BY <1>1, <1>3 DEF MirrorRows
  <2>2. IsFiniteSet(served)
    BY <1>1, FS_Singleton
  <2>3. served \subseteq [dish : Nat, id : IdSet]
    BY <1>1, IdsApart
  <2>4. req = [i \in Slots |-> req[i]] /\ {"desk", "cut"} \subseteq DOMAIN counts
    BY <1>2
  <2>5. \A i \in Slots : /\ DOMAIN req[i] = DOMAIN FreeSlot /\ req[i].key = House
                         /\ req[i].new \in Seq(DishSet) /\ InMenu(req[i])
    BY <1>4, FreeInMenu
  <2>6. /\ menu.there \in BOOLEAN /\ menu.list \in Seq(DishSet) /\ (~menu.there => menu.list = <<>>)
        /\ aligned \in BOOLEAN
    BY <1>1, <1>3
  <2> QED
    BY <2>1, <2>2, <2>3, <2>4, <2>5, <2>6 DEF MenuType
<1>6. Mirroring
  <2>1. Resting(menu, mirror, aligned)
    BY <1>1, <1>3 DEF Resting
  <2>2. \A i \in Slots : At(i, "free") /\ Has(req[i], menu, mirror, aligned)
    BY <1>4, FreeInMenu DEF At
  <2> QED
    BY <2>1, <2>2 DEF Mirroring
<1>7. Single(served)
  BY <1>1 DEF Single
<1>8. ASSUME AtMenu PROVE Keeping
  <2>1. \A i \in Slots : Bears(req[i].new) = {} /\ Old(req[i].new) /\ Full(req[i].new)
    BY <1>4, FreeInMenu
  <2>2. Rebuilding <=> ~menu.there
    BY <1>4, FreeInMenu DEF Rebuilding
  <2>3. Old(menu.list) /\ (Rebuilding => Full(menu.list) /\ Bears(menu.list) = {})
    <3>1. Old(menu.list)
      BY <1>1, <1>3 DEF Old
    <3>2. Rebuilding => menu.list = FreeSlot.new
      BY <1>1, <1>3, <2>2, FreeInMenu
    <3> QED
      BY <3>1, <3>2, FreeInMenu
  <2>4. \A x : x \in Borne <=> BorneBy(x, served, menu.list, req, mirror, Rebuilding)
    BY <1>5, <1>8, BorneIs
  <2> HIDE DEF Borne
  <2>5. ASSUME NEW x \in Borne
        PROVE  \/ x = [dish |-> 0, id |-> NoId]
               \/ x \in Bears(menu.list) /\ ~Rebuilding
               \/ Rebuilding /\ \E e \in mirror : x = [dish |-> e.tag, id |-> e.id]
    <3>1. BorneBy(x, served, menu.list, req, mirror, Rebuilding)
      BY <2>4
    <3> QED
      BY <1>1, <2>1, <2>3, <3>1 DEF BorneBy
  <2>6. ASSUME NEW x \in Bears(menu.list)
        PROVE  \E k \in DOMAIN menu.list : /\ x.dish = menu.list[k].tag /\ x.id = EnsureMenuIds(menu.list)[k].id
                                           /\ x.dish # 0
    <3>1. menu.list \in Seq(DishSet)
      BY <1>1, <1>3
    <3>2. /\ DOMAIN EnsureMenuIds(menu.list) = DOMAIN menu.list
          /\ \A k \in DOMAIN menu.list : EnsureMenuIds(menu.list)[k].tag = menu.list[k].tag
      BY <3>1, EnsureKeeps
    <3>3. PICK k \in DOMAIN menu.list : x = [dish |-> EnsureMenuIds(menu.list)[k].tag,
                                             id |-> EnsureMenuIds(menu.list)[k].id]
      BY <3>2 DEF Bears, Ids
    <3>4. menu.list[k] \in DishSet
      BY <3>1
    <3>5. menu.list[k].tag # 0
      BY <3>4 DEF DishSet
    <3> QED
      BY <3>2, <3>3, <3>5
  <2>7. ASSUME NEW e \in mirror PROVE e.tag # 0
    BY <1>1, <1>3 DEF DishSet
  <2>8. Single(Borne)
    <3> SUFFICES ASSUME NEW x \in Borne, NEW y \in Borne, x.dish = y.dish PROVE x.id = y.id
      BY DEF Single
    <3>1. CASE Rebuilding
      <4>1. \A d, e \in mirror : d.tag = e.tag => d = e
        BY <1>1, <1>3
      <4> QED
        BY <2>5, <2>7, <3>1, <4>1
    <3>2. CASE ~Rebuilding
      <4>1. \A j, k \in DOMAIN menu.list : menu.list[j].tag = menu.list[k].tag => j = k
        BY <1>1, <1>3
      <4>2. x = [dish |-> 0, id |-> NoId] \/ x \in Bears(menu.list)
        BY <2>5, <3>2
      <4>3. y = [dish |-> 0, id |-> NoId] \/ y \in Bears(menu.list)
        BY <2>5, <3>2
      <4>4. CASE x \in Bears(menu.list) /\ y \in Bears(menu.list)
        <5>1. PICK j \in DOMAIN menu.list : x.dish = menu.list[j].tag /\ x.id = EnsureMenuIds(menu.list)[j].id
          BY <2>6, <4>4
        <5>2. PICK k \in DOMAIN menu.list : y.dish = menu.list[k].tag /\ y.id = EnsureMenuIds(menu.list)[k].id
          BY <2>6, <4>4
        <5> QED
          BY <4>1, <5>1, <5>2
      <4>5. CASE x = [dish |-> 0, id |-> NoId]
        <5>1. y \notin Bears(menu.list)
          BY <2>6, <4>5
        <5> QED
          BY <4>3, <4>5, <5>1
      <4>6. CASE y = [dish |-> 0, id |-> NoId]
        <5>1. x \notin Bears(menu.list)
          BY <2>6, <4>6
        <5> QED
          BY <4>2, <4>6, <5>1
      <4> QED
        BY <4>2, <4>3, <4>4, <4>5, <4>6
    <3> QED
      BY <3>1, <3>2
  <2> QED
    BY <1>8, <2>1, <2>3, <2>8 DEF Keeping
<1>9. ASSUME ~AtMenu PROVE Keeping
  BY <1>7, <1>9 DEF Keeping
<1> QED
  BY <1>5, <1>6, <1>8, <1>9 DEF MenuInv

\* MenuInv is inductive.
LEMMA MenuInvKeeps == ASSUME OfficeInv, MenuInv, [Next]_vars PROVE MenuInv'
<1>1. CASE Next /\ ~AtMenu
  <2>1. UNCHANGED menuRows
    BY <1>1 DEF Next, MenuNext, AtMenu
  <2> QED
    BY <1>1, <2>1, DeskStays, NotAtMenu
<1>2. CASE AtMenu /\ MenuNext
  <2>1. PICK i \in Slots : MenuArrives(i) \/ MenuStep(i)
    BY <1>2 DEF MenuNext
  <2> QED
    BY <1>2, <2>1, MenuArrivesKeeps, MenuStepKeeps
<1>3. CASE AtMenu /\ ~MenuNext /\ Next
  <2>1. PICK i \in Slots : Dies(i) /\ UNCHANGED menuRows
    BY <1>3 DEF Next, AtMenu, ShiftsNext, ZonesNext, RecipesNext
  <2> QED
    BY <1>3, <2>1, DiesInMenu
<1>4. CASE UNCHANGED vars
  <2>1. UNCHANGED <<menu, mirror, aligned, served, req, counts, torn>>
    BY <1>4 DEF vars, deskVars, menuRows
  <2>2. AtMenu' <=> AtMenu
    BY <2>1 DEF AtMenu
  <2>3. MenuType'
    BY <2>1, <2>2 DEF MenuInv, MenuType
  <2>4. Mirroring'
    BY <2>1, <2>2 DEF MenuInv, Mirroring, At, Quiet
  <2>5. Keeping'
    <3>1. Rebuilding' <=> Rebuilding
      BY <2>1 DEF Rebuilding
    <3>2. Borne' = Borne
      BY <2>1, <3>1 DEF Borne
    <3> QED
      BY <2>1, <2>2, <3>1, <3>2 DEF MenuInv, Keeping
  <2> QED
    BY <2>3, <2>4, <2>5 DEF MenuInv
<1> QED
  BY <1>1, <1>2, <1>3, <1>4

\* The menu and its rows, and the ids that dishes are known by, stay as MenuInv says.
THEOREM MenuHolds == Spec => []MenuInv
<1>1. Init => MenuInv
  BY FirstMenuInv
<1>2. OfficeInv /\ MenuInv /\ [Next]_vars => MenuInv'
  BY MenuInvKeeps
<1> QED
  BY <1>1, <1>2, OfficeHolds, PTL DEF Spec

\* When all has come to rest, the rows are those of the menu (menu.js:442-444, 487-490),
\* unless two writes met, one was cut short or the two have not lined up before.
THEOREM MirrorsFollow == Spec => []MirrorFollows
<1>1. ASSUME MenuInv PROVE MirrorFollows
  <2> SUFFICES ASSUME Quiet, House \notin torn, counts.cut = <<>>, aligned, menu.there
               PROVE  LinesUp(menu.list, mirror)
    BY DEF MirrorFollows
  <2>1. Resting(menu, mirror, aligned)
    BY <1>1 DEF MenuInv, Mirroring
  <2> QED
    BY <2>1 DEF Resting
<1> QED
  BY <1>1, MenuHolds, PTL

\* A dish keeps the id it was served or stored under, whichever writes met (menu.js:26-33).
THEOREM IdsAreKept == Spec => []IdsKept
<1>1. ASSUME MenuInv PROVE IdsKept
  <2>1. CASE served = {}
    BY <2>1 DEF IdsKept
  <2>2. CASE served # {} /\ ~AtMenu
    BY <1>1, <2>2 DEF MenuInv, Keeping, Single, IdsKept
  <2>3. CASE served # {} /\ AtMenu
    <3>1. Single(Borne) /\ served \subseteq Borne
      BY <1>1, <2>3, BorneAlready DEF MenuInv, Keeping
    <3> QED
      BY <3>1 DEF Single, IdsKept
  <2> QED
    BY <2>1, <2>2, <2>3
<1> QED
  BY <1>1, MenuHolds, PTL

=================================================================================
