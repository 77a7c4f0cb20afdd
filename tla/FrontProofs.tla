------------------------------ MODULE FrontProofs ------------------------------
(***************************************************************************)
(* Proofs about the front of the house.                                    *)
(*                                                                         *)
(* First about Live and the meter under it, for any isolates, loads, row   *)
(* counts and budget, and any polls, roles, orders and screens; then about *)
(* Bills, for any orders, lines, prices, tickets and seats, any number of  *)
(* requests at once and any failures.                                      *)
(***************************************************************************)
EXTENDS Live, Bills, SumProofs, SequenceTheorems

Days  == {0, 1}
Pins  == ModeNames \cup {Unpinned}
Meter == [day : Days, local : Nat, reads : Nat, override : Pins, looked : BOOLEAN,
          due : BOOLEAN, flushedLocal : Nat, mode : Pins, cronTicks : Nat]
Look  == [key : Days, reads : Nat, override : Pins]
Get   == [at : {"get"}, key : Days]
Put   == [at : {"put"}, key : Days, merged : Nat]

LoadOK == left \in [LoadKinds -> Nat] /\ left["isolates"] <= MaxIsolates

\* The types of what the meter and KV hold.
QuotaType ==
  /\ today \in Days
  /\ meter \in [Isolates -> Meter]
  /\ looks \in [Isolates -> SUBSET Look]
  /\ flush \in [Isolates -> {Idle} \cup Get \cup Put]
  /\ pinning \in [Isolates -> Pins \cup {Nothing}]
  /\ kv \in [day : [Days -> Nat], override : Pins]
  /\ rowsRead \in [Days -> Nat]
  /\ crossed \in BOOLEAN

\* What is under way in isolate i is about its own day or an earlier one, and no
\* isolate is ahead of the date.
InTime(i) ==
  /\ meter[i].day <= today
  /\ \A look \in looks[i] : look.key <= meter[i].day
  /\ flush[i] # Idle => flush[i].key <= meter[i].day

\* What isolate i holds of today, or has under way, is no more than was read today.
Honest(i) ==
  /\ meter[i].day = today =>
       meter[i].local <= rowsRead[today] /\ meter[i].reads <= rowsRead[today]
  /\ \A look \in looks[i] : look.key = today => look.reads <= rowsRead[today]
  /\ flush[i] \in Put /\ flush[i].key = today => flush[i].merged <= rowsRead[today]

\* Nothing is stored or read for a day that has not begun.
Tomorrow == today = 0 => kv.day[1] = 0 /\ rowsRead[1] = 0

\* The strengthening of TodayIsNotOverstated.
MeterInv ==
  /\ LoadOK /\ QuotaType /\ Tomorrow /\ TodayIsNotOverstated
  /\ \A i \in Isolates : InTime(i) /\ (Honest(i) \/ crossed)

-----------------------------------------------------------------------------
(* The meter's arithmetic.                                                 *)

LEMMA RolledOver ==
  ASSUME today \in Days, NEW m \in Meter
  PROVE  /\ RolloverIfNeeded(m) \in Meter
         /\ RolloverIfNeeded(m).day = today
         /\ m.day = today => RolloverIfNeeded(m) = m
         /\ m.day # today => RolloverIfNeeded(m).local = 0 /\ RolloverIfNeeded(m).reads = 0
BY DEF RolloverIfNeeded, Meter

LEMMA ModeIsName ==
  ASSUME NEW read \in Nat, NEW override \in Pins
  PROVE  ModeForEstimate(read, override) \in Pins
BY QuotaAssumption DEF ModeForEstimate, Pins, ModeNames

LEMMA EstimateBounds ==
  ASSUME NEW m \in Meter
  PROVE  EstimateToday(m) \in {m.reads, m.local} /\ EstimateToday(m) \in Nat
BY DEF EstimateToday, Greater, Meter

LEMMA Recomputed ==
  ASSUME NEW m \in Meter
  PROVE  /\ RecomputeMode(m) \in Meter
         /\ RecomputeMode(m).day = m.day
         /\ RecomputeMode(m).local = m.local /\ RecomputeMode(m).reads = m.reads
<1>1. ModeForEstimate(EstimateToday(m), m.override) \in Pins
  BY ModeIsName, EstimateBounds DEF Meter
<1> QED
  BY <1>1 DEF RecomputeMode, Meter

LEMMA LoadStays ==
  ASSUME LoadOK,
         \/ left' = left
         \/ \E what \in LoadKinds \ {"isolates"} : Spend(what)
  PROVE  LoadOK' /\ Serving \subseteq Isolates
BY QuotaAssumption DEF LoadOK, Spend, Serving, Isolates, LoadKinds

\* What does not touch the meters leaves them true.
LEMMA QuotaStutters ==
  ASSUME MeterInv, UNCHANGED quotaVars, LoadOK'
  PROVE  MeterInv'
BY DEF MeterInv, quotaVars, QuotaType, Tomorrow, TodayIsNotOverstated, InTime, Honest

-----------------------------------------------------------------------------
(* The meter's steps.                                                      *)

LEMMA InitHolds == Init => MeterInv
<1> SUFFICES ASSUME Init PROVE MeterInv
  OBVIOUS
<1>1. LoadOK
  BY LoadsAssumption DEF Init, QuotaInit, LoadOK
<1>2. Cold(0) \in Meter /\ Cold(0).day = 0 /\ Cold(0).local = 0 /\ Cold(0).reads = 0
  BY DEF Cold, Meter, Days, Pins, ModeNames
<1>3. QuotaType
  BY <1>2 DEF Init, QuotaInit, QuotaType, Days, Pins
<1> QED
  BY <1>1, <1>2, <1>3
     DEF Init, QuotaInit, MeterInv, Tomorrow, TodayIsNotOverstated, InTime, Honest, Put, Idle

\* What isolate i has under way stays in time when it looks and stores for its own day.
LEMMA StaysInTime ==
  ASSUME MeterInv, QuotaType', NEW i \in Isolates, today' = today,
         meter'[i].day \in {meter[i].day, today},
         \A look \in looks'[i] : look \in looks[i] \/ look.key = meter'[i].day,
         \/ flush'[i] \in {flush[i], Idle}
         \/ flush'[i].key = meter'[i].day
         \/ flush[i] # Idle /\ flush'[i].key = flush[i].key
  PROVE  InTime(i)'
<1>1. meter[i].day \in Days /\ today \in Days /\ InTime(i)
  BY DEF MeterInv, QuotaType, Meter
<1>2. \A look \in looks[i] : look.key \in Days
  BY DEF MeterInv, QuotaType, Look
<1>3. flush[i] # Idle => flush[i].key \in Days
  BY DEF MeterInv, QuotaType, Get, Put
<1> QED
  BY <1>1, <1>2, <1>3 DEF InTime, Days

\* A step of isolate i alone, that neither reads rows nor stores a count.
LEMMA OneMoves ==
  ASSUME MeterInv, LoadOK', QuotaType', NEW i \in Isolates,
         UNCHANGED <<today, rowsRead>>, kv'.day = kv.day, crossed => crossed',
         \A j \in Isolates \ {i} :
           meter'[j] = meter[j] /\ looks'[j] = looks[j] /\ flush'[j] = flush[j],
         InTime(i)', Honest(i)' \/ crossed'
  PROVE  MeterInv'
<1>1. Tomorrow' /\ TodayIsNotOverstated'
  BY DEF MeterInv, Tomorrow, TodayIsNotOverstated
<1>2. ASSUME NEW j \in Isolates \ {i} PROVE InTime(j)' /\ (Honest(j)' \/ crossed')
  BY DEF MeterInv, InTime, Honest
<1> QED
  BY <1>1, <1>2 DEF MeterInv

LEMMA CountKeeps ==
  ASSUME MeterInv, NEW i \in Serving, NEW n \in RowCounts, CountRowsRead(i, n)
  PROVE  MeterInv'
<1> USE DEF MeterInv
<1>1. LoadOK' /\ i \in Isolates
  BY LoadStays DEF CountRowsRead, LoadKinds
<1> DEFINE m == RolloverIfNeeded(meter[i])
           c == [m EXCEPT !.local = @ + n]
<1>2. n \in Nat /\ meter[i] \in Meter
  BY <1>1, QuotaAssumption DEF QuotaType
<1>3. m \in Meter /\ m.day = today
  BY <1>2, RolledOver DEF QuotaType
<1>4. c \in Meter /\ c.day = today /\ c.local = m.local + n /\ c.reads = m.reads
  BY <1>2, <1>3 DEF Meter
<1>5. /\ meter' = [meter EXCEPT ![i] = RecomputeMode(c)]
      /\ RecomputeMode(c) \in Meter /\ RecomputeMode(c).day = today
      /\ RecomputeMode(c).local = m.local + n /\ RecomputeMode(c).reads = m.reads
  BY <1>4, Recomputed DEF CountRowsRead
<1>6. rowsRead' = [rowsRead EXCEPT ![today] = @ + n] /\ rowsRead[today] \in Nat
      /\ UNCHANGED <<today, looks, flush, pinning, kv, crossed>>
  BY DEF CountRowsRead, QuotaType
<1>7. QuotaType'
  BY <1>1, <1>2, <1>5, <1>6 DEF QuotaType
<1>8. ASSUME NEW j \in Isolates PROVE InTime(j)'
  <2>1. CASE j = i
    <3>1. meter'[i].day = today /\ today' = today /\ looks'[i] = looks[i] /\ flush'[i] = flush[i]
      BY <1>1, <1>5, <1>6 DEF QuotaType
    <3> QED
      BY <1>1, <1>7, <2>1, <3>1, StaysInTime
  <2>2. CASE j # i
    BY <1>1, <1>5, <1>6, <2>2 DEF QuotaType, InTime
  <2> QED
    BY <2>1, <2>2
<1>9. ~crossed => m.local <= rowsRead[today] /\ m.reads <= rowsRead[today]
  BY <1>1, <1>2, <1>6, RolledOver DEF QuotaType, Honest
<1>10. ASSUME NEW j \in Isolates PROVE Honest(j)' \/ crossed'
  BY <1>1, <1>2, <1>3, <1>5, <1>6, <1>7, <1>9 DEF QuotaType, Honest, Meter, Look, Put
<1>11. Tomorrow' /\ TodayIsNotOverstated'
  BY <1>2, <1>6 DEF QuotaType, Tomorrow, TodayIsNotOverstated, Days
<1> QED
  BY <1>1, <1>7, <1>8, <1>10, <1>11

\* A tick takes its isolate to a meter that is as honest, and may begin to store.
LEMMA FlushKeeps ==
  ASSUME MeterInv, NEW i \in Isolates, NEW m \in Meter, FlushIfDue(i, m)
  PROVE  /\ meter' = [meter EXCEPT ![i] = m]
         /\ meter' \in [Isolates -> Meter]
         /\ flush' \in [Isolates -> {Idle} \cup Get \cup Put]
         /\ \A j \in Isolates \ {i} : flush'[j] = flush[j]
         /\ \/ flush'[i] = flush[i]
            \/ flush'[i] \in Get /\ flush'[i].key = m.day
<1>1. [at |-> "get", key |-> m.day] \in Get
  BY DEF Get, Meter
<1> QED
  BY <1>1 DEF FlushIfDue, MeterInv, QuotaType

LEMMA TickKeeps ==
  ASSUME MeterInv, NEW i \in Serving, QuotaTick(i)
  PROVE  MeterInv'
<1> DEFINE m == RolloverIfNeeded(meter[i])
<1>1. LoadOK' /\ i \in Isolates
  BY LoadStays DEF MeterInv, QuotaTick, LoadKinds
<1>2. meter[i] \in Meter /\ today \in Days
  BY <1>1 DEF MeterInv, QuotaType
<1>3. /\ m \in Meter /\ m.day = today
      /\ ~crossed => m.local <= rowsRead[today] /\ m.reads <= rowsRead[today]
  BY <1>1, <1>2, RolledOver DEF MeterInv, QuotaType, Honest
<1>4. UNCHANGED <<today, pinning, kv, rowsRead, crossed>>
  BY DEF QuotaTick
<1>5. CASE FlushIfDue(i, RecomputeMode(m)) /\ UNCHANGED <<looks, left>>
  <2>1. RecomputeMode(m) \in Meter /\ RecomputeMode(m).day = today
        /\ RecomputeMode(m).local = m.local /\ RecomputeMode(m).reads = m.reads
    BY <1>3, Recomputed
  <2>2. /\ meter' = [meter EXCEPT ![i] = RecomputeMode(m)]
        /\ meter' \in [Isolates -> Meter]
        /\ flush' \in [Isolates -> {Idle} \cup Get \cup Put]
        /\ \A j \in Isolates \ {i} : flush'[j] = flush[j]
        /\ \/ flush'[i] = flush[i]
           \/ flush'[i] \in Get /\ flush'[i].key = today
    BY <1>1, <1>5, <2>1, FlushKeeps
  <2>3. meter'[i] = RecomputeMode(m) /\ \A j \in Isolates \ {i} : meter'[j] = meter[j]
    BY <1>1, <2>2 DEF MeterInv, QuotaType
  <2>4. QuotaType'
    BY <1>4, <1>5, <2>2 DEF MeterInv, QuotaType
  <2>5. InTime(i)'
    BY <1>1, <1>4, <1>5, <2>1, <2>2, <2>3, <2>4, StaysInTime
  <2>6. Honest(i)' \/ crossed'
    BY <1>1, <1>3, <1>4, <1>5, <2>1, <2>2, <2>3 DEF MeterInv, Honest, Get, Put
  <2> QED
    BY <1>1, <1>4, <1>5, <2>2, <2>3, <2>4, <2>5, <2>6, OneMoves
<1>6. CASE /\ meter' = [meter EXCEPT ![i] = [m EXCEPT !.looked = TRUE]]
           /\ looks' = [looks EXCEPT ![i] = @ \cup
                {[key |-> m.day, reads |-> kv.day[m.day], override |-> kv.override]}]
           /\ flush' = flush
  <2> DEFINE look == [key |-> m.day, reads |-> kv.day[m.day], override |-> kv.override]
  <2>1. look \in Look /\ look.key = today /\ look.reads = kv.day[today]
    BY <1>2, <1>3 DEF MeterInv, QuotaType, Look
  <2>2. [m EXCEPT !.looked = TRUE] \in Meter /\ [m EXCEPT !.looked = TRUE].day = today
        /\ [m EXCEPT !.looked = TRUE].local = m.local
        /\ [m EXCEPT !.looked = TRUE].reads = m.reads
    BY <1>3 DEF Meter
  <2>3. /\ meter'[i] = [m EXCEPT !.looked = TRUE]
        /\ looks'[i] = looks[i] \cup {look} /\ flush'[i] = flush[i]
        /\ \A j \in Isolates \ {i} :
             meter'[j] = meter[j] /\ looks'[j] = looks[j] /\ flush'[j] = flush[j]
    BY <1>1, <1>6 DEF MeterInv, QuotaType
  <2>4. QuotaType'
    BY <1>1, <1>4, <1>6, <2>1, <2>2 DEF MeterInv, QuotaType
  <2>5. InTime(i)'
    BY <1>1, <1>4, <2>1, <2>2, <2>3, <2>4, StaysInTime
  <2>6. Honest(i)' \/ crossed'
    BY <1>1, <1>3, <1>4, <2>1, <2>2, <2>3 DEF MeterInv, Honest, TodayIsNotOverstated
  <2> QED
    BY <1>1, <1>4, <2>3, <2>4, <2>5, <2>6, OneMoves
<1> QED
  BY <1>5, <1>6 DEF QuotaTick

LEMMA LookKeeps ==
  ASSUME MeterInv, NEW i \in Serving, LookAnswered(i)
  PROVE  MeterInv'
<1>1. LoadOK' /\ i \in Isolates
  BY LoadStays DEF MeterInv, LookAnswered
<1>2. PICK look \in looks[i] :
        /\ \E reads \in {look.reads, kv.day[look.key]}, override \in {look.override, kv.override} :
             FlushIfDue(i, RecomputeMode([meter[i] EXCEPT !.reads = reads,
                                                          !.override = override]))
        /\ looks' = [looks EXCEPT ![i] = @ \ {look}]
        /\ crossed' = (crossed \/ look.key # meter[i].day)
        /\ UNCHANGED <<today, pinning, kv, rowsRead, left>>
  BY DEF LookAnswered
<1>2a. PICK reads \in {look.reads, kv.day[look.key]}, override \in {look.override, kv.override} :
        FlushIfDue(i, RecomputeMode([meter[i] EXCEPT !.reads = reads, !.override = override]))
  BY <1>2
<1> DEFINE c == [meter[i] EXCEPT !.reads = reads, !.override = override]
           m == RecomputeMode(c)
<1>3. look \in Look /\ meter[i] \in Meter /\ kv.override \in Pins /\ kv.day[look.key] \in Nat
  BY <1>1 DEF MeterInv, QuotaType, Look
<1>4. reads \in Nat /\ override \in Pins
  BY <1>2, <1>3 DEF Look
<1>5. c \in Meter /\ c.day = meter[i].day /\ c.local = meter[i].local /\ c.reads = reads
  BY <1>3, <1>4 DEF Meter
<1>6. m \in Meter /\ m.day = meter[i].day /\ m.local = meter[i].local /\ m.reads = reads
  BY <1>5, Recomputed
<1>7. /\ meter' = [meter EXCEPT ![i] = m]
      /\ meter' \in [Isolates -> Meter]
      /\ flush' \in [Isolates -> {Idle} \cup Get \cup Put]
      /\ \A j \in Isolates \ {i} : flush'[j] = flush[j]
      /\ flush'[i] = flush[i] \/ (flush'[i] \in Get /\ flush'[i].key = m.day)
  BY <1>2a, <1>1, <1>6, FlushKeeps
<1>8. /\ meter'[i] = m /\ looks'[i] = looks[i] \ {look}
      /\ \A j \in Isolates \ {i} : meter'[j] = meter[j] /\ looks'[j] = looks[j]
  BY <1>1, <1>2, <1>7 DEF MeterInv, QuotaType
<1>9. QuotaType'
  BY <1>1, <1>2, <1>7 DEF MeterInv, QuotaType
<1>10. InTime(i)'
  BY <1>1, <1>2, <1>6, <1>7, <1>8, <1>9, StaysInTime
<1>11. Honest(i)' \/ crossed'
  <2>1. CASE crossed \/ look.key # meter[i].day
    BY <1>2, <2>1
  <2>2. CASE ~crossed /\ look.key = meter[i].day
    <3>1. Honest(i) /\ kv.day[today] <= rowsRead[today]
      BY <1>1, <2>2 DEF MeterInv, TodayIsNotOverstated
    <3>2. m.day = today => m.local <= rowsRead[today] /\ m.reads <= rowsRead[today]
      BY <1>2, <1>6, <2>2, <3>1 DEF Honest
    <3> QED
      BY <1>2, <1>7, <1>8, <3>1, <3>2 DEF Honest, Get, Put
  <2> QED
    BY <2>1, <2>2
<1>12. crossed => crossed'
  BY <1>2
<1> QED
  BY <1>1, <1>2, <1>7, <1>8, <1>9, <1>10, <1>11, <1>12, OneMoves

LEMMA LookFailureKeeps ==
  ASSUME MeterInv, NEW i \in Serving, LookFails(i)
  PROVE  MeterInv'
<1>1. LoadOK' /\ i \in Isolates
  BY LoadStays DEF MeterInv, LookFails, LoadKinds
<1>2. PICK look \in looks[i] : looks' = [looks EXCEPT ![i] = @ \ {look}]
  BY DEF LookFails
<1> DEFINE m == RecomputeMode(meter[i])
<1>3. /\ m \in Meter /\ m.day = meter[i].day
      /\ m.local = meter[i].local /\ m.reads = meter[i].reads
  BY <1>1, Recomputed DEF MeterInv, QuotaType
<1>4. /\ meter' = [meter EXCEPT ![i] = m]
      /\ meter' \in [Isolates -> Meter]
      /\ flush' \in [Isolates -> {Idle} \cup Get \cup Put]
      /\ \A j \in Isolates \ {i} : flush'[j] = flush[j]
      /\ flush'[i] = flush[i] \/ (flush'[i] \in Get /\ flush'[i].key = m.day)
  BY <1>1, <1>3, FlushKeeps DEF LookFails
<1>5. UNCHANGED <<today, pinning, kv, rowsRead, crossed>>
  BY DEF LookFails
<1>6. /\ meter'[i] = m /\ looks'[i] = looks[i] \ {look}
      /\ \A j \in Isolates \ {i} : meter'[j] = meter[j] /\ looks'[j] = looks[j]
  BY <1>1, <1>2, <1>4 DEF MeterInv, QuotaType
<1>7. QuotaType'
  BY <1>1, <1>2, <1>4, <1>5 DEF MeterInv, QuotaType
<1>8. InTime(i)'
  BY <1>1, <1>3, <1>4, <1>5, <1>6, <1>7, StaysInTime
<1>9. Honest(i)' \/ crossed'
  BY <1>1, <1>3, <1>4, <1>5, <1>6 DEF MeterInv, Honest, Get, Put
<1> QED
  BY <1>1, <1>4, <1>5, <1>6, <1>7, <1>8, <1>9, OneMoves

\* After a store the meter says so, and is otherwise as it was.
LEMMA StoredKeeps ==
  ASSUME MeterInv, NEW i \in Isolates, Stored(i)
  PROVE  /\ meter' \in [Isolates -> Meter] /\ flush' \in [Isolates -> {Idle} \cup Get \cup Put]
         /\ meter'[i].day = meter[i].day /\ meter'[i].local = meter[i].local
         /\ meter'[i].reads = meter[i].reads /\ flush'[i] = Idle
         /\ \A j \in Isolates \ {i} : meter'[j] = meter[j] /\ flush'[j] = flush[j]
<1> DEFINE m == [meter[i] EXCEPT !.due = FALSE, !.flushedLocal = meter[i].local]
<1>1. meter[i] \in Meter
  BY DEF MeterInv, QuotaType
<1>2. m \in Meter /\ m.day = meter[i].day /\ m.local = meter[i].local /\ m.reads = meter[i].reads
  BY <1>1 DEF Meter
<1>3. meter' = [meter EXCEPT ![i] = m] /\ flush' = [flush EXCEPT ![i] = Idle]
  BY DEF Stored
<1> QED
  BY <1>2, <1>3 DEF MeterInv, QuotaType

LEMMA IdleIsNoPut == Idle \notin Put /\ Idle \notin Get
BY DEF Idle, Put, Get

LEMMA FlushLookKeeps ==
  ASSUME MeterInv, NEW i \in Serving, FlushLooked(i)
  PROVE  MeterInv'
<1> DEFINE key    == flush[i].key
           merged == Greater(kv.day[key], EstimateToday(meter[i]))
           put    == [at |-> "put", key |-> key, merged |-> merged]
<1>1. LoadOK' /\ i \in Isolates
  BY LoadStays DEF MeterInv, FlushLooked
<1>2. UNCHANGED <<today, looks, pinning, kv, rowsRead, crossed>> /\ flush[i].at = "get"
  BY DEF FlushLooked
<1>3. flush[i] \in Get /\ meter[i] \in Meter /\ InTime(i) /\ flush[i] # Idle
  BY <1>1, <1>2 DEF MeterInv, QuotaType, Put, Idle, Get
<1>4. CASE flush' = [flush EXCEPT ![i] = put] /\ meter' = meter
  <2>1. key \in Days /\ kv.day[key] \in Nat /\ EstimateToday(meter[i]) \in Nat
    BY <1>3, EstimateBounds DEF MeterInv, QuotaType, Get
  <2>2. merged \in Nat /\ merged \in {kv.day[key], meter[i].reads, meter[i].local}
    BY <1>3, <2>1, EstimateBounds DEF Greater
  <2>3. put \in Put /\ put.key = key /\ put.merged = merged
    BY <2>1, <2>2 DEF Put
  <2>4. /\ flush'[i] = put /\ flush' \in [Isolates -> {Idle} \cup Get \cup Put]
        /\ \A j \in Isolates \ {i} : flush'[j] = flush[j]
    BY <1>1, <1>4, <2>3 DEF MeterInv, QuotaType
  <2>5. QuotaType'
    BY <1>2, <1>4, <2>4 DEF MeterInv, QuotaType
  <2>6. InTime(i)'
    BY <1>1, <1>2, <1>3, <1>4, <2>3, <2>4, <2>5, StaysInTime
  <2>7. key = today => meter[i].day = today
    BY <1>3, <2>1 DEF MeterInv, QuotaType, InTime, Days, Meter
  <2>8. Honest(i)' \/ crossed'
    BY <1>1, <1>2, <1>3, <1>4, <2>2, <2>3, <2>4, <2>7
       DEF MeterInv, Honest, TodayIsNotOverstated
  <2> QED
    BY <1>1, <1>2, <1>4, <2>4, <2>5, <2>6, <2>8, OneMoves
<1>5. CASE Stored(i)
  <2>1. QuotaType'
    BY <1>1, <1>2, <1>5, StoredKeeps DEF MeterInv, QuotaType
  <2>2. InTime(i)'
    BY <1>1, <1>2, <1>5, <2>1, StoredKeeps, StaysInTime
  <2>3. Honest(i)' \/ crossed'
    BY <1>1, <1>2, <1>5, StoredKeeps, IdleIsNoPut DEF MeterInv, Honest
  <2> QED
    BY <1>1, <1>2, <1>5, <2>1, <2>2, <2>3, StoredKeeps, OneMoves
<1> QED
  BY <1>4, <1>5 DEF FlushLooked

LEMMA PutKeeps ==
  ASSUME MeterInv, NEW i \in Serving, FlushPuts(i)
  PROVE  MeterInv'
<1> DEFINE key == flush[i].key
<1>1. LoadOK' /\ i \in Isolates
  BY LoadStays DEF MeterInv, FlushPuts
<1>2. /\ UNCHANGED <<today, looks, pinning, rowsRead, crossed>>
      /\ kv' = [kv EXCEPT !.day[key] = flush[i].merged]
      /\ flush[i].at = "put" /\ Stored(i)
  BY DEF FlushPuts
<1>3. flush[i] \in Put /\ flush[i] # Idle /\ InTime(i) /\ key \in Days /\ flush[i].merged \in Nat
  BY <1>1, <1>2 DEF MeterInv, QuotaType, Put, Idle, Get
<1>4. /\ kv' \in [day : [Days -> Nat], override : Pins]
      /\ kv'.day[key] = flush[i].merged
      /\ \A d \in Days \ {key} : kv'.day[d] = kv.day[d]
  BY <1>2, <1>3 DEF MeterInv, QuotaType
<1>5. QuotaType'
  BY <1>1, <1>2, <1>4, StoredKeeps DEF MeterInv, QuotaType
<1>6. Tomorrow'
  <2>1. key <= today
    BY <1>1, <1>3 DEF MeterInv, QuotaType, InTime, Days, Meter
  <2> QED
    BY <1>2, <1>4, <2>1 DEF MeterInv, QuotaType, Tomorrow, Days
<1>7. TodayIsNotOverstated'
  BY <1>1, <1>2, <1>3, <1>4 DEF MeterInv, QuotaType, TodayIsNotOverstated, Honest
<1>8. InTime(i)'
  BY <1>1, <1>2, <1>5, StoredKeeps, StaysInTime
<1>9. Honest(i)' \/ crossed'
  BY <1>1, <1>2, StoredKeeps, IdleIsNoPut DEF MeterInv, Honest
<1>10. ASSUME NEW j \in Isolates \ {i} PROVE InTime(j)' /\ (Honest(j)' \/ crossed')
  BY <1>1, <1>2, StoredKeeps DEF MeterInv, InTime, Honest
<1> QED
  BY <1>1, <1>5, <1>6, <1>7, <1>8, <1>9, <1>10 DEF MeterInv

\* An isolate whose fields that count are as they were.
LEMMA MeterStirs ==
  ASSUME MeterInv, LoadOK', NEW i \in Isolates, NEW m \in Meter,
         meter' = [meter EXCEPT ![i] = m], m.day = meter[i].day,
         m.local = meter[i].local, m.reads = meter[i].reads,
         pinning' \in [Isolates -> Pins \cup {Nothing}],
         UNCHANGED <<today, looks, flush, kv, rowsRead, crossed>>
  PROVE  MeterInv'
<1>1. QuotaType'
  BY DEF MeterInv, QuotaType
<1>2. meter'[i] = m /\ \A j \in Isolates \ {i} : meter'[j] = meter[j]
  BY DEF MeterInv, QuotaType
<1>3. InTime(i)' /\ (Honest(i)' \/ crossed')
  BY <1>2 DEF MeterInv, InTime, Honest
<1> QED
  BY <1>1, <1>2, <1>3, OneMoves

LEMMA FlushFailureKeeps ==
  ASSUME MeterInv, NEW i \in Serving, FlushFails(i)
  PROVE  MeterInv'
<1>1. LoadOK' /\ i \in Isolates
  BY LoadStays DEF MeterInv, FlushFails, LoadKinds
<1>2. UNCHANGED <<today, meter, looks, pinning, kv, rowsRead, crossed>>
      /\ flush' = [flush EXCEPT ![i] = Idle]
  BY DEF FlushFails
<1>3. QuotaType'
  BY <1>2 DEF MeterInv, QuotaType
<1>4. flush'[i] = Idle /\ \A j \in Isolates \ {i} : flush'[j] = flush[j]
  BY <1>1, <1>2 DEF MeterInv, QuotaType
<1>5. InTime(i)' /\ (Honest(i)' \/ crossed')
  BY <1>1, <1>2, <1>4, IdleIsNoPut DEF MeterInv, InTime, Honest
<1> QED
  BY <1>1, <1>2, <1>3, <1>4, <1>5, OneMoves

LEMMA PinsKeep ==
  ASSUME MeterInv, NEW i \in Serving,
         PinMode(i) \/ \E mode \in Pins : PinModeInKv(i, mode)
  PROVE  MeterInv'
<1>1. LoadOK' /\ i \in Isolates
  BY LoadStays DEF MeterInv, PinMode, PinModeInKv, LoadKinds
<1>2. CASE PinMode(i)
  <2> DEFINE c == [meter[i] EXCEPT !.override = pinning[i]]
  <2>1. c \in Meter /\ c.day = meter[i].day /\ c.local = meter[i].local /\ c.reads = meter[i].reads
    BY <1>1, <1>2 DEF PinMode, MeterInv, QuotaType, Meter
  <2>2. /\ RecomputeMode(c) \in Meter /\ RecomputeMode(c).day = meter[i].day
        /\ RecomputeMode(c).local = meter[i].local /\ RecomputeMode(c).reads = meter[i].reads
    BY <2>1, Recomputed
  <2>3. meter' = [meter EXCEPT ![i] = RecomputeMode(c)]
        /\ pinning' \in [Isolates -> Pins \cup {Nothing}]
        /\ UNCHANGED <<today, looks, flush, kv, rowsRead, crossed>>
    BY <1>1, <1>2 DEF PinMode, MeterInv, QuotaType
  <2> QED
    BY <1>1, <2>2, <2>3, MeterStirs
<1>3. CASE \E mode \in Pins : PinModeInKv(i, mode)
  <2>1. PICK mode \in Pins : PinModeInKv(i, mode)
    BY <1>3
  <2>2. /\ kv' = [kv EXCEPT !.override = mode]
        /\ pinning' = [pinning EXCEPT ![i] = mode]
        /\ UNCHANGED <<today, meter, looks, flush, rowsRead, crossed>>
    BY <2>1 DEF PinModeInKv
  <2>3. kv'.day = kv.day /\ QuotaType'
    BY <1>1, <2>2 DEF MeterInv, QuotaType
  <2>4. \A j \in Isolates : InTime(j)' /\ (Honest(j)' \/ crossed')
    BY <2>2 DEF MeterInv, InTime, Honest
  <2> QED
    BY <1>1, <2>2, <2>3, <2>4 DEF MeterInv, Tomorrow, TodayIsNotOverstated
<1> QED
  BY <1>2, <1>3

LEMMA TimeKeeps ==
  ASSUME MeterInv, NEW i \in Serving, MinutePasses(i) \/ HalfHourPasses(i)
  PROVE  MeterInv'
<1>1. LoadOK' /\ i \in Isolates
  BY LoadStays DEF MeterInv, MinutePasses, HalfHourPasses
<1>2. meter[i] \in Meter /\ pinning \in [Isolates -> Pins \cup {Nothing}]
  BY <1>1 DEF MeterInv, QuotaType
<1>3. CASE MinutePasses(i)
  <2> DEFINE m == [meter[i] EXCEPT !.looked = FALSE]
  <2>1. m \in Meter /\ m.day = meter[i].day /\ m.local = meter[i].local /\ m.reads = meter[i].reads
    BY <1>2 DEF Meter
  <2>2. meter' = [meter EXCEPT ![i] = m]
        /\ UNCHANGED <<today, looks, flush, pinning, kv, rowsRead, crossed>>
    BY <1>1, <1>3 DEF MinutePasses, MeterInv, QuotaType
  <2> QED
    BY <1>1, <1>2, <2>1, <2>2, MeterStirs
<1>4. CASE HalfHourPasses(i)
  <2> DEFINE m == [meter[i] EXCEPT !.due = TRUE, !.looked = FALSE]
  <2>1. m \in Meter /\ m.day = meter[i].day /\ m.local = meter[i].local /\ m.reads = meter[i].reads
    BY <1>2 DEF Meter
  <2>2. meter' = [meter EXCEPT ![i] = m]
        /\ UNCHANGED <<today, looks, flush, pinning, kv, rowsRead, crossed>>
    BY <1>1, <1>4 DEF HalfHourPasses, MeterInv, QuotaType
  <2> QED
    BY <1>1, <1>2, <2>1, <2>2, MeterStirs
<1> QED
  BY <1>3, <1>4

LEMMA MidnightKeeps ==
  ASSUME MeterInv, Midnight
  PROVE  MeterInv'
<1>1. LoadOK'
  BY LoadStays DEF MeterInv, Midnight, LoadKinds
<1>2. today = 0 /\ today' = 1 /\ UNCHANGED <<meter, looks, flush, pinning, kv, rowsRead, crossed>>
  BY DEF Midnight
<1>3. QuotaType' /\ Tomorrow' /\ TodayIsNotOverstated'
  BY <1>2 DEF MeterInv, QuotaType, Tomorrow, TodayIsNotOverstated, Days
<1>4. ASSUME NEW i \in Isolates PROVE InTime(i)' /\ Honest(i)'
  <2>1. meter[i].day = 0 /\ \A look \in looks[i] : look.key = 0
    BY <1>2 DEF MeterInv, QuotaType, InTime, Meter, Look, Days
  <2>2. flush[i] # Idle => flush[i].key = 0
    BY <1>2, <2>1 DEF MeterInv, QuotaType, InTime, Get, Put, Days
  <2> QED
    BY <1>2, <2>1, <2>2, IdleIsNoPut DEF InTime, Honest
<1> QED
  BY <1>1, <1>3, <1>4 DEF MeterInv

LEMMA EvictionKeeps ==
  ASSUME MeterInv, LoadOK', NEW i \in Isolates, Evicted(i)
  PROVE  MeterInv'
<1>1. today \in Days
  BY DEF MeterInv, QuotaType
<1>2. /\ Cold(today) \in Meter /\ Cold(today).day = today
      /\ Cold(today).local = 0 /\ Cold(today).reads = 0
  BY <1>1 DEF Cold, Meter, Pins, ModeNames
<1>3. UNCHANGED <<today, kv, rowsRead, crossed>>
  BY DEF Evicted
<1>4. QuotaType'
  BY <1>2, <1>3 DEF MeterInv, QuotaType, Evicted
<1>5. /\ meter'[i] = Cold(today) /\ looks'[i] = {} /\ flush'[i] = Idle
      /\ \A j \in Isolates \ {i} :
           meter'[j] = meter[j] /\ looks'[j] = looks[j] /\ flush'[j] = flush[j]
  BY DEF MeterInv, QuotaType, Evicted
<1>6. rowsRead[today] \in Nat /\ today <= today
  BY <1>1 DEF MeterInv, QuotaType, Days
<1>7. InTime(i)' /\ Honest(i)'
  BY <1>2, <1>3, <1>5, <1>6, IdleIsNoPut DEF InTime, Honest
<1> QED
  BY <1>3, <1>4, <1>5, <1>7, OneMoves

LEMMA QuotaKeeps ==
  ASSUME MeterInv, QuotaNext
  PROVE  MeterInv'
BY CountKeeps, TickKeeps, LookKeeps, LookFailureKeeps, FlushLookKeeps, PutKeeps,
   FlushFailureKeeps, PinsKeep, TimeKeeps, MidnightKeeps
   DEF QuotaNext, Pins

-----------------------------------------------------------------------------
(* The rest of Live.                                                       *)

LEMMA CronKeeps ==
  ASSUME MeterInv, NEW i \in Serving, CronSweeps(i)
  PROVE  MeterInv'
<1>1. LoadOK' /\ i \in Isolates
  BY LoadStays DEF MeterInv, CronSweeps, LoadKinds
<1> DEFINE ticks == (meter[i].cronTicks + 1) % 2
           m     == [meter[i] EXCEPT !.cronTicks = ticks]
<1>2. meter[i] \in Meter /\ meter[i].cronTicks \in Nat
  BY <1>1 DEF MeterInv, QuotaType, Meter
<1>3. ticks \in Nat
  BY <1>2
<1>4. m \in Meter /\ m.day = meter[i].day /\ m.local = meter[i].local /\ m.reads = meter[i].reads
  BY <1>2, <1>3 DEF Meter
<1>5. /\ meter' = [meter EXCEPT ![i] = m]
      /\ UNCHANGED <<today, looks, flush, pinning, kv, rowsRead, crossed>>
  BY <1>1 DEF CronSweeps, MeterInv, QuotaType
<1>6. pinning' \in [Isolates -> Pins \cup {Nothing}]
  BY <1>5 DEF MeterInv, QuotaType
<1> QED
  BY <1>1, <1>4, <1>5, <1>6, MeterStirs

\* Polls and writes leave the meters alone.
LEMMA PollsKeep ==
  ASSUME MeterInv,
         \/ \E p \in Pollers : \/ \E i \in Serving, role \in Roles : PollArrives(p, i, role)
                               \/ PollReads(p) \/ PollAnswers(p) \/ PollFails(p)
         \/ \E i \in Serving : \/ \E j \in 1 .. MAX_ENTRIES : EntryAges(i, j)
                               \/ \E role \in Roles : WriteCommits(i, role)
                               \/ WriteAnswers(i)
  PROVE  MeterInv'
<1>1. UNCHANGED quotaVars
  BY DEF PollArrives, PollReads, PollAnswers, PollFails, EntryAges, WriteCommits, WriteAnswers
<1>2. left' = left \/ \E what \in LoadKinds \ {"isolates"} : Spend(what)
  BY DEF PollArrives, PollReads, PollAnswers, PollFails, EntryAges, WriteCommits, WriteAnswers,
         LoadKinds
<1> QED
  BY <1>1, <1>2, LoadStays, QuotaStutters DEF MeterInv

\* So do the board and the screens that follow it.
LEMMA ScreensKeep ==
  ASSUME MeterInv,
         \/ \E i \in Serving : PayloadAges(i)
         \/ \E o \in Orders : \/ \E at \in {clock, clock + 1} :
                                   OrderComes(o, at) \/ OrderChanges(o, at) \/ OrderLeaves(o, at)
                              \/ OrderIsPaid(o)
         \/ \E s \in Screens : Leaves(s) \/ \E i \in Serving : Connects(s, i)
         \/ \E k \in TickSlots : TickArrives(k) \/ TickGoesOn(k) \/ TickFails(k)
  PROVE  MeterInv'
<1>1. UNCHANGED quotaVars
  BY DEF PayloadAges, OrderComes, OrderChanges, OrderLeaves, OrderIsPaid, BoardChanges, Connects,
         Leaves, TickGoesOn, TickArrives, TickProbes, TickStands, TickReads, TickShares, TickFails
<1>2. left' = left \/ \E what \in LoadKinds \ {"isolates"} : Spend(what)
  BY DEF PayloadAges, OrderComes, OrderChanges, OrderLeaves, OrderIsPaid, BoardChanges, Connects,
         Leaves, TickGoesOn, TickArrives, TickProbes, TickStands, TickReads, TickShares, TickFails,
         LoadKinds
<1> QED
  BY <1>1, <1>2, LoadStays, QuotaStutters DEF MeterInv

LEMMA EvictKeeps ==
  ASSUME MeterInv, NEW i \in Serving, Evict(i)
  PROVE  MeterInv'
<1>1. LoadOK' /\ i \in Isolates
  BY LoadStays DEF MeterInv, Evict, LoadKinds
<1> QED
  BY <1>1, EvictionKeeps DEF Evict

LEMMA StepHolds == MeterInv /\ [Next]_vars => MeterInv'
<1> SUFFICES ASSUME MeterInv, [Next]_vars PROVE MeterInv'
  OBVIOUS
<1>1. CASE QuotaNext
  BY <1>1, QuotaKeeps
<1>2. CASE \E i \in Serving : CronSweeps(i)
  BY <1>2, CronKeeps
<1>3. CASE \E i \in Serving : Evict(i)
  BY <1>3, EvictKeeps
<1>4. CASE UNCHANGED vars
  BY <1>4, QuotaStutters, LoadStays DEF vars, MeterInv
<1> QED
  BY <1>1, <1>2, <1>3, <1>4, PollsKeep, ScreensKeep DEF Next

\* However many isolates count, look and store, through failures, evictions and
\* midnight, the day's stored count never exceeds what was read that day, unless a
\* look crossed midnight (quota.js:95-105, 159-168, 182-186).
THEOREM DayIsNotOverstated == Spec => []TodayIsNotOverstated
<1>1. Init => MeterInv
  BY InitHolds
<1>2. MeterInv /\ [Next]_vars => MeterInv'
  BY StepHolds
<1>3. MeterInv => TodayIsNotOverstated
  BY DEF MeterInv
<1> QED
  BY <1>1, <1>2, <1>3, PTL DEF Spec

-----------------------------------------------------------------------------
(* The polls.                                                              *)

Entry  == [key : Roles, body : Nat, fresh : BOOLEAN, late : BOOLEAN]
Asked  == [at : {"reading"}, on : Isolates, role : Roles, since : Nat]
Got    == [at : {"read"}, on : Isolates, role : Roles, since : Nat, body : Nat, late : BOOLEAN]
Answer == [at : {"answered"}, body : Nat, since : Nat, late : BOOLEAN]

PollsType ==
  /\ version \in Nat
  /\ cache \in [Isolates -> Seq(Entry)]
  /\ writes \in [Isolates -> SUBSET [role : Roles, made : Nat]]
  /\ acked \in [Isolates -> Nat]
  /\ poll \in [Pollers -> {None} \cup Asked \cup Got \cup Answer]

\* No write is answered before it is made.
MadeBefore(i) == acked[i] <= version /\ \A w \in writes[i] : w.made <= version

\* What isolate i keeps shows every write it answered, or was read before one and kept
\* after it.
KeptIsRecent(i) == \A j \in 1 .. Len(cache[i]) :
  cache[i][j].body >= acked[i] \/ cache[i][j].late

\* So does what poll p has read, whose promise is of an earlier moment.
ReadIsRecent(p) ==
  LET r == poll[p] IN
  /\ r.at \in {"reading", "read"} => r.since <= acked[r.on]
  /\ r.at = "read" => r.body >= acked[r.on] \/ r.late
  /\ r.at = "read" => r.body >= r.since
  /\ r.at = "answered" => r.body >= r.since \/ r.late

\* The strengthening of ReadsFollowWrites.
PollsInv ==
  /\ PollsType
  /\ \A i \in Isolates : MadeBefore(i) /\ KeptIsRecent(i)
  /\ \A p \in Pollers : ReadIsRecent(p)

-----------------------------------------------------------------------------
(* The kept answers.                                                       *)

\* Every element of t is one of s.
Within(t, s) == \A k \in 1 .. Len(t) : \E l \in 1 .. Len(s) : t[k] = s[l]

LEMMA WithoutWithin ==
  ASSUME NEW s \in Seq(Entry), NEW key
  PROVE  Without(s, key) \in Seq(Entry) /\ Within(Without(s, key), s)
<1>1. CASE Places(s, key) = {}
  BY <1>1 DEF Without, Within
<1>2. CASE Places(s, key) # {}
  <2> DEFINE j == CHOOSE k \in Places(s, key) : TRUE
             a == SubSeq(s, 1, j - 1)
             b == SubSeq(s, j + 1, Len(s))
  <2>1. j \in 1 .. Len(s)
    BY <1>2 DEF Places
  <2>2. Without(s, key) = a \o b
    BY <1>2 DEF Without, RemoveAt
  <2> HIDE DEF j
  <2>3. a \in Seq(Entry) /\ Len(a) = j - 1 /\ \A k \in 1 .. j - 1 : a[k] = s[k]
    BY <2>1, SubSeqProperties
  <2>4. b \in Seq(Entry) /\ Len(b) = Len(s) - j /\ \A k \in 1 .. Len(s) - j : b[k] = s[j + k]
    BY <2>1, SubSeqProperties
  <2> HIDE DEF a, b
  <2>5. a \o b \in Seq(Entry) /\ Len(a \o b) = Len(a) + Len(b)
        /\ \A k \in 1 .. Len(a) + Len(b) :
             (a \o b)[k] = IF k <= Len(a) THEN a[k] ELSE b[k - Len(a)]
    BY <2>3, <2>4, ConcatProperties
  <2>6. Len(s) \in Nat /\ Len(a) + Len(b) = Len(s) - 1
    BY <2>1, <2>3, <2>4
  <2>7. ASSUME NEW k \in 1 .. Len(s) - 1
        PROVE  \E l \in 1 .. Len(s) : (a \o b)[k] = s[l]
    <3>1. CASE k <= j - 1
      BY <2>1, <2>3, <2>5, <2>6, <3>1
    <3>2. CASE k > j - 1
      <4>1. k - (j - 1) \in 1 .. Len(s) - j
        BY <2>1, <2>6, <3>2
      <4>2. (a \o b)[k] = b[k - (j - 1)]
        BY <2>1, <2>3, <2>5, <2>6, <3>2
      <4>3. b[k - (j - 1)] = s[j + (k - (j - 1))]
        BY <2>4, <4>1
      <4>4. j + (k - (j - 1)) \in 1 .. Len(s)
        BY <2>1, <2>6, <4>1
      <4> QED
        BY <4>2, <4>3, <4>4
    <3> QED
      BY <2>1, <2>6, <3>1, <3>2
  <2>8. Within(a \o b, s)
    BY <2>5, <2>6, <2>7 DEF Within
  <2> QED
    BY <2>2, <2>5, <2>8
<1> QED
  BY <1>1, <1>2

LEMMA PutWithin ==
  ASSUME NEW s \in Seq(Entry), NEW e \in Entry
  PROVE  /\ MicroCachePut(s, e) \in Seq(Entry)
         /\ \A k \in 1 .. Len(MicroCachePut(s, e)) :
              MicroCachePut(s, e)[k] = e
              \/ \E l \in 1 .. Len(s) : MicroCachePut(s, e)[k] = s[l]
<1> DEFINE room == IF Len(s) >= MAX_ENTRIES THEN Tail(s) ELSE s
<1>1. room \in Seq(Entry) /\ \A k \in 1 .. Len(room) : \E l \in 1 .. Len(s) : room[k] = s[l]
  <2>1. CASE Len(s) >= MAX_ENTRIES
    <3>1. Len(s) >= 1
      BY <2>1, LiveAssumption
    <3>2. Tail(s) \in Seq(Entry) /\ Len(Tail(s)) = Len(s) - 1
          /\ \A k \in 1 .. Len(s) - 1 : Tail(s)[k] = s[k + 1]
      BY <3>1
    <3> QED
      BY <2>1, <3>1, <3>2
  <2> QED
    BY <2>1
<1>2. MicroCachePut(s, e) = IF Places(room, e.key) = {} THEN Append(room, e)
        ELSE [j \in DOMAIN room |-> IF room[j].key = e.key THEN e ELSE room[j]]
  BY DEF MicroCachePut
<1> HIDE DEF room
<1>3. CASE Places(room, e.key) = {}
  <2>1. Append(room, e) \in Seq(Entry) /\ Len(Append(room, e)) = Len(room) + 1
        /\ \A k \in 1 .. Len(room) + 1 :
             Append(room, e)[k] = IF k <= Len(room) THEN room[k] ELSE e
    BY <1>1
  <2>2. MicroCachePut(s, e) = Append(room, e)
    BY <1>2, <1>3
  <2>3. ASSUME NEW k \in 1 .. Len(room) + 1
        PROVE  Append(room, e)[k] = e \/ \E l \in 1 .. Len(s) : Append(room, e)[k] = s[l]
    BY <1>1, <2>1
  <2> QED
    BY <2>1, <2>2, <2>3
<1>4. CASE Places(room, e.key) # {}
  <2> DEFINE put == [j \in DOMAIN room |-> IF room[j].key = e.key THEN e ELSE room[j]]
  <2>1. DOMAIN room = 1 .. Len(room) /\ Len(room) \in Nat
    BY <1>1
  <2>2. put \in [1 .. Len(room) -> Entry]
    BY <1>1, <2>1
  <2>3. put \in Seq(Entry) /\ Len(put) = Len(room)
    BY <2>1, <2>2
  <2>4. \A k \in 1 .. Len(room) : put[k] = e \/ put[k] = room[k]
    BY <2>1
  <2>5. MicroCachePut(s, e) = put
    BY <1>2, <1>4
  <2> HIDE DEF put
  <2>6. \A k \in 1 .. Len(put) : put[k] = e \/ \E l \in 1 .. Len(s) : put[k] = s[l]
    BY <1>1, <2>3, <2>4
  <2> QED
    BY <2>3, <2>5, <2>6
<1> QED
  BY <1>3, <1>4

-----------------------------------------------------------------------------
(* The polls' steps.                                                       *)

LEMMA PollsInit == Init => PollsInv
<1> SUFFICES ASSUME Init PROVE PollsInv
  OBVIOUS
<1>1. PollsType
  BY DEF Init, PollsType
<1> QED
  BY <1>1 DEF Init, PollsInv, MadeBefore, KeptIsRecent, ReadIsRecent, None

\* What isolate i keeps changes, to what it kept or what is as recent, and nothing else.
LEMMA KeptKeeps ==
  ASSUME PollsInv, PollsType', NEW i \in Isolates, NEW t \in Seq(Entry),
         cache' = [cache EXCEPT ![i] = t], version' = version, acked' = acked,
         \A k \in 1 .. Len(t) :
           \/ \E l \in 1 .. Len(cache[i]) : /\ t[k].body = cache[i][l].body
                                           /\ t[k].late = cache[i][l].late
           \/ t[k].body >= acked[i] \/ t[k].late
  PROVE  \A j \in Isolates : KeptIsRecent(j)'
<1> SUFFICES ASSUME NEW j \in Isolates PROVE KeptIsRecent(j)'
  OBVIOUS
<1>1. KeptIsRecent(j) /\ KeptIsRecent(i)
  BY DEF PollsInv
<1>2. CASE j # i
  BY <1>1, <1>2 DEF KeptIsRecent, PollsInv, PollsType
<1>3. CASE j = i
  <2>1. cache'[i] = t
    BY DEF PollsInv, PollsType
  <2> QED
    BY <1>1, <1>3, <2>1 DEF KeptIsRecent
<1> QED
  BY <1>2, <1>3

LEMMA PollArrivesKeeps ==
  ASSUME PollsInv, NEW p \in Pollers, NEW i \in Isolates, NEW role \in Roles,
         PollArrives(p, i, role)
  PROVE  PollsInv'
<1>0. PollsType
  BY DEF PollsInv
<1>1. cache[i] \in Seq(Entry) /\ acked[i] \in Nat
  BY <1>0 DEF PollsType
<1>2. CASE \E e \in Kept(i, role) :
          /\ poll' = [poll EXCEPT ![p] = [at |-> "answered", body |-> e.body,
                                          since |-> acked[i], late |-> e.late]]
          /\ cache' = cache
  <2>1. PICK e \in Kept(i, role) :
          /\ poll' = [poll EXCEPT ![p] = [at |-> "answered", body |-> e.body,
                                          since |-> acked[i], late |-> e.late]]
          /\ cache' = cache
    BY <1>2
  <2>2. PICK l \in 1 .. Len(cache[i]) : e = cache[i][l]
    BY <1>1 DEF Kept, Places
  <2>3. e \in Entry
    BY <1>1, <2>2
  <2>4. e.body \in Nat /\ e.late \in BOOLEAN /\ (e.body >= acked[i] \/ e.late)
    BY <2>2, <2>3 DEF Entry, PollsInv, KeptIsRecent
  <2>5. [at |-> "answered", body |-> e.body, since |-> acked[i], late |-> e.late] \in Answer
    BY <1>1, <2>4 DEF Answer
  <2>6. PollsType'
    BY <1>0, <2>1, <2>5 DEF PollArrives, PollsType
  <2>7. \A q \in Pollers : ReadIsRecent(q)'
    BY <1>0, <2>1, <2>4 DEF PollArrives, PollsInv, PollsType, ReadIsRecent
  <2> QED
    BY <2>1, <2>6, <2>7 DEF PollArrives, PollsInv, MadeBefore, KeptIsRecent
<1>3. CASE /\ cache' = [cache EXCEPT ![i] = Without(@, role)]
           /\ poll' = [poll EXCEPT ![p] = [at |-> "reading", on |-> i, role |-> role,
                                           since |-> acked[i]]]
  <2>1. [at |-> "reading", on |-> i, role |-> role, since |-> acked[i]] \in Asked
    BY <1>1 DEF Asked
  <2>2. Without(cache[i], role) \in Seq(Entry) /\ Within(Without(cache[i], role), cache[i])
    BY <1>1, WithoutWithin
  <2>3. cache' = [cache EXCEPT ![i] = Without(cache[i], role)]
    BY <1>0, <1>3 DEF PollsType
  <2>4. PollsType'
    BY <1>0, <1>3, <2>1, <2>2, <2>3 DEF PollArrives, PollsType
  <2>5. \A j \in Isolates : KeptIsRecent(j)'
    <3> DEFINE t == Without(cache[i], role)
    <3>1. t \in Seq(Entry) /\ Within(t, cache[i])
      BY <2>2
    <3>2. cache' = [cache EXCEPT ![i] = t] /\ version' = version /\ acked' = acked
      BY <2>3 DEF PollArrives
    <3> HIDE DEF t
    <3>3. \A k \in 1 .. Len(t) : \E l \in 1 .. Len(cache[i]) :
            t[k].body = cache[i][l].body /\ t[k].late = cache[i][l].late
      BY <3>1 DEF Within
    <3> QED
      BY <2>4, <3>1, <3>2, <3>3, KeptKeeps
  <2>6. \A q \in Pollers : ReadIsRecent(q)'
    BY <1>0, <1>1, <1>3 DEF PollArrives, PollsInv, PollsType, ReadIsRecent
  <2>7. \A j \in Isolates : MadeBefore(j)'
    BY DEF PollArrives, PollsInv, MadeBefore
  <2> QED
    BY <2>4, <2>5, <2>6, <2>7 DEF PollsInv
<1> QED
  BY <1>2, <1>3 DEF PollArrives

LEMMA PollReadsKeeps ==
  ASSUME PollsInv, NEW p \in Pollers, PollReads(p)
  PROVE  PollsInv'
<1>0. PollsType /\ ReadIsRecent(p)
  BY DEF PollsInv
<1>1. poll[p] \in Asked
  BY <1>0 DEF PollReads, PollsType, Got, Answer, None
<1> DEFINE r == [at |-> "read", on |-> poll[p].on, role |-> poll[p].role,
                 since |-> poll[p].since, body |-> version, late |-> FALSE]
<1>2. poll[p].on \in Isolates /\ poll[p].role \in Roles /\ poll[p].since \in Nat
  BY <1>1 DEF Asked
<1>3. r \in Got
  BY <1>0, <1>2 DEF Got, PollsType
<1>4. poll' = [poll EXCEPT ![p] = r]
  BY <1>0 DEF PollReads, PollsType
<1>5. version >= acked[r.on] /\ version >= r.since
  <2>1. acked[r.on] <= version /\ acked[r.on] \in Nat /\ version \in Nat
    BY <1>0, <1>2 DEF PollsInv, MadeBefore, PollsType
  <2>2. r.since <= acked[r.on]
    BY <1>0, <1>2 DEF PollReads, ReadIsRecent
  <2> QED
    BY <1>2, <2>1, <2>2
<1> HIDE DEF r
<1>6. PollsType'
  BY <1>0, <1>3, <1>4 DEF PollReads, PollsType
<1>7. \A q \in Pollers : ReadIsRecent(q)'
  <2>1. r.at = "read" /\ r.since = poll[p].since /\ r.on = poll[p].on /\ r.body = version
    BY DEF r
  <2>2. r.since <= acked[r.on]
    BY <1>0, <2>1 DEF PollReads, ReadIsRecent
  <2> QED
    BY <1>0, <1>4, <1>5, <2>1, <2>2 DEF PollReads, PollsInv, PollsType, ReadIsRecent
<1> QED
  BY <1>6, <1>7 DEF PollReads, PollsInv, MadeBefore, KeptIsRecent

LEMMA PollAnswersKeeps ==
  ASSUME PollsInv, NEW p \in Pollers, PollAnswers(p)
  PROVE  PollsInv'
<1> DEFINE r == poll[p]
           e == [key |-> r.role, body |-> r.body, fresh |-> TRUE, late |-> r.late]
           a == [at |-> "answered", body |-> r.body, since |-> r.since, late |-> FALSE]
<1>0. PollsType /\ ReadIsRecent(p)
  BY DEF PollsInv
<1>1. r \in Got
  <2>1. r.at = "read"
    BY DEF PollAnswers
  <2>2. r \in {None} \cup Asked \cup Got \cup Answer
    BY <1>0 DEF PollsType
  <2> QED
    BY <2>1, <2>2 DEF Asked, Answer, None
<1>2. r.on \in Isolates /\ r.role \in Roles /\ r.since \in Nat /\ r.body \in Nat
      /\ r.late \in BOOLEAN /\ r.at = "read"
  BY <1>1 DEF Got
<1>3. e \in Entry
  BY <1>2 DEF Entry
<1>4. a \in Answer
  BY <1>2 DEF Answer
<1>5. r.body >= r.since /\ (r.body >= acked[r.on] \/ r.late)
  BY <1>0, <1>2 DEF ReadIsRecent
<1> DEFINE t == MicroCachePut(cache[r.on], e)
<1>6. cache' = [cache EXCEPT ![r.on] = t] /\ poll' = [poll EXCEPT ![p] = a]
  BY <1>0, <1>2 DEF PollAnswers, PollsType
<1>7. cache[r.on] \in Seq(Entry)
  BY <1>0, <1>2 DEF PollsType
<1>8. t \in Seq(Entry) /\ \A k \in 1 .. Len(t) :
        t[k] = e \/ \E l \in 1 .. Len(cache[r.on]) : t[k] = cache[r.on][l]
  BY <1>3, <1>7, PutWithin
<1>9. e.body = r.body /\ e.late = r.late
  OBVIOUS
<1>10. a.at = "answered" /\ a.body = r.body /\ a.since = r.since
  OBVIOUS
<1> HIDE DEF t, e, a
<1>11. PollsType'
  <2>1. cache' \in [Isolates -> Seq(Entry)]
    BY <1>0, <1>6, <1>8 DEF PollsType
  <2>2. poll' \in [Pollers -> {None} \cup Asked \cup Got \cup Answer]
    BY <1>0, <1>4, <1>6 DEF PollsType
  <2> QED
    BY <1>0, <2>1, <2>2 DEF PollAnswers, PollsType
<1>12. \A j \in Isolates : KeptIsRecent(j)'
  <2>1. \A k \in 1 .. Len(t) :
           \/ \E l \in 1 .. Len(cache[r.on]) : /\ t[k].body = cache[r.on][l].body
                                              /\ t[k].late = cache[r.on][l].late
           \/ t[k].body >= acked[r.on] \/ t[k].late
    BY <1>5, <1>8, <1>9
  <2>2. version' = version /\ acked' = acked
    BY DEF PollAnswers
  <2> QED
    BY <1>2, <1>6, <1>8, <1>11, <2>1, <2>2, KeptKeeps
<1>13. \A q \in Pollers : ReadIsRecent(q)'
  BY <1>0, <1>5, <1>6, <1>10 DEF PollAnswers, PollsInv, PollsType, ReadIsRecent
<1> QED
  BY <1>11, <1>12, <1>13 DEF PollAnswers, PollsInv, MadeBefore

\* Polls and answers are dropped.
LEMMA DropsKeep ==
  ASSUME PollsInv, version' = version, acked' = acked,
         \A i \in Isolates : cache'[i] \in {cache[i], <<>>} /\ writes'[i] \subseteq writes[i],
         cache' \in [Isolates -> Seq(Entry)],
         writes' \in [Isolates -> SUBSET [role : Roles, made : Nat]],
         poll' \in [Pollers -> {None} \cup Asked \cup Got \cup Answer],
         \A p \in Pollers : poll'[p] \in {poll[p], None}
  PROVE  PollsInv'
<1>0. PollsType
  BY DEF PollsInv
<1>1. PollsType'
  BY <1>0 DEF PollsType
<1>2. \A i \in Isolates : MadeBefore(i)'
  BY DEF PollsInv, MadeBefore
<1>3. ASSUME NEW i \in Isolates PROVE KeptIsRecent(i)'
  <2>1. CASE cache'[i] = cache[i]
    BY <2>1 DEF PollsInv, KeptIsRecent
  <2>2. CASE cache'[i] = <<>>
    BY <2>2 DEF KeptIsRecent
  <2> QED
    BY <2>1, <2>2
<1>4. \A p \in Pollers : ReadIsRecent(p)'
  <2> SUFFICES ASSUME NEW p \in Pollers PROVE ReadIsRecent(p)'
    OBVIOUS
  <2>1. ReadIsRecent(p)
    BY DEF PollsInv
  <2>2. CASE poll'[p] = poll[p]
    BY <2>1, <2>2 DEF ReadIsRecent
  <2>3. CASE poll'[p] = None
    BY <2>3 DEF ReadIsRecent, None
  <2> QED
    BY <2>2, <2>3
<1> QED
  BY <1>1, <1>2, <1>3, <1>4 DEF PollsInv

LEMMA PollFailsKeeps ==
  ASSUME PollsInv, NEW p \in Pollers, PollFails(p)
  PROVE  PollsInv'
<1>0. PollsType
  BY DEF PollsInv
<1>1. poll' \in [Pollers -> {None} \cup Asked \cup Got \cup Answer]
      /\ \A q \in Pollers : poll'[q] \in {poll[q], None}
  BY <1>0 DEF PollFails, PollsType
<1>2. UNCHANGED <<version, acked, cache, writes>>
  BY DEF PollFails
<1>3. \A i \in Isolates : cache'[i] \in {cache[i], <<>>} /\ writes'[i] \subseteq writes[i]
  BY <1>2
<1>4. cache' \in [Isolates -> Seq(Entry)]
      /\ writes' \in [Isolates -> SUBSET [role : Roles, made : Nat]]
  BY <1>0, <1>2 DEF PollsType
<1> QED
  BY <1>1, <1>2, <1>3, <1>4, DropsKeep

LEMMA EntryAgesKeeps ==
  ASSUME PollsInv, NEW i \in Isolates, NEW j, EntryAges(i, j)
  PROVE  PollsInv'
<1>0. PollsType
  BY DEF PollsInv
<1>1. cache[i] \in Seq(Entry) /\ j \in 1 .. Len(cache[i])
  BY <1>0 DEF EntryAges, PollsType
<1> DEFINE t == [cache[i] EXCEPT ![j].fresh = FALSE]
<1>2. cache[i][j] \in Entry
  BY <1>1
<1>3. [cache[i][j] EXCEPT !.fresh = FALSE] \in Entry
  BY <1>2 DEF Entry
<1>4. t \in Seq(Entry) /\ Len(t) = Len(cache[i])
  BY <1>1, <1>3
<1>5. \A k \in 1 .. Len(t) : t[k].body = cache[i][k].body /\ t[k].late = cache[i][k].late
  <2> SUFFICES ASSUME NEW k \in 1 .. Len(cache[i])
               PROVE  t[k].body = cache[i][k].body /\ t[k].late = cache[i][k].late
    BY <1>4
  <2>1. t[k] = IF k = j THEN [cache[i][j] EXCEPT !.fresh = FALSE] ELSE cache[i][k]
    BY <1>1
  <2>2. cache[i][k] \in Entry
    BY <1>1
  <2> HIDE DEF t
  <2> QED
    BY <2>1, <2>2 DEF Entry
<1>6. cache' = [cache EXCEPT ![i] = t]
  BY DEF EntryAges
<1>7. UNCHANGED <<version, acked, writes, poll>>
  BY DEF EntryAges
<1> HIDE DEF t
<1>8. PollsType'
  BY <1>0, <1>4, <1>6, <1>7 DEF PollsType
<1>9. \A k \in Isolates : KeptIsRecent(k)'
  BY <1>4, <1>5, <1>6, <1>7, <1>8, KeptKeeps
<1> QED
  BY <1>7, <1>8, <1>9 DEF PollsInv, MadeBefore, ReadIsRecent

LEMMA WriteCommitsKeeps ==
  ASSUME PollsInv, NEW i \in Isolates, NEW role \in Roles, WriteCommits(i, role)
  PROVE  PollsInv'
<1>0. PollsType
  BY DEF PollsInv
<1>1. version \in Nat /\ version' = version + 1 /\ UNCHANGED <<cache, acked, poll>>
  BY <1>0 DEF WriteCommits, PollsType
<1> DEFINE w == [role |-> role, made |-> version']
<1>2. w \in [role : Roles, made : Nat]
  BY <1>1
<1>3. writes' = [writes EXCEPT ![i] = @ \cup {w}]
  BY DEF WriteCommits
<1>4. w.made = version'
  OBVIOUS
<1> HIDE DEF w
<1>5. PollsType'
  BY <1>0, <1>1, <1>2, <1>3 DEF PollsType
<1>6. ASSUME NEW j \in Isolates PROVE MadeBefore(j)'
  <2>1. MadeBefore(j) /\ acked[j] \in Nat /\ \A v \in writes[j] : v.made \in Nat
    BY <1>0 DEF PollsInv, PollsType
  <2>2. writes'[j] \subseteq writes[j] \cup {w}
    BY <1>0, <1>3 DEF PollsType
  <2> QED
    BY <1>1, <1>4, <2>1, <2>2 DEF MadeBefore
<1>7. ASSUME NEW j \in Isolates PROVE KeptIsRecent(j)'
  <2> QED
    BY <1>1 DEF PollsInv, KeptIsRecent
<1>8. ASSUME NEW p \in Pollers PROVE ReadIsRecent(p)'
  <2> QED
    BY <1>1 DEF PollsInv, ReadIsRecent
<1> QED
  BY <1>5, <1>6, <1>7, <1>8 DEF PollsInv

LEMMA WriteAnswersKeeps ==
  ASSUME PollsInv, NEW i \in Isolates, WriteAnswers(i)
  PROVE  PollsInv'
<1>0. PollsType
  BY DEF PollsInv
<1> PICK w \in writes[i] :
      /\ writes' = [writes EXCEPT ![i] = @ \ {w}]
      /\ acked' = [acked EXCEPT ![i] = Greater(@, w.made)]
      /\ cache' = [cache EXCEPT ![i] = <<>>]
      /\ poll' = [p \in Pollers |->
           IF poll[p].at = "read" /\ poll[p].on = i THEN [poll[p] EXCEPT !.late = TRUE]
           ELSE poll[p]]
      /\ version' = version
  BY DEF WriteAnswers, MicroCacheFlush
<1>1. w.made \in Nat /\ w.made <= version /\ acked[i] \in Nat /\ acked[i] <= version
  BY <1>0 DEF PollsInv, PollsType, MadeBefore
<1>2. acked' = [acked EXCEPT ![i] = Greater(acked[i], w.made)]
  BY <1>0 DEF PollsType
<1>3. Greater(acked[i], w.made) \in Nat /\ Greater(acked[i], w.made) <= version
      /\ Greater(acked[i], w.made) >= acked[i]
  BY <1>1 DEF Greater
<1> DEFINE most == Greater(acked[i], w.made)
<1> HIDE DEF most
<1>4. ASSUME NEW p \in Pollers
      PROVE  poll'[p] \in {None} \cup Asked \cup Got \cup Answer
  <2>1. poll[p] \in {None} \cup Asked \cup Got \cup Answer
    BY <1>0 DEF PollsType
  <2>2. CASE poll[p].at = "read"
    <3>1. poll[p] \in Got
      BY <2>1, <2>2 DEF None, Asked, Answer
    <3>2. [poll[p] EXCEPT !.late = TRUE] \in Got
      BY <3>1 DEF Got
    <3> QED
      BY <3>1, <3>2
  <2> QED
    BY <2>1, <2>2
<1>5. PollsType'
  <2>1. cache' \in [Isolates -> Seq(Entry)]
    BY <1>0 DEF PollsType
  <2>2. writes' \in [Isolates -> SUBSET [role : Roles, made : Nat]]
    BY <1>0 DEF PollsType
  <2>3. acked' \in [Isolates -> Nat]
    BY <1>0, <1>2, <1>3 DEF PollsType
  <2>4. poll' \in [Pollers -> {None} \cup Asked \cup Got \cup Answer]
    BY <1>4
  <2> QED
    BY <1>0, <2>1, <2>2, <2>3, <2>4 DEF PollsType
<1>6. ASSUME NEW j \in Isolates PROVE MadeBefore(j)'
  <2>1. writes'[j] \subseteq writes[j]
    BY <1>0 DEF PollsType
  <2>2. acked'[j] <= version
    <3>1. acked'[j] = IF j = i THEN Greater(acked[i], w.made) ELSE acked[j]
      BY <1>0, <1>2 DEF PollsType
    <3>2. acked[j] <= version
      BY DEF PollsInv, MadeBefore
    <3> QED
      BY <1>3, <3>1, <3>2
  <2> QED
    BY <2>1, <2>2 DEF PollsInv, MadeBefore
<1>7. ASSUME NEW j \in Isolates PROVE KeptIsRecent(j)'
  <2>1. CASE j = i
    <3>1. cache'[j] = <<>>
      BY <1>0, <2>1 DEF PollsType
    <3> QED
      BY <3>1 DEF KeptIsRecent
  <2>2. CASE j # i
    <3>1. cache'[j] = cache[j] /\ acked'[j] = acked[j]
      BY <1>0, <1>2, <2>2 DEF PollsType
    <3> QED
      BY <3>1 DEF PollsInv, KeptIsRecent
  <2> QED
    BY <2>1, <2>2
<1>8. ASSUME NEW p \in Pollers PROVE ReadIsRecent(p)'
  <2>1. ReadIsRecent(p) /\ poll[p] \in {None} \cup Asked \cup Got \cup Answer
    BY <1>0 DEF PollsInv, PollsType
  <2>2. CASE poll[p].at = "read" /\ poll[p].on = i
    <3>1. poll[p] \in Got
      BY <2>1, <2>2 DEF None, Asked, Answer
    <3>2. poll[p].since \in Nat /\ poll[p].since <= acked[i]
      BY <2>1, <2>2, <3>1 DEF Got, ReadIsRecent
    <3>3. poll'[p] = [poll[p] EXCEPT !.late = TRUE]
      BY <2>2
    <3>4. poll'[p].at = "read" /\ poll'[p].on = i /\ poll'[p].since = poll[p].since
          /\ poll'[p].body = poll[p].body /\ poll'[p].late
      BY <2>2, <3>1, <3>3 DEF Got
    <3>5. acked'[i] = Greater(acked[i], w.made)
      BY <1>0, <1>2 DEF PollsType
    <3>6. poll[p].since <= acked'[i]
      BY <1>1, <1>3, <3>2, <3>5
    <3> QED
      BY <2>1, <2>2, <3>4, <3>6 DEF ReadIsRecent
  <2>3. CASE ~(poll[p].at = "read" /\ poll[p].on = i)
    <3>1. poll'[p] = poll[p]
      BY <2>3
    <3>2. CASE poll[p].at = "reading"
      <4>1. poll[p].on \in Isolates /\ poll[p].since \in Nat
        BY <2>1, <3>2 DEF None, Asked, Got, Answer
      <4>2. acked'[poll[p].on] >= acked[poll[p].on] /\ acked[poll[p].on] \in Nat
            /\ acked'[poll[p].on] \in Nat
        BY <1>0, <1>1, <1>2, <1>3, <4>1 DEF PollsType
      <4>3. poll[p].since <= acked[poll[p].on]
        BY <2>1, <3>2 DEF ReadIsRecent
      <4>4. poll[p].since <= acked'[poll[p].on]
        BY <4>1, <4>2, <4>3
      <4> QED
        BY <3>1, <3>2, <4>4 DEF ReadIsRecent
    <3>3. CASE poll[p].at # "reading"
      <4>1. poll[p].at = "read" => acked'[poll[p].on] = acked[poll[p].on]
        <5>1. poll[p].at = "read" => poll[p].on \in Isolates
          BY <2>1 DEF None, Asked, Got, Answer
        <5> QED
          BY <1>0, <1>2, <2>3, <5>1 DEF PollsType
      <4> QED
        BY <2>1, <3>1, <3>3, <4>1 DEF ReadIsRecent
    <3> QED
      BY <3>2, <3>3
  <2> QED
    BY <2>2, <2>3
<1> QED
  BY <1>5, <1>6, <1>7, <1>8 DEF PollsInv

LEMMA CronSweepsKeeps ==
  ASSUME PollsInv, NEW i \in Isolates, CronSweeps(i)
  PROVE  PollsInv'
<1>0. PollsType
  BY DEF PollsInv
<1>1. version' \in Nat /\ version' >= version /\ UNCHANGED <<cache, writes, acked, poll>>
  BY <1>0 DEF CronSweeps, PollsType
<1>2. PollsType'
  BY <1>0, <1>1 DEF PollsType
<1>3. ASSUME NEW j \in Isolates PROVE MadeBefore(j)'
  <2>1. MadeBefore(j) /\ acked[j] \in Nat /\ version \in Nat
        /\ \A v \in writes[j] : v.made \in Nat
    BY <1>0 DEF PollsInv, PollsType
  <2> QED
    BY <1>1, <2>1 DEF MadeBefore
<1> QED
  BY <1>1, <1>2, <1>3 DEF PollsInv, KeptIsRecent, ReadIsRecent

LEMMA EvictDropsPolls ==
  ASSUME PollsInv, NEW i \in Isolates, Evict(i)
  PROVE  PollsInv'
<1>0. PollsType
  BY DEF PollsInv
<1>1. version' = version /\ acked' = acked
  BY DEF Evict
<1>2. cache' = [cache EXCEPT ![i] = <<>>] /\ writes' = [writes EXCEPT ![i] = {}]
  BY DEF Evict
<1>3. \A j \in Isolates : cache'[j] \in {cache[j], <<>>} /\ writes'[j] \subseteq writes[j]
  BY <1>0, <1>2 DEF PollsType
<1>4. cache' \in [Isolates -> Seq(Entry)]
  BY <1>0, <1>2 DEF PollsType
<1>5. writes' \in [Isolates -> SUBSET [role : Roles, made : Nat]]
  BY <1>0, <1>2 DEF PollsType
<1>6. poll' \in [Pollers -> {None} \cup Asked \cup Got \cup Answer]
      /\ \A p \in Pollers : poll'[p] \in {poll[p], None}
  BY <1>0 DEF Evict, PollsType
<1> QED
  BY <1>1, <1>3, <1>4, <1>5, <1>6, DropsKeep

LEMMA PollsStutter ==
  ASSUME PollsInv, UNCHANGED pollVars
  PROVE  PollsInv'
BY DEF PollsInv, pollVars, PollsType, MadeBefore, KeptIsRecent, ReadIsRecent

\* What the meter and the screens do leaves the polls alone.
LEMMA PollsApart ==
  ASSUME PollsInv,
         \/ QuotaNext /\ UNCHANGED pollVars
         \/ \E i \in Serving : PayloadAges(i)
         \/ \E o \in Orders : \/ \E at \in {clock, clock + 1} :
                                   OrderComes(o, at) \/ OrderChanges(o, at) \/ OrderLeaves(o, at)
                              \/ OrderIsPaid(o)
         \/ \E s \in Screens : Leaves(s) \/ \E i \in Serving : Connects(s, i)
         \/ \E k \in TickSlots : TickArrives(k) \/ TickGoesOn(k) \/ TickFails(k)
         \/ UNCHANGED vars
  PROVE  PollsInv'
<1>1. UNCHANGED pollVars
  BY DEF PayloadAges, OrderComes, OrderChanges, OrderLeaves, OrderIsPaid, BoardChanges, Connects,
         Leaves, TickGoesOn, TickArrives, TickProbes, TickStands, TickReads, TickShares, TickFails,
         vars
<1> QED
  BY <1>1, PollsStutter

LEMMA ServingAreIsolates == MeterInv => Serving \subseteq Isolates
BY LoadsAssumption, QuotaAssumption DEF MeterInv, LoadOK, Serving, Isolates, LoadKinds

LEMMA PollsStepHolds == MeterInv /\ PollsInv /\ [Next]_vars => PollsInv'
<1> SUFFICES ASSUME MeterInv, PollsInv, [Next]_vars PROVE PollsInv'
  OBVIOUS
<1>1. Serving \subseteq Isolates
  BY ServingAreIsolates
<1>2. CASE \E p \in Pollers : \/ \E i \in Serving, role \in Roles : PollArrives(p, i, role)
                              \/ PollReads(p) \/ PollAnswers(p) \/ PollFails(p)
  BY <1>1, <1>2, PollArrivesKeeps, PollReadsKeeps, PollAnswersKeeps, PollFailsKeeps
<1>3. CASE \E i \in Serving : \/ \E j \in 1 .. MAX_ENTRIES : EntryAges(i, j)
                              \/ \E role \in Roles : WriteCommits(i, role)
                              \/ WriteAnswers(i) \/ CronSweeps(i) \/ Evict(i)
  BY <1>1, <1>3, EntryAgesKeeps, WriteCommitsKeeps, WriteAnswersKeeps, CronSweepsKeeps,
     EvictDropsPolls
<1> QED
  BY <1>2, <1>3, PollsApart DEF Next

\* However many polls, writes, sweeps and evictions interleave, who polls an isolate after
\* it answered a write sees that write, in every role, unless the answer was read before
\* it and kept after its flush (microcache.js:20-22, index.js:387-400).
THEOREM PollsFollowWrites == Spec => []ReadsFollowWrites
<1>1. Init => MeterInv /\ PollsInv
  BY InitHolds, PollsInit
<1>2. MeterInv /\ PollsInv /\ [Next]_vars => (MeterInv /\ PollsInv)'
  BY StepHolds, PollsStepHolds
<1>3. PollsInv => ReadsFollowWrites
  BY DEF PollsInv, ReadIsRecent, ReadsFollowWrites
<1> QED
  BY <1>1, <1>2, <1>3, PTL DEF Spec

-----------------------------------------------------------------------------
(* The screens.                                                            *)

Row     == [order : Orders, at : Nat, paid : BOOLEAN]
Stamps  == {0} \cup {Probe(b) : b \in SUBSET Row}
Message == [orders : SUBSET Row, newIds : SUBSET Orders]
Shared  == [payload : Message, probe : Stamps, fresh : BOOLEAN, torn : BOOLEAN]
Line    == [on : Isolates, lastSig : Message \cup {None}, told : SUBSET Orders,
            again : BOOLEAN, back : BOOLEAN]
Ticking == [at : {"probing", "probed", "sharing"}, on : Isolates, open : BOOLEAN,
            seen : Shared \cup {None}, probe : Stamps, rows : SUBSET Row,
            late : BOOLEAN, overtaken : BOOLEAN]

ScreensType ==
  /\ clock \in Nat /\ came \in SUBSET Orders /\ board \in SUBSET Row
  /\ channel \in [Isolates -> Shared \cup {None}]
  /\ screen \in [Screens -> Line \cup {None}]
  /\ tick \in [TickSlots -> Ticking \cup {None}]

\* A tick whose connection is open runs where the connection is.
TicksAtHome == \A k \in TickSlots : tick[k] # None /\ tick[k].open =>
  screen[k[1]] # None /\ screen[k[1]].on = tick[k].on

Untorn(i) == channel[i] = None \/ ~channel[i].torn

\* The orders of what is shared, and those that it calls new.
Shown(shared) == IF shared = None THEN {} ELSE On(shared.payload.orders)
News(shared)  == IF shared = None THEN {} ELSE shared.payload.newIds

\* The orders that connections of isolate i were told are new, or may be told yet when a
\* tick ends with what it saw.
Known(i) == {o \in Orders :
  \/ \E s \in Screens : screen[s] # None /\ screen[s].on = i /\ o \in screen[s].told
  \/ \E k \in TickSlots : tick[k] # None /\ tick[k].on = i /\ o \in News(tick[k].seen)}

\* What is shared is of orders that came, and calls none of them new but its own; what
\* was told is new is on it, or has left for good.
ChannelTurn(shared, known, there, been) ==
  /\ Shown(shared) \subseteq been /\ News(shared) \subseteq Shown(shared)
  /\ \A o \in known : o \in been /\ (o \in Shown(shared) \/ o \notin there)

\* A tick that is not late saw what is shared; what a late one saw has other news.  What a
\* tick that is not late read is later than what is shared: what is not on it left for
\* good, and nothing of it that is not shared yet was told to anybody.
TickTurn(t, shared, known, there, been) ==
  /\ ~t.late => /\ t.seen = None <=> shared = None
                /\ t.seen # None => t.seen.payload = shared.payload
  /\ t.late => News(t.seen) \cap News(shared) = {}
  /\ t.at = "sharing" /\ ~t.late =>
       /\ On(t.rows) \subseteq been
       /\ \A o \in Shown(shared) : o \in On(t.rows) \/ o \notin there
       /\ known \cap On(t.rows) \subseteq Shown(shared)

\* What this is calls new was not told to connection c, or it is the last that c was sent.
ToldOrLast(c, this) ==
  News(this) \cap c.told = {} \/ (this # None /\ c.lastSig = this.payload)

\* The ticks of screen s that are late, and that no other tick of s overtook.
Behind(s) == {t \in Ticking : \E k \in TickSlots :
  k[1] = s /\ tick[k] = t /\ t.open /\ t.late /\ ~t.overtaken}

\* A connection that did not go back was told nothing twice; it can be sent what is
\* shared, and what a tick of its own saw that is late and not overtaken, after which it
\* can be sent what is shared still.
LineTurn(c, shared, behind) ==
  ~c.back =>
    /\ ~c.again /\ ToldOrLast(c, shared)
    /\ \A t \in behind : News(shared) \cap c.told = {} /\ ToldOrLast(c, t.seen)

\* The strengthening of NewOnce.
ScreensInv ==
  /\ ScreensType /\ TicksAtHome /\ On(board) \subseteq came
  /\ \A i \in Isolates : Untorn(i) => ChannelTurn(channel[i], Known(i), On(board), came)
  /\ \A k \in TickSlots : tick[k] # None /\ Untorn(tick[k].on) =>
       TickTurn(tick[k], channel[tick[k].on], Known(tick[k].on), On(board), came)
  /\ \A s \in Screens : screen[s] # None /\ Untorn(screen[s].on) =>
       LineTurn(screen[s], channel[screen[s].on], Behind(s))

-----------------------------------------------------------------------------
(* The screens' steps.                                                     *)

LEMMA NoLine == None \notin Line /\ None \notin Shared /\ None \notin Ticking
<1>1. None \notin Ticking
  BY DEF None, Ticking
<1>2. DOMAIN None = {"at"}
  BY DEF None
<1>3. None \notin Line
  <2> SUFFICES ASSUME None \in Line PROVE FALSE
    OBVIOUS
  <2>1. None = [on |-> None.on, lastSig |-> None.lastSig, told |-> None.told,
                again |-> None.again, back |-> None.back]
    BY DEF Line
  <2>2. DOMAIN [on |-> None.on, lastSig |-> None.lastSig, told |-> None.told,
                again |-> None.again, back |-> None.back]
          = {"on", "lastSig", "told", "again", "back"}
    OBVIOUS
  <2> QED
    BY <1>2, <2>1, <2>2
<1>4. None \notin Shared
  <2> SUFFICES ASSUME None \in Shared PROVE FALSE
    OBVIOUS
  <2>1. None = [payload |-> None.payload, probe |-> None.probe, fresh |-> None.fresh,
                torn |-> None.torn]
    BY DEF Shared
  <2>2. DOMAIN [payload |-> None.payload, probe |-> None.probe, fresh |-> None.fresh,
                torn |-> None.torn] = {"payload", "probe", "fresh", "torn"}
    OBVIOUS
  <2> QED
    BY <1>2, <2>1, <2>2
<1> QED
  BY <1>1, <1>3, <1>4

LEMMA SlotIs == ASSUME NEW k \in TickSlots PROVE k[1] \in Screens
BY DEF TickSlots

LEMMA ScreensInit == Init => ScreensInv
<1> SUFFICES ASSUME Init PROVE ScreensInv
  OBVIOUS
<1>1. came \in SUBSET Orders
  BY LiveAssumption DEF Init
<1>2. board \in SUBSET Row /\ On(board) = came
  <2>1. board = {[order |-> o, at |-> 1, paid |-> FALSE] : o \in came}
    BY DEF Init
  <2>2. \A o \in came : [order |-> o, at |-> 1, paid |-> FALSE] \in Row
    BY <1>1 DEF Row
  <2>3. On(board) \subseteq came
    BY <2>1 DEF On
  <2>4. ASSUME NEW o \in came PROVE o \in On(board)
    <3>1. [order |-> o, at |-> 1, paid |-> FALSE] \in board
          /\ [order |-> o, at |-> 1, paid |-> FALSE].order = o
      BY <2>1
    <3> QED
      BY <3>1 DEF On
  <2> QED
    BY <2>1, <2>2, <2>3, <2>4
<1>3. (\A k \in TickSlots : tick[k] = None) /\ (\A s \in Screens : screen[s] = None)
      /\ (\A i \in Isolates : channel[i] = None)
  BY DEF Init
<1>4. ScreensType
  BY <1>1, <1>2 DEF Init, ScreensType
<1>5. \A i \in Isolates : Known(i) = {}
  BY <1>3 DEF Known
<1> QED
  BY <1>2, <1>3, <1>4, <1>5 DEF ScreensInv, TicksAtHome, ChannelTurn, Shown, News

\* What is known in an isolate, from below and from above.
LEMMA KnownHas ==
  ASSUME ScreensInv
  PROVE  /\ \A s \in Screens : screen[s] # None => screen[s].told \subseteq Known(screen[s].on)
         /\ \A k \in TickSlots : tick[k] # None => News(tick[k].seen) \subseteq Known(tick[k].on)
<1>1. ASSUME NEW s \in Screens, screen[s] # None
      PROVE  screen[s].told \subseteq Known(screen[s].on)
  <2>1. screen[s].told \subseteq Orders
    BY <1>1 DEF ScreensInv, ScreensType, Line
  <2> QED
    BY <1>1, <2>1 DEF Known
<1>2. ASSUME NEW k \in TickSlots, tick[k] # None
      PROVE  News(tick[k].seen) \subseteq Known(tick[k].on)
  <2>1. tick[k].seen \in Shared \cup {None}
    BY <1>2 DEF ScreensInv, ScreensType, Ticking
  <2>2. News(tick[k].seen) \subseteq Orders
    BY <2>1 DEF News, Shared, Message
  <2> QED
    BY <1>2, <2>2 DEF Known
<1> QED
  BY <1>1, <1>2

LEMMA KnownIn ==
  ASSUME NEW i, NEW X,
         \A s \in Screens : screen'[s] # None /\ screen'[s].on = i => screen'[s].told \subseteq X,
         \A k \in TickSlots : tick'[k] # None /\ tick'[k].on = i => News(tick'[k].seen) \subseteq X
  PROVE  Known(i)' \subseteq X
BY DEF Known, News

\* Isolate i shares the payload that it did.
Alike(i) ==
  /\ channel'[i] = None <=> channel[i] = None
  /\ channel[i] # None => /\ channel'[i].payload = channel[i].payload
                          /\ channel'[i].torn = channel[i].torn

LEMMA AlikeSame ==
  ASSUME NEW i, Alike(i)
  PROVE  /\ Untorn(i)' = Untorn(i)
         /\ Shown(channel'[i]) = Shown(channel[i]) /\ News(channel'[i]) = News(channel[i])
BY DEF Alike, Untorn, Shown, News

\* While the orders and what is shared stay: who knows no more than what is shared, and
\* has ticks and connections in turn, stays in turn.
LEMMA StaysInTurn ==
  ASSUME ScreensInv, UNCHANGED <<board, came, clock>>,
         channel' \in [Isolates -> Shared \cup {None}], \A i \in Isolates : Alike(i),
         screen' \in [Screens -> Line \cup {None}], tick' \in [TickSlots -> Ticking \cup {None}],
         TicksAtHome',
         \A i \in Isolates : Untorn(i) => Known(i)' \subseteq Known(i) \cup News(channel[i]),
         \A k \in TickSlots : tick'[k] # None /\ Untorn(tick'[k].on) =>
           TickTurn(tick'[k], channel[tick'[k].on], Known(tick'[k].on), On(board), came),
         \A s \in Screens : screen'[s] # None /\ Untorn(screen'[s].on) =>
           LineTurn(screen'[s], channel[screen'[s].on], Behind(s)')
  PROVE  ScreensInv'
<1>1. ScreensType' /\ On(board)' = On(board) /\ came' = came
  BY DEF ScreensInv, ScreensType, On
<1>2. On(board)' \subseteq came'
  BY <1>1 DEF ScreensInv
<1>3. ASSUME NEW i \in Isolates, Untorn(i)'
      PROVE  /\ Untorn(i) /\ ChannelTurn(channel[i], Known(i), On(board), came)
             /\ Shown(channel'[i]) = Shown(channel[i]) /\ News(channel'[i]) = News(channel[i])
             /\ Known(i)' \subseteq Known(i) \cup News(channel[i])
  BY <1>3, AlikeSame DEF ScreensInv
<1>4. ASSUME NEW i \in Isolates, Untorn(i)'
      PROVE  ChannelTurn(channel'[i], Known(i)', On(board)', came')
  BY <1>1, <1>3, <1>4 DEF ChannelTurn
<1>5. ASSUME NEW k \in TickSlots, tick'[k] # None, Untorn(tick[k].on)'
      PROVE  TickTurn(tick'[k], channel'[tick'[k].on], Known(tick[k].on)', On(board)', came')
  <2>1. PICK t : t = tick'[k]
    OBVIOUS
  <2>2. PICK i : i = t.on
    OBVIOUS
  <2>3. i \in Isolates
    BY <1>5, <2>1, <2>2 DEF Ticking
  <2>4. Untorn(i)' /\ Known(tick[k].on)' = Known(i)'
    BY <1>5, <2>1, <2>2 DEF Untorn, Known
  <2>5. TickTurn(t, channel[i], Known(i), On(board), came) /\ Alike(i)
    BY <1>3, <1>5, <2>1, <2>2, <2>3, <2>4
  <2>6. TickTurn(t, channel'[i], Known(i)', On(board), came)
    <3>1. \/ ~(t.at = "sharing" /\ ~t.late)
          \/ Known(i)' \cap On(t.rows) \subseteq Shown(channel[i])
      BY <1>3, <2>3, <2>4, <2>5 DEF TickTurn, ChannelTurn
    <3> QED
      BY <1>3, <2>3, <2>4, <2>5, <3>1 DEF TickTurn, Alike
  <2> QED
    BY <1>1, <2>1, <2>2, <2>4, <2>6
<1>6. ASSUME NEW s \in Screens, screen'[s] # None, Untorn(screen[s].on)'
      PROVE  LineTurn(screen'[s], channel'[screen'[s].on], Behind(s)')
  <2>1. PICK c : c = screen'[s]
    OBVIOUS
  <2>2. PICK i : i = c.on
    OBVIOUS
  <2>3. i \in Isolates
    BY <1>6, <2>1, <2>2 DEF Line
  <2>4. Untorn(i)'
    BY <1>6, <2>1, <2>2 DEF Untorn
  <2>5. LineTurn(c, channel[i], Behind(s)') /\ Alike(i)
    BY <1>3, <1>6, <2>1, <2>2, <2>3, <2>4
  <2>6. LineTurn(c, channel'[i], Behind(s)')
    BY <1>3, <2>3, <2>4, <2>5 DEF LineTurn, ToldOrLast, Alike
  <2> QED
    BY <2>1, <2>2, <2>6
<1> QED
  BY <1>1, <1>2, <1>4, <1>5, <1>6 DEF ScreensInv

\* What connection c may be sent as a tick in slot k ends, or does not begin: nothing, what
\* is shared, or what a late tick saw.
Proper(c, k, shared, back) ==
  \/ shared = None
  \/ shared # None /\ channel[c.on] # None /\ shared.payload = channel[c.on].payload
  \/ /\ tick[k] # None /\ tick[k].open /\ tick[k].late
     /\ shared # None /\ shared = tick[k].seen /\ back = tick[k].overtaken

LEMMA SentIs ==
  ASSUME NEW c \in Line, NEW shared \in Shared \cup {None}, NEW back \in BOOLEAN
  PROVE  LET d == Sent(c, shared, back)
         IN /\ d \in Line /\ d.on = c.on
            /\ d # c => shared # None
            /\ shared = None \/ shared.payload = c.lastSig => d = c
            /\ shared # None /\ shared.payload # c.lastSig =>
                 /\ d # c
                 /\ d.lastSig = shared.payload
                 /\ d.told = c.told \cup shared.payload.newIds
                 /\ d.again = (c.again \/ shared.payload.newIds \cap c.told # {})
                 /\ d.back = (c.back \/ back)
<1>1. CASE shared = None \/ shared.payload = c.lastSig
  BY <1>1 DEF Sent
<1>2. CASE shared # None /\ shared.payload # c.lastSig
  <2> DEFINE P     == shared.payload
             told  == c.told \cup P.newIds
             again == c.again \/ P.newIds \cap c.told # {}
             d     == [c EXCEPT !.lastSig = P, !.told = told, !.again = again,
                                !.back = c.back \/ back]
  <2>1. Sent(c, shared, back) = d
    BY <1>2 DEF Sent
  <2>2. P \in Message /\ P.newIds \in SUBSET Orders
    BY <1>2 DEF Shared, Message
  <2>3. told \in SUBSET Orders /\ again \in BOOLEAN /\ (c.back \/ back) \in BOOLEAN
    BY <2>2 DEF Line
  <2> HIDE DEF P, told, again
  <2>4. d \in Line /\ d.on = c.on /\ d.lastSig = P /\ d.told = told /\ d.again = again
        /\ d.back = (c.back \/ back)
    BY <2>2, <2>3 DEF Line
  <2>5. d # c
    BY <1>2, <2>4 DEF P
  <2> HIDE DEF d
  <2> QED
    BY <1>2, <2>1, <2>4, <2>5 DEF P, told, again
<1> QED
  BY <1>1, <1>2

LEMMA OvertakenIs ==
  ASSUME ScreensInv
  PROVE  /\ Overtaken \in [TickSlots -> Ticking \cup {None}]
         /\ \A k \in TickSlots : Overtaken[k] # None <=> tick[k] # None
         /\ \A k \in TickSlots : tick[k] # None =>
              /\ Overtaken[k].at = tick[k].at /\ Overtaken[k].on = tick[k].on
              /\ Overtaken[k].open = tick[k].open /\ Overtaken[k].seen = tick[k].seen
              /\ Overtaken[k].late = tick[k].late /\ Overtaken[k].rows = tick[k].rows
              /\ IF tick[k].open /\ screen'[k[1]] # screen[k[1]] THEN Overtaken[k].overtaken
                 ELSE Overtaken[k] = tick[k]
<1> SUFFICES ASSUME NEW k \in TickSlots
             PROVE  /\ Overtaken[k] \in Ticking \cup {None}
                    /\ Overtaken[k] # None <=> tick[k] # None
                    /\ tick[k] # None =>
                         /\ Overtaken[k].at = tick[k].at /\ Overtaken[k].on = tick[k].on
                         /\ Overtaken[k].open = tick[k].open /\ Overtaken[k].seen = tick[k].seen
                         /\ Overtaken[k].late = tick[k].late /\ Overtaken[k].rows = tick[k].rows
                         /\ IF tick[k].open /\ screen'[k[1]] # screen[k[1]]
                            THEN Overtaken[k].overtaken ELSE Overtaken[k] = tick[k]
  BY DEF Overtaken
<1>1. tick[k] \in Ticking \cup {None}
  BY DEF ScreensInv, ScreensType
<1>2. CASE tick[k] # None /\ tick[k].open /\ screen'[k[1]] # screen[k[1]]
  <2>1. Overtaken[k] = [tick[k] EXCEPT !.overtaken = TRUE] /\ tick[k] \in Ticking
    BY <1>1, <1>2 DEF Overtaken
  <2>2. Overtaken[k] \in Ticking
    BY <2>1 DEF Ticking
  <2>3. Overtaken[k] # None
    BY <2>2, NoLine
  <2> QED
    BY <1>2, <2>1, <2>2, <2>3 DEF Ticking
<1>3. CASE ~(tick[k] # None /\ tick[k].open /\ screen'[k[1]] # screen[k[1]])
  <2>1. Overtaken[k] = tick[k]
    BY <1>3 DEF Overtaken
  <2> QED
    BY <1>1, <1>3, <2>1
<1> QED
  BY <1>2, <1>3

LEMMA TickEnds ==
  ASSUME ScreensInv, UNCHANGED <<board, came, clock>>,
         channel' \in [Isolates -> Shared \cup {None}], \A i \in Isolates : Alike(i),
         NEW k \in TickSlots, NEW shared \in Shared \cup {None}, NEW back \in BOOLEAN,
         tick' = Overtaken \/ tick' = [Overtaken EXCEPT ![k] = None],
         \/ screen' = screen
         \/ /\ screen[k[1]] # None
            /\ screen' = [screen EXCEPT ![k[1]] = Sent(screen[k[1]], shared, back)]
            /\ Untorn(screen[k[1]].on) => Proper(screen[k[1]], k, shared, back)
  PROVE  ScreensInv'
<1> DEFINE s == k[1]
           c == screen[s]
           d == Sent(c, shared, back)
<1>0. ScreensType /\ s \in Screens
  BY SlotIs DEF ScreensInv
<1>1. CASE screen' = screen
  <2>1. Overtaken = tick
    <3>1. \A x \in TickSlots : Overtaken[x] = tick[x]
      BY <1>1 DEF Overtaken
    <3> QED
      BY <1>0, <3>1 DEF Overtaken, ScreensType
  <2>2. tick' \in [TickSlots -> Ticking \cup {None}] /\ \A x \in TickSlots : tick'[x] \in {tick[x], None}
    BY <1>0, <2>1 DEF ScreensType
  <2>3. TicksAtHome'
    BY <1>1, <2>2 DEF ScreensInv, TicksAtHome
  <2>4. \A i \in Isolates : Known(i)' \subseteq Known(i)
    BY <1>1, <2>2 DEF Known
  <2>5. \A x \in Screens : Behind(x)' \subseteq Behind(x)
    BY <2>2, NoLine DEF Behind
  <2>6. \A x \in TickSlots : tick'[x] # None /\ Untorn(tick'[x].on) =>
          TickTurn(tick'[x], channel[tick'[x].on], Known(tick'[x].on), On(board), came)
    BY <2>2 DEF ScreensInv
  <2>7. \A x \in Screens : screen'[x] # None /\ Untorn(screen'[x].on) =>
          LineTurn(screen'[x], channel[screen'[x].on], Behind(x)')
    BY <1>1, <2>5 DEF ScreensInv, LineTurn
  <2>8. screen' \in [Screens -> Line \cup {None}]
    BY <1>0, <1>1 DEF ScreensType
  <2> QED
    BY <2>2, <2>3, <2>4, <2>6, <2>7, <2>8, StaysInTurn
<1>2. CASE /\ c # None
           /\ screen' = [screen EXCEPT ![s] = d]
           /\ Untorn(c.on) => Proper(c, k, shared, back)
  <2>0. c \in Line /\ c.on \in Isolates
    BY <1>0, <1>2 DEF ScreensType, Line
  <2>1. /\ d \in Line /\ d.on = c.on
        /\ shared = None \/ shared.payload = c.lastSig => d = c
        /\ shared # None /\ shared.payload # c.lastSig =>
             /\ d # c
             /\ d.lastSig = shared.payload
             /\ d.told = c.told \cup shared.payload.newIds
             /\ d.again = (c.again \/ shared.payload.newIds \cap c.told # {})
             /\ d.back = (c.back \/ back)
    BY <2>0, SentIs
  <2> HIDE DEF d
  <2>2. screen'[s] = d /\ (\A x \in Screens \ {s} : screen'[x] = screen[x])
        /\ screen' \in [Screens -> Line \cup {None}] /\ d # None
    BY <1>0, <1>2, <2>1, NoLine DEF ScreensType
  <2>3. tick' \in [TickSlots -> Ticking \cup {None}]
        /\ \A x \in TickSlots : tick'[x] # None => tick[x] # None /\ tick'[x] = Overtaken[x]
    BY OvertakenIs
  <2>4. ASSUME NEW x \in TickSlots, tick'[x] # None
        PROVE  /\ tick[x] # None
               /\ tick'[x].at = tick[x].at /\ tick'[x].on = tick[x].on
               /\ tick'[x].open = tick[x].open /\ tick'[x].seen = tick[x].seen
               /\ tick'[x].late = tick[x].late /\ tick'[x].rows = tick[x].rows
               /\ tick'[x].open /\ x[1] = s /\ d # c => tick'[x].overtaken
               /\ x[1] # s \/ d = c => tick'[x] = tick[x]
    <3>1. tick'[x] = Overtaken[x] /\ tick[x] # None /\ x[1] \in Screens
      BY <2>3, <2>4, SlotIs
    <3> QED
      BY <2>2, <3>1, OvertakenIs
  <2>5. TicksAtHome'
    <3> SUFFICES ASSUME NEW x \in TickSlots, tick'[x] # None, tick'[x].open
                 PROVE  screen'[x[1]] # None /\ screen'[x[1]].on = tick'[x].on
      BY DEF TicksAtHome
    <3>1. screen[x[1]] # None /\ screen[x[1]].on = tick'[x].on /\ x[1] \in Screens
      BY <2>4, SlotIs DEF ScreensInv, TicksAtHome
    <3> QED
      BY <2>1, <2>2, <3>1
  <2>6. ASSUME Untorn(c.on)
        PROVE  /\ ChannelTurn(channel[c.on], Known(c.on), On(board), came)
               /\ LineTurn(c, channel[c.on], Behind(s))
               /\ Proper(c, k, shared, back)
               /\ News(shared) \subseteq Known(c.on) \cup News(channel[c.on])
    <3>1. /\ ChannelTurn(channel[c.on], Known(c.on), On(board), came)
          /\ LineTurn(c, channel[c.on], Behind(s))
          /\ Proper(c, k, shared, back)
      BY <1>0, <1>2, <2>0, <2>6 DEF ScreensInv
    <3>2. News(shared) \subseteq Known(c.on) \cup News(channel[c.on])
      <4>1. CASE shared = None
        BY <4>1 DEF News
      <4>2. CASE shared # None /\ channel[c.on] # None /\ shared.payload = channel[c.on].payload
        BY <4>2 DEF News
      <4>3. CASE tick[k] # None /\ tick[k].open /\ shared = tick[k].seen
        <5>1. tick[k].on = c.on
          BY <4>3 DEF ScreensInv, TicksAtHome
        <5> QED
          BY <4>3, <5>1, KnownHas
      <4> QED
        BY <3>1, <4>1, <4>2, <4>3 DEF Proper
    <3> QED
      BY <3>1, <3>2
  <2>7. ASSUME NEW i \in Isolates, Untorn(i)
        PROVE  Known(i)' \subseteq Known(i) \cup News(channel[i])
    <3>1. ASSUME NEW x \in Screens, screen'[x] # None, screen'[x].on = i
          PROVE  screen'[x].told \subseteq Known(i) \cup News(channel[i])
      <4>1. CASE x = s
        <5>1. c.told \subseteq Known(c.on) /\ c.on = i
          BY <1>0, <1>2, <2>1, <2>2, <3>1, <4>1, KnownHas
        <5>2. d.told \subseteq c.told \cup News(shared)
          BY <2>1 DEF News
        <5> QED
          BY <2>2, <2>6, <2>7, <4>1, <5>1, <5>2
      <4>2. CASE x # s
        BY <2>2, <3>1, <4>2, KnownHas
      <4> QED
        BY <4>1, <4>2
    <3>2. \A x \in TickSlots : tick'[x] # None /\ tick'[x].on = i =>
            News(tick'[x].seen) \subseteq Known(i) \cup News(channel[i])
      BY <2>4, KnownHas
    <3> QED
      BY <3>1, <3>2, KnownIn
  <2>8. ASSUME NEW x \in TickSlots, tick'[x] # None, Untorn(tick'[x].on)
        PROVE  TickTurn(tick'[x], channel[tick'[x].on], Known(tick'[x].on), On(board), came)
    <3>1. TickTurn(tick[x], channel[tick[x].on], Known(tick[x].on), On(board), came)
          /\ tick'[x].on = tick[x].on
      BY <2>4, <2>8 DEF ScreensInv
    <3> QED
      BY <2>4, <2>8, <3>1 DEF TickTurn
  <2>9. ASSUME NEW x \in Screens, screen'[x] # None, Untorn(screen'[x].on)
        PROVE  LineTurn(screen'[x], channel[screen'[x].on], Behind(x)')
    <3>1. ASSUME x # s \/ d = c
          PROVE  Behind(x)' \subseteq Behind(x) /\ screen'[x] = screen[x]
      <4>1. ASSUME NEW y \in TickSlots, y[1] = x, tick'[y] # None PROVE tick'[y] = tick[y]
        BY <2>4, <3>1, <4>1
      <4> QED
        BY <2>2, <3>1, <4>1, NoLine DEF Behind
    <3>2. CASE x # s \/ d = c
      <4>1. LineTurn(screen[x], channel[screen[x].on], Behind(x))
        BY <2>9, <3>1, <3>2 DEF ScreensInv
      <4> QED
        BY <3>1, <3>2, <4>1 DEF LineTurn
    <3>3. CASE x = s /\ d # c
      <4>1. Behind(x)' = {}
        <5>1. ASSUME NEW y \in TickSlots, y[1] = x, tick'[y] # None, tick'[y].open
              PROVE  tick'[y].overtaken
          BY <2>4, <3>3, <5>1
        <5> QED
          BY <5>1, NoLine DEF Behind
      <4>2. shared # None /\ shared.payload # c.lastSig /\ screen'[x] = d /\ d.on = c.on
            /\ Untorn(c.on)
        BY <2>1, <2>2, <2>9, <3>3
      <4>3. LineTurn(c, channel[c.on], Behind(s)) /\ Proper(c, k, shared, back)
        BY <2>6, <4>2
      <4>4. CASE channel[c.on] # None /\ shared.payload = channel[c.on].payload
        <5>1. LineTurn(d, channel[c.on], {})
          BY <2>1, <4>2, <4>3, <4>4 DEF LineTurn, ToldOrLast, News
        <5> QED
          BY <4>1, <4>2, <5>1
      <4>5. CASE /\ tick[k] # None /\ tick[k].open /\ tick[k].late
                 /\ shared = tick[k].seen /\ back = tick[k].overtaken
        <5>1. CASE back
          <6>1. LineTurn(d, channel[c.on], {})
            BY <2>1, <4>2, <5>1 DEF LineTurn
          <6> QED
            BY <4>1, <4>2, <6>1
        <5>2. CASE ~back
          <6>1. tick[k] \in Behind(s)
            BY <1>0, <4>5, <5>2 DEF Behind, ScreensType
          <6>2. ~c.back => /\ ~c.again /\ News(channel[c.on]) \cap c.told = {}
                           /\ News(shared) \cap c.told = {}
            BY <4>2, <4>3, <4>5, <6>1 DEF LineTurn, ToldOrLast
          <6>3. tick[k].on = c.on
            BY <4>5 DEF ScreensInv, TicksAtHome
          <6>4. News(shared) \cap News(channel[c.on]) = {}
            BY <4>2, <4>5, <6>3 DEF ScreensInv, TickTurn
          <6>5. LineTurn(d, channel[c.on], {})
            <7>1. ~c.back /\ channel[c.on] # None =>
                    ~d.again /\ channel[c.on].payload.newIds \cap d.told = {}
              BY <2>1, <4>2, <5>2, <6>2, <6>4 DEF News
            <7>2. ~c.back => ~d.again
              BY <2>1, <4>2, <5>2, <6>2 DEF News
            <7>3. ~d.back => ~c.back
              BY <2>1, <4>2, <5>2
            <7> QED
              BY <7>1, <7>2, <7>3 DEF LineTurn, ToldOrLast, News
          <6> QED
            BY <4>1, <4>2, <6>5
        <5> QED
          BY <5>1, <5>2
      <4> QED
        BY <4>2, <4>3, <4>4, <4>5 DEF Proper
    <3> QED
      BY <3>2, <3>3
  <2> QED
    BY <2>2, <2>3, <2>5, <2>7, <2>8, <2>9, StaysInTurn
<1> QED
  BY <1>1, <1>2

\* A tick begins or goes on, and nobody is sent anything.
LEMMA TickMoves ==
  ASSUME ScreensInv, UNCHANGED <<board, came, clock, channel, screen>>,
         NEW k \in TickSlots, NEW d \in Ticking, tick' = [tick EXCEPT ![k] = d],
         d.open => screen[k[1]] # None /\ screen[k[1]].on = d.on,
         d.open /\ d.late /\ ~d.overtaken =>
           /\ tick[k] # None /\ tick[k].open /\ tick[k].late /\ ~tick[k].overtaken
           /\ tick[k].seen = d.seen,
         Untorn(d.on) =>
           /\ News(d.seen) \subseteq Known(d.on) \cup News(channel[d.on])
           /\ TickTurn(d, channel[d.on], Known(d.on), On(board), came)
  PROVE  ScreensInv'
<1>0. ScreensType /\ k[1] \in Screens
  BY SlotIs DEF ScreensInv
<1>1. /\ channel' \in [Isolates -> Shared \cup {None}] /\ \A i \in Isolates : Alike(i)
      /\ screen' \in [Screens -> Line \cup {None}]
  BY <1>0 DEF ScreensType, Alike
<1>2. /\ tick' \in [TickSlots -> Ticking \cup {None}] /\ tick'[k] = d
      /\ \A x \in TickSlots \ {k} : tick'[x] = tick[x]
  BY <1>0 DEF ScreensType
<1>3. TicksAtHome'
  BY <1>2 DEF ScreensInv, TicksAtHome
<1>4. ASSUME NEW i \in Isolates, Untorn(i)
      PROVE  Known(i)' \subseteq Known(i) \cup News(channel[i])
  <2>1. ASSUME NEW x \in TickSlots, tick'[x] # None, tick'[x].on = i
        PROVE  News(tick'[x].seen) \subseteq Known(i) \cup News(channel[i])
    BY <1>2, <1>4, <2>1, KnownHas
  <2>2. \A x \in Screens : screen'[x] # None /\ screen'[x].on = i =>
          screen'[x].told \subseteq Known(i) \cup News(channel[i])
    BY KnownHas
  <2> QED
    BY <2>1, <2>2, KnownIn
<1>5. ASSUME NEW x \in TickSlots, tick'[x] # None, Untorn(tick'[x].on)
      PROVE  TickTurn(tick'[x], channel[tick'[x].on], Known(tick'[x].on), On(board), came)
  BY <1>2, <1>5 DEF ScreensInv
<1>6. ASSUME NEW x \in Screens, screen'[x] # None, Untorn(screen'[x].on)
      PROVE  LineTurn(screen'[x], channel[screen'[x].on], Behind(x)')
  <2>1. LineTurn(screen[x], channel[screen[x].on], Behind(x)) /\ screen'[x] = screen[x]
    BY <1>6 DEF ScreensInv
  <2>2. ASSUME NEW t \in Behind(x)' PROVE \E u \in Behind(x) : u.seen = t.seen
    <3>1. PICK y \in TickSlots : y[1] = x /\ tick'[y] = t /\ t.open /\ t.late /\ ~t.overtaken
                             /\ t \in Ticking
      BY DEF Behind
    <3>2. /\ tick[y] # None /\ tick[y].open /\ tick[y].late /\ ~tick[y].overtaken
          /\ tick[y].seen = t.seen
      BY <1>2, <3>1, NoLine
    <3>3. tick[y] \in Behind(x)
      BY <1>0, <3>1, <3>2 DEF Behind, ScreensType
    <3> QED
      BY <3>2, <3>3
  <2> QED
    BY <2>1, <2>2 DEF LineTurn, ToldOrLast
<1> QED
  BY <1>1, <1>2, <1>3, <1>4, <1>5, <1>6, StaysInTurn

\* Connections come, go, or stay; their ticks stay, or have nobody left to send to.
LEMMA LinesMove ==
  ASSUME ScreensInv, UNCHANGED <<board, came, clock, channel>>,
         NEW s \in Screens, NEW d \in Line \cup {None}, screen' = [screen EXCEPT ![s] = d],
         d # None => screen[s] = None /\ d.told = {} /\ ~d.again,
         tick' \in [TickSlots -> Ticking \cup {None}],
         \A k \in TickSlots : tick'[k] # None =>
           /\ tick[k] # None /\ tick'[k].on = tick[k].on /\ tick'[k].seen = tick[k].seen
           /\ tick'[k].late = tick[k].late /\ tick'[k].rows = tick[k].rows
           /\ tick'[k].at = tick[k].at
           /\ k[1] # s => tick'[k] = tick[k]
           /\ k[1] = s => ~tick'[k].open
  PROVE  ScreensInv'
<1>0. ScreensType
  BY DEF ScreensInv
<1>1. /\ channel' \in [Isolates -> Shared \cup {None}] /\ \A i \in Isolates : Alike(i)
      /\ screen' \in [Screens -> Line \cup {None}] /\ screen'[s] = d
      /\ \A x \in Screens \ {s} : screen'[x] = screen[x]
  BY <1>0 DEF ScreensType, Alike
<1>2. TicksAtHome'
  BY <1>1, SlotIs DEF ScreensInv, TicksAtHome
<1>3. ASSUME NEW i \in Isolates PROVE Known(i)' \subseteq Known(i) \cup News(channel[i])
  <2>1. ASSUME NEW x \in TickSlots, tick'[x] # None, tick'[x].on = i
        PROVE  News(tick'[x].seen) \subseteq Known(i) \cup News(channel[i])
    BY <2>1, KnownHas
  <2>2. ASSUME NEW x \in Screens, screen'[x] # None, screen'[x].on = i
        PROVE  screen'[x].told \subseteq Known(i) \cup News(channel[i])
    BY <1>1, <2>2, KnownHas
  <2> QED
    BY <2>1, <2>2, KnownIn
<1>4. ASSUME NEW x \in TickSlots, tick'[x] # None, Untorn(tick'[x].on)
      PROVE  TickTurn(tick'[x], channel[tick'[x].on], Known(tick'[x].on), On(board), came)
  <2>1. TickTurn(tick[x], channel[tick[x].on], Known(tick[x].on), On(board), came)
    BY <1>4 DEF ScreensInv
  <2> QED
    BY <1>4, <2>1 DEF TickTurn
<1>5. ASSUME NEW x \in Screens, screen'[x] # None, Untorn(screen'[x].on)
      PROVE  LineTurn(screen'[x], channel[screen'[x].on], Behind(x)')
  <2>1. CASE x = s
    <3>1. Behind(x)' = {}
      BY <2>1, NoLine DEF Behind
    <3> QED
      BY <1>1, <1>5, <2>1, <3>1 DEF LineTurn, ToldOrLast
  <2>2. CASE x # s
    <3>1. Behind(x)' \subseteq Behind(x)
      BY <2>2, NoLine DEF Behind
    <3>2. LineTurn(screen[x], channel[screen[x].on], Behind(x)) /\ screen'[x] = screen[x]
      BY <1>1, <1>5, <2>2 DEF ScreensInv
    <3> QED
      BY <3>1, <3>2 DEF LineTurn
  <2> QED
    BY <2>1, <2>2
<1> QED
  BY <1>1, <1>2, <1>3, <1>4, <1>5, StaysInTurn

LEMMA LeavesKeeps ==
  ASSUME ScreensInv, NEW s \in Screens, Leaves(s)
  PROVE  ScreensInv'
<1>0. ScreensType
  BY DEF ScreensInv
<1>1. screen' = [screen EXCEPT ![s] = None] /\ UNCHANGED <<board, came, clock, channel>>
  BY DEF Leaves, boardVars
<1>2. ASSUME NEW k \in TickSlots
      PROVE  /\ tick'[k] \in Ticking \cup {None}
             /\ tick'[k] # None =>
                  /\ tick[k] # None /\ tick'[k].on = tick[k].on /\ tick'[k].seen = tick[k].seen
                  /\ tick'[k].late = tick[k].late /\ tick'[k].rows = tick[k].rows
                  /\ tick'[k].at = tick[k].at
                  /\ k[1] # s => tick'[k] = tick[k]
                  /\ k[1] = s => ~tick'[k].open
  <2>1. tick[k] \in Ticking \cup {None}
    BY <1>0 DEF ScreensType
  <2>2. tick'[k] = IF k[1] = s /\ tick[k] # None THEN [tick[k] EXCEPT !.open = FALSE] ELSE tick[k]
    BY DEF Leaves
  <2>3. CASE k[1] = s /\ tick[k] # None
    BY <2>1, <2>2, <2>3 DEF Ticking
  <2>4. CASE ~(k[1] = s /\ tick[k] # None)
    BY <2>1, <2>2, <2>4
  <2> QED
    BY <2>3, <2>4
<1>3. tick' \in [TickSlots -> Ticking \cup {None}]
  BY <1>2 DEF Leaves
<1> QED
  BY <1>1, <1>2, <1>3, LinesMove

LEMMA ConnectsKeeps ==
  ASSUME ScreensInv, NEW s \in Screens, NEW i \in Isolates, Connects(s, i)
  PROVE  ScreensInv'
<1> DEFINE d == [on |-> i, lastSig |-> None, told |-> {}, again |-> FALSE, back |-> FALSE]
<1>0. ScreensType
  BY DEF ScreensInv
<1>1. d \in Line /\ d.told = {} /\ ~d.again
  BY DEF Line
<1>2. /\ screen' = [screen EXCEPT ![s] = d] /\ screen[s] = None /\ tick' = tick
      /\ UNCHANGED <<board, came, clock, channel>>
  BY DEF Connects, boardVars
<1> HIDE DEF d
<1>3. tick' \in [TickSlots -> Ticking \cup {None}]
  BY <1>0, <1>2 DEF ScreensType
<1>4. \A k \in TickSlots : tick[k] # None /\ k[1] = s => ~tick[k].open
  BY <1>2 DEF ScreensInv, TicksAtHome
<1> QED
  BY <1>1, <1>2, <1>3, <1>4, LinesMove

\* An isolate goes with all that runs there.
LEMMA EvictsScreens ==
  ASSUME ScreensInv, NEW i \in Isolates, Evict(i)
  PROVE  ScreensInv'
<1>0. ScreensType
  BY DEF ScreensInv
<1>1. /\ channel' = [channel EXCEPT ![i] = None]
      /\ screen' = [x \in Screens |->
           IF screen[x] # None /\ screen[x].on = i THEN None ELSE screen[x]]
      /\ tick' = [k \in TickSlots |-> IF tick[k] # None /\ tick[k].on = i THEN None ELSE tick[k]]
      /\ UNCHANGED <<board, came, clock>>
  BY DEF Evict, boardVars
<1>2. /\ channel' \in [Isolates -> Shared \cup {None}] /\ channel'[i] = None
      /\ \A j \in Isolates \ {i} : channel'[j] = channel[j]
  BY <1>0, <1>1 DEF ScreensType
<1>3. /\ screen' \in [Screens -> Line \cup {None}]
      /\ \A x \in Screens : screen'[x] # None =>
           screen'[x] = screen[x] /\ screen[x].on # i /\ screen[x].on \in Isolates
  BY <1>0, <1>1 DEF ScreensType, Line
<1>4. /\ tick' \in [TickSlots -> Ticking \cup {None}]
      /\ \A k \in TickSlots : tick'[k] # None =>
           tick'[k] = tick[k] /\ tick[k].on # i /\ tick[k].on \in Isolates
  BY <1>0, <1>1 DEF ScreensType, Ticking
<1>5. ScreensType' /\ On(board)' = On(board) /\ came' = came
  BY <1>0, <1>1, <1>2, <1>3, <1>4 DEF ScreensType, On
<1>6. TicksAtHome'
  BY <1>1, <1>4, SlotIs DEF ScreensInv, TicksAtHome
<1>7. \A j \in Isolates : Known(j)' \subseteq Known(j)
  BY <1>3, <1>4 DEF Known
<1>8. ASSUME NEW j \in Isolates, Untorn(j)'
      PROVE  ChannelTurn(channel'[j], Known(j)', On(board)', came')
  <2>1. CASE j = i
    <3>1. Known(j)' = {}
      BY <1>3, <1>4, <2>1 DEF Known
    <3> QED
      BY <1>2, <2>1, <3>1 DEF ChannelTurn, Shown, News
  <2>2. CASE j # i
    <3>1. Untorn(j) /\ channel'[j] = channel[j]
      BY <1>2, <1>8, <2>2 DEF Untorn
    <3> QED
      BY <1>5, <1>7, <3>1 DEF ScreensInv, ChannelTurn
  <2> QED
    BY <2>1, <2>2
<1>9. ASSUME NEW k \in TickSlots, tick'[k] # None, Untorn(tick[k].on)'
      PROVE  TickTurn(tick'[k], channel'[tick'[k].on], Known(tick[k].on)', On(board)', came')
  <2>1. PICK t : t = tick[k]
    OBVIOUS
  <2>2. PICK j : j = t.on
    OBVIOUS
  <2>3. tick'[k] = t /\ t # None /\ j \in Isolates /\ channel'[j] = channel[j]
    BY <1>2, <1>4, <1>9, <2>1, <2>2
  <2>4. Untorn(j) /\ Known(tick[k].on)' = Known(j)'
    BY <1>9, <2>2, <2>3 DEF Untorn, Known
  <2>5. TickTurn(t, channel[j], Known(j), On(board), came)
    BY <2>1, <2>2, <2>3, <2>4 DEF ScreensInv
  <2> QED
    BY <1>5, <1>7, <2>2, <2>3, <2>4, <2>5 DEF TickTurn
<1>10. ASSUME NEW s \in Screens, screen'[s] # None, Untorn(screen[s].on)'
       PROVE  LineTurn(screen'[s], channel'[screen'[s].on], Behind(s)')
  <2>1. screen'[s] = screen[s] /\ screen[s] # None /\ channel'[screen[s].on] = channel[screen[s].on]
    BY <1>2, <1>3, <1>10
  <2>2. Untorn(screen[s].on)
    BY <1>10, <2>1 DEF Untorn
  <2>3. Behind(s)' \subseteq Behind(s)
    BY <1>4, NoLine DEF Behind
  <2> QED
    BY <2>1, <2>2, <2>3 DEF ScreensInv, LineTurn
<1> QED
  BY <1>5, <1>6, <1>8, <1>9, <1>10 DEF ScreensInv

\* The orders change: none comes that was there before.
LEMMA BoardKeeps ==
  ASSUME ScreensInv, UNCHANGED <<channel, screen, tick>>, clock' \in Nat, board' \in SUBSET Row,
         came' = came \cup On(board'), came' \in SUBSET Orders,
         \A o \in On(board') : o \in On(board) \/ o \notin came
  PROVE  ScreensInv'
<1>1. On(board)' = On(board') /\ ScreensType' /\ TicksAtHome'
  BY DEF ScreensInv, ScreensType, TicksAtHome, On
<1>2. /\ \A i : Known(i)' = Known(i) /\ Untorn(i)' = Untorn(i)
      /\ \A s : Behind(s)' = Behind(s)
  BY DEF Known, Untorn, Behind
<1>3. ASSUME NEW i \in Isolates, Untorn(i)
      PROVE  /\ ChannelTurn(channel[i], Known(i), On(board), came)
             /\ ChannelTurn(channel[i], Known(i), On(board'), came')
  BY <1>3 DEF ScreensInv, ChannelTurn
<1>4. ASSUME NEW k \in TickSlots, tick[k] # None, Untorn(tick[k].on)
      PROVE  TickTurn(tick[k], channel[tick[k].on], Known(tick[k].on), On(board'), came')
  <2>1. tick[k].on \in Isolates
    BY <1>4 DEF ScreensInv, ScreensType, Ticking
  <2>2. Shown(channel[tick[k].on]) \subseteq came
    BY <1>3, <1>4, <2>1 DEF ChannelTurn
  <2>3. TickTurn(tick[k], channel[tick[k].on], Known(tick[k].on), On(board), came)
    BY <1>4 DEF ScreensInv
  <2> QED
    BY <2>2, <2>3 DEF TickTurn
<1>5. ASSUME NEW k \in TickSlots, tick'[k] # None, Untorn(tick[k].on)'
      PROVE  TickTurn(tick'[k], channel'[tick'[k].on], Known(tick[k].on)', On(board)', came')
  <2>1. Untorn(tick[k].on) /\ Known(tick[k].on)' = Known(tick[k].on)
    BY <1>5 DEF Untorn, Known
  <2> QED
    BY <1>1, <1>4, <1>5, <2>1
<1>6. ASSUME NEW s \in Screens, screen'[s] # None, Untorn(screen[s].on)'
      PROVE  LineTurn(screen'[s], channel'[screen'[s].on], Behind(s)')
  <2>1. Untorn(screen[s].on)
    BY <1>6 DEF Untorn
  <2> QED
    BY <1>2, <1>6, <2>1 DEF ScreensInv
<1>7. On(board)' \subseteq came'
  BY <1>1
<1> QED
  BY <1>1, <1>2, <1>3, <1>5, <1>6, <1>7 DEF ScreensInv

LEMMA OrdersKeep ==
  ASSUME ScreensInv, NEW o \in Orders, NEW at \in {clock, clock + 1},
         OrderComes(o, at) \/ OrderChanges(o, at) \/ OrderLeaves(o, at) \/ OrderIsPaid(o)
  PROVE  ScreensInv'
<1>1. clock \in Nat /\ board \in SUBSET Row /\ came \in SUBSET Orders /\ On(board) \subseteq came
  BY DEF ScreensInv, ScreensType
<1>2. at \in Nat
  BY <1>1
<1>3. \A r \in board : o \in On(board) \/ r.order # o
  BY DEF On
<1>4. ASSUME NEW r \in board, NEW n \in Row, n.order = r.order
      PROVE  \A p \in On((board \ {r}) \cup {n}) : p \in On(board)
  BY <1>4 DEF On
<1>5. PICK after \in SUBSET Row, time \in Nat :
        /\ BoardChanges(after, time)
        /\ \A p \in On(after) : p \in On(board) \/ p \notin came
  <2>1. CASE OrderComes(o, at)
    <3> DEFINE n == [order |-> o, at |-> at, paid |-> FALSE]
    <3>1. n \in Row /\ n.order = o
      BY <1>2 DEF Row
    <3>2. o \notin came /\ BoardChanges(board \cup {n}, at)
      BY <2>1 DEF OrderComes
    <3> HIDE DEF n
    <3>3. \A p \in On(board \cup {n}) : p \in On(board) \/ p = o
      BY <3>1 DEF On
    <3> QED
      BY <1>1, <1>2, <3>1, <3>2, <3>3
  <2>2. CASE OrderChanges(o, at)
    <3>1. PICK r \in board : BoardChanges((board \ {r}) \cup {[r EXCEPT !.at = at]}, at)
      BY <2>2 DEF OrderChanges
    <3> DEFINE n == [r EXCEPT !.at = at]
    <3>2. n \in Row /\ n.order = r.order
      BY <1>1, <1>2 DEF Row
    <3> HIDE DEF n
    <3> QED
      BY <1>1, <1>2, <1>4, <3>1, <3>2 DEF n
  <2>3. CASE OrderLeaves(o, at)
    <3>1. PICK r \in board : BoardChanges(board \ {r}, at)
      BY <2>3 DEF OrderLeaves
    <3>2. \A p \in On(board \ {r}) : p \in On(board)
      BY DEF On
    <3> QED
      BY <1>1, <1>2, <3>1, <3>2
  <2>4. CASE OrderIsPaid(o)
    <3>1. PICK r \in board : BoardChanges((board \ {r}) \cup {[r EXCEPT !.paid = ~@]}, clock)
      BY <2>4 DEF OrderIsPaid
    <3> DEFINE n == [r EXCEPT !.paid = ~@]
    <3>2. n \in Row /\ n.order = r.order
      BY <1>1 DEF Row
    <3> HIDE DEF n
    <3> QED
      BY <1>1, <1>4, <3>1, <3>2 DEF n
  <2> QED
    BY <2>1, <2>2, <2>3, <2>4
<1>6. On(after) \subseteq Orders
  BY <1>5 DEF On, Row
<1> QED
  BY <1>1, <1>5, <1>6, BoardKeeps DEF BoardChanges

-----------------------------------------------------------------------------
(* The ticks.                                                              *)

LEMMA TickArrivesKeeps ==
  ASSUME ScreensInv, NEW k \in TickSlots, TickArrives(k)
  PROVE  ScreensInv'
<1> DEFINE s      == k[1]
           c      == screen[s]
           shared == channel[c.on]
           d      == [at |-> "probing", on |-> c.on, open |-> TRUE, seen |-> shared, probe |-> 0,
                      rows |-> {}, late |-> FALSE, overtaken |-> FALSE]
<1>0. c # None /\ UNCHANGED <<board, came, clock, channel>>
  BY DEF TickArrives, boardVars
<1>1. ScreensType /\ s \in Screens /\ c \in Line /\ c.on \in Isolates
      /\ shared \in Shared \cup {None}
  BY <1>0, SlotIs DEF ScreensInv, ScreensType, Line
<1>2. channel' \in [Isolates -> Shared \cup {None}] /\ \A i \in Isolates : Alike(i)
  BY <1>0, <1>1 DEF ScreensType, Alike
<1>3. CASE screen' = [screen EXCEPT ![s] = Sent(c, shared, FALSE)] /\ tick' = Overtaken
  <2>1. Proper(c, k, shared, FALSE)
    BY DEF Proper
  <2> QED
    BY <1>0, <1>1, <1>2, <1>3, <2>1, TickEnds
<1>4. CASE screen' = screen /\ tick' = [tick EXCEPT ![k] = d]
  <2>1. d \in Ticking /\ d.open /\ ~d.late /\ d.on = c.on /\ d.seen = shared /\ d.at = "probing"
    BY <1>1 DEF Ticking, Stamps
  <2> HIDE DEF d
  <2>2. TickTurn(d, channel[d.on], Known(d.on), On(board), came)
    BY <2>1 DEF TickTurn
  <2> QED
    BY <1>0, <1>4, <2>1, <2>2, TickMoves
<1> QED
  BY <1>3, <1>4 DEF TickArrives

LEMMA TickProbesKeeps ==
  ASSUME ScreensInv, NEW k \in TickSlots, TickProbes(k) \/ TickReads(k)
  PROVE  ScreensInv'
<1> DEFINE t == tick[k]
<1>0. t # None /\ UNCHANGED <<board, came, clock, channel, screen>>
  BY DEF TickProbes, TickReads, boardVars, None
<1>1. ScreensType /\ t \in Ticking /\ t.on \in Isolates /\ board \in SUBSET Row
  BY <1>0 DEF ScreensInv, ScreensType, Ticking
<1>2. t.open => screen[k[1]] # None /\ screen[k[1]].on = t.on
  BY <1>0 DEF ScreensInv, TicksAtHome
<1>3. News(t.seen) \subseteq Known(t.on)
  BY <1>0, KnownHas
<1>4. Untorn(t.on) => TickTurn(t, channel[t.on], Known(t.on), On(board), came)
  BY <1>0 DEF ScreensInv
<1>5. CASE TickProbes(k)
  <2> DEFINE d == [t EXCEPT !.at = "probed", !.probe = Probe(board)]
  <2>1. Probe(board) \in Stamps
    BY <1>1 DEF Stamps
  <2>2. /\ d \in Ticking /\ d.at = "probed" /\ d.on = t.on /\ d.open = t.open /\ d.seen = t.seen
        /\ d.late = t.late /\ d.overtaken = t.overtaken
    BY <1>1, <2>1 DEF Ticking
  <2>3. tick' = [tick EXCEPT ![k] = d]
    BY <1>1, <1>5 DEF TickProbes, ScreensType
  <2> HIDE DEF d, t
  <2>4. Untorn(d.on) => TickTurn(d, channel[d.on], Known(d.on), On(board), came)
    BY <1>4, <2>2 DEF TickTurn
  <2> QED
    BY <1>0, <1>2, <1>3, <2>2, <2>3, <2>4, TickMoves DEF t
<1>6. CASE TickReads(k)
  <2> DEFINE d == [t EXCEPT !.at = "sharing", !.rows = board]
  <2>2. /\ d \in Ticking /\ d.rows = board /\ d.on = t.on /\ d.open = t.open /\ d.seen = t.seen
        /\ d.late = t.late /\ d.overtaken = t.overtaken
    BY <1>1 DEF Ticking
  <2>3. tick' = [tick EXCEPT ![k] = d]
    BY <1>1, <1>6 DEF TickReads, ScreensType
  <2> HIDE DEF d, t
  <2>4. ASSUME Untorn(d.on) PROVE TickTurn(d, channel[d.on], Known(d.on), On(board), came)
    <3>1. ChannelTurn(channel[d.on], Known(d.on), On(board), came) /\ On(board) \subseteq came
      BY <1>1, <2>2, <2>4 DEF ScreensInv
    <3> QED
      BY <1>4, <2>2, <2>4, <3>1 DEF TickTurn, ChannelTurn
  <2> QED
    BY <1>0, <1>2, <1>3, <2>2, <2>3, <2>4, TickMoves DEF t
<1> QED
  BY <1>5, <1>6

\* A tick ends with what it saw.
LEMMA SeenIsSent ==
  ASSUME ScreensInv, UNCHANGED <<board, came, clock>>,
         channel' \in [Isolates -> Shared \cup {None}], \A i \in Isolates : Alike(i),
         NEW k \in TickSlots, tick[k] # None, TickSends(k, tick[k].seen),
         tick' = [Overtaken EXCEPT ![k] = None]
  PROVE  ScreensInv'
<1> DEFINE t    == tick[k]
           c    == screen[k[1]]
           back == t.late /\ t.overtaken
<1>1. t \in Ticking /\ t.seen \in Shared \cup {None} /\ back \in BOOLEAN
  BY DEF ScreensInv, ScreensType, Ticking
<1>2. CASE ~t.open
  <2>1. screen' = screen
    BY <1>2 DEF TickSends
  <2> QED
    BY <1>1, <2>1, TickEnds
<1>3. CASE t.open
  <2>1. c # None /\ c.on = t.on
    BY <1>3 DEF ScreensInv, TicksAtHome
  <2>2. screen' = [screen EXCEPT ![k[1]] = Sent(c, t.seen, back)]
    BY <1>3 DEF TickSends, ScreensInv, ScreensType
  <2>3. ASSUME Untorn(c.on) PROVE Proper(c, k, t.seen, back)
    <3>1. TickTurn(t, channel[c.on], Known(c.on), On(board), came)
      BY <2>1, <2>3 DEF ScreensInv
    <3>2. CASE t.late
      <4>1. back = t.overtaken
        BY <1>1, <3>2 DEF Ticking
      <4> QED
        BY <1>3, <3>2, <4>1 DEF Proper
    <3>3. CASE ~t.late
      BY <3>1, <3>3 DEF TickTurn, Proper
    <3> QED
      BY <3>2, <3>3
  <2> HIDE DEF back
  <2> QED
    BY <1>1, <2>1, <2>2, <2>3, TickEnds
<1> QED
  BY <1>2, <1>3

LEMMA TickFailsKeeps ==
  ASSUME ScreensInv, NEW k \in TickSlots, TickFails(k)
  PROVE  ScreensInv'
<1>1. /\ UNCHANGED <<board, came, clock, channel>> /\ tick[k] # None
      /\ TickSends(k, tick[k].seen) /\ tick' = [Overtaken EXCEPT ![k] = None]
  BY DEF TickFails, boardVars
<1>2. channel' \in [Isolates -> Shared \cup {None}] /\ \A i \in Isolates : Alike(i)
  BY <1>1 DEF ScreensInv, ScreensType, Alike
<1> QED
  BY <1>1, <1>2, SeenIsSent

\* What is shared in isolate i becomes fresh, or stale.
LEMMA FreshAlike ==
  ASSUME ScreensInv, NEW i \in Isolates, channel[i] # None, NEW b \in BOOLEAN,
         channel' = [channel EXCEPT ![i].fresh = b]
  PROVE  channel' \in [Isolates -> Shared \cup {None}] /\ \A j \in Isolates : Alike(j)
<1> DEFINE e == [channel[i] EXCEPT !.fresh = b]
<1>0. channel \in [Isolates -> Shared \cup {None}]
  BY DEF ScreensInv, ScreensType
<1>1. e \in Shared /\ e.payload = channel[i].payload /\ e.torn = channel[i].torn
  BY <1>0 DEF Shared
<1>2. channel' = [channel EXCEPT ![i] = e]
  BY <1>0
<1>3. e # None
  BY <1>1, NoLine
<1> HIDE DEF e
<1> QED
  BY <1>0, <1>1, <1>2, <1>3 DEF Alike

LEMMA TickStandsKeeps ==
  ASSUME ScreensInv, NEW k \in TickSlots, TickStands(k)
  PROVE  ScreensInv'
<1> DEFINE t == tick[k]
<1>0. /\ t.at = "probed" /\ t.seen # None /\ UNCHANGED <<board, came, clock>>
      /\ channel' = IF t.late THEN channel ELSE [channel EXCEPT ![t.on].fresh = TRUE]
      /\ TickSends(k, t.seen) /\ tick' = [Overtaken EXCEPT ![k] = None]
  BY DEF TickStands, Stands, boardVars
<1>1. t # None
  BY <1>0 DEF None
<1>2. t \in Ticking /\ t.on \in Isolates /\ ScreensType
  BY <1>1 DEF ScreensInv, ScreensType, Ticking
<1>3. channel' \in [Isolates -> Shared \cup {None}] /\ \A i \in Isolates : Alike(i)
  <2>1. CASE t.late
    BY <1>0, <1>2, <2>1 DEF ScreensType, Alike
  <2>2. CASE ~t.late
    <3>1. channel[t.on] # None
      <4>1. CASE Untorn(t.on)
        BY <1>0, <1>1, <2>2, <4>1 DEF ScreensInv, TickTurn
      <4>2. CASE ~Untorn(t.on)
        BY <4>2 DEF Untorn
      <4> QED
        BY <4>1, <4>2
    <3> QED
      BY <1>0, <1>2, <2>2, <3>1, FreshAlike
  <2> QED
    BY <2>1, <2>2
<1> QED
  BY <1>0, <1>1, <1>3, SeenIsSent

\* Nothing moves but how fresh what is shared is.
LEMMA ScreensRest ==
  ASSUME ScreensInv, UNCHANGED <<board, came, clock, screen, tick>>,
         channel' \in [Isolates -> Shared \cup {None}], \A i \in Isolates : Alike(i)
  PROVE  ScreensInv'
<1>1. /\ screen' \in [Screens -> Line \cup {None}] /\ tick' \in [TickSlots -> Ticking \cup {None}]
      /\ TicksAtHome'
  BY DEF ScreensInv, ScreensType, TicksAtHome
<1>2. (\A i : Known(i)' = Known(i)) /\ \A s : Behind(s)' = Behind(s)
  BY DEF Known, Behind
<1>3. \A k \in TickSlots : tick'[k] # None /\ Untorn(tick'[k].on) =>
        TickTurn(tick'[k], channel[tick'[k].on], Known(tick'[k].on), On(board), came)
  BY DEF ScreensInv
<1>4. \A s \in Screens : screen'[s] # None /\ Untorn(screen'[s].on) =>
        LineTurn(screen'[s], channel[screen'[s].on], Behind(s)')
  BY <1>2 DEF ScreensInv
<1>5. \A i \in Isolates : Untorn(i) => Known(i)' \subseteq Known(i) \cup News(channel[i])
  BY <1>2
<1>6. UNCHANGED <<board, came, clock>>
  OBVIOUS
<1> QED
  BY <1>1, <1>3, <1>4, <1>5, <1>6, StaysInTurn

LEMMA PayloadAgesKeeps ==
  ASSUME ScreensInv, NEW i \in Isolates, PayloadAges(i)
  PROVE  ScreensInv'
<1>1. channel' \in [Isolates -> Shared \cup {None}] /\ \A j \in Isolates : Alike(j)
  BY FreshAlike DEF PayloadAges
<1> QED
  BY <1>1, ScreensRest DEF PayloadAges, boardVars

LEMMA NoMessage == None \notin Message
<1>1. SUFFICES ASSUME None \in Message PROVE FALSE
  OBVIOUS
<1>2. None = [orders |-> None.orders, newIds |-> None.newIds]
  BY <1>1 DEF Message
<1>3. DOMAIN None = {"at"}
  BY DEF None
<1>4. DOMAIN [orders |-> None.orders, newIds |-> None.newIds] = {"orders", "newIds"}
  OBVIOUS
<1> QED
  BY <1>2, <1>3, <1>4

\* A tick shares what it read.  If it is not late, its news is told to nobody yet.
LEMMA SharingKeeps ==
  ASSUME ScreensInv, NEW k \in TickSlots, TickShares(k),
         NEW t, t = tick[k], NEW i, i = t.on
  PROVE  ScreensInv'
<1> DEFINE before == IF t.seen = None THEN None ELSE t.seen.payload
           P      == Payload(before, t.rows)
           lost   == t.late \/ (channel[i] # None /\ channel[i].torn)
           shared == [payload |-> P, probe |-> t.probe, fresh |-> TRUE, torn |-> lost]
           back   == t.late /\ t.overtaken
<1>0. t.at = "sharing" /\ UNCHANGED <<board, came, clock>>
  BY DEF TickShares, boardVars
<1>1. t # None
  BY <1>0 DEF None
<1>2. ScreensType /\ t \in Ticking /\ i \in Isolates /\ k[1] \in Screens
  BY <1>1, SlotIs DEF ScreensInv, ScreensType, Ticking
<1>3. /\ channel' = [channel EXCEPT ![i] = shared] /\ TickSends(k, shared)
      /\ tick' = [x \in TickSlots |->
           IF x = k THEN None
           ELSE IF tick[x] # None /\ tick[x].on = i THEN [Overtaken[x] EXCEPT !.late = TRUE]
           ELSE tick[x]]
  BY DEF TickShares, ProbedFirst
<1>4. /\ P \in Message /\ P.orders = t.rows
      /\ P.newIds = IF t.seen = None THEN {} ELSE On(t.rows) \ On(t.seen.payload.orders)
  <2>1. On(t.rows) \subseteq Orders
    BY <1>2 DEF Ticking, On, Row
  <2>2. t.seen # None => t.seen.payload # None
    BY <1>2, NoMessage DEF Ticking, Shared
  <2>3. P = [orders |-> t.rows, newIds |->
          IF t.seen = None THEN {} ELSE On(t.rows) \ On(t.seen.payload.orders)]
    BY <2>2 DEF Payload, NewIds
  <2> QED
    BY <1>2, <2>1, <2>3 DEF Message, Ticking
<1>5. lost \in BOOLEAN /\ back \in BOOLEAN
  <2>1. channel[i] # None => channel[i] \in Shared
    BY <1>2 DEF ScreensType
  <2> QED
    BY <1>2, <2>1 DEF Ticking, Shared
<1> HIDE DEF P, before, lost
<1>6. shared \in Shared /\ shared.payload = P /\ shared.torn = lost
  BY <1>2, <1>4, <1>5 DEF Shared, Ticking
<1> HIDE DEF shared
<1>7. shared # None /\ News(shared) = P.newIds /\ Shown(shared) = On(t.rows)
  BY <1>4, <1>6, NoLine DEF News, Shown
<1>8. /\ channel' \in [Isolates -> Shared \cup {None}] /\ channel'[i] = shared
      /\ \A j \in Isolates \ {i} : channel'[j] = channel[j]
  BY <1>2, <1>3, <1>6 DEF ScreensType
\* The connections: that of the tick, if it is there, is sent P.
<1>9. /\ screen' \in [Screens -> Line \cup {None}]
      /\ \A x \in Screens : screen'[x] # None <=> screen[x] # None
      /\ \A x \in Screens : screen[x] # None => screen'[x].on = screen[x].on
      /\ \A x \in Screens : screen'[x] # screen[x] =>
           /\ x = k[1] /\ t.open /\ screen[x] # None /\ screen[x].on = i
           /\ screen'[x].lastSig = P /\ screen'[x].told = screen[x].told \cup P.newIds
           /\ screen'[x].again = (screen[x].again \/ P.newIds \cap screen[x].told # {})
           /\ screen'[x].back = (screen[x].back \/ back)
  <2>1. CASE ~t.open
    <3>1. screen' = screen
      BY <1>3, <2>1 DEF TickSends
    <3> QED
      BY <1>2, <3>1 DEF ScreensType
  <2>2. CASE t.open
    <3> DEFINE c == screen[k[1]]
               d == Sent(c, shared, back)
    <3>1. c # None /\ c.on = i /\ c \in Line
      BY <1>1, <1>2, <2>2 DEF ScreensInv, TicksAtHome, ScreensType
    <3>2. screen' = [screen EXCEPT ![k[1]] = d]
      BY <1>2, <1>3, <2>2 DEF TickSends, ScreensType
    <3> HIDE DEF back
    <3>3. /\ d \in Line /\ d.on = i
          /\ d # c => /\ d.lastSig = P /\ d.told = c.told \cup P.newIds
                      /\ d.again = (c.again \/ P.newIds \cap c.told # {})
                      /\ d.back = (c.back \/ back)
      BY <1>5, <1>6, <1>7, <3>1, SentIs
    <3> HIDE DEF d
    <3>4. d # None
      BY <3>3, NoLine
    <3> QED
      BY <1>2, <2>2, <3>1, <3>2, <3>3, <3>4 DEF ScreensType
  <2> QED
    BY <2>1, <2>2
<1> HIDE DEF back
\* The ticks: the others of the isolate are late, and overtaken if their connection is sent P.
<1>10. ASSUME NEW x \in TickSlots
       PROVE  /\ tick'[x] \in Ticking \cup {None}
              /\ tick'[x] # None =>
                   /\ x # k /\ tick[x] # None
                   /\ tick'[x].on = tick[x].on /\ tick'[x].open = tick[x].open
                   /\ tick'[x].seen = tick[x].seen
                   /\ tick[x].on = i => tick'[x].late
                   /\ tick[x].on = i /\ tick[x].open /\ screen'[x[1]] # screen[x[1]] =>
                        tick'[x].overtaken
                   /\ tick[x].on = i /\ ~tick'[x].overtaken => ~tick[x].overtaken
                   /\ tick[x].on # i => tick'[x] = tick[x]
  <2>1. CASE x = k
    BY <1>3, <2>1
  <2>2. CASE x # k /\ tick[x] # None /\ tick[x].on = i
    <3> DEFINE e == Overtaken[x]
    <3>1. /\ e \in Ticking /\ e.on = tick[x].on /\ e.open = tick[x].open
          /\ e.seen = tick[x].seen
          /\ IF tick[x].open /\ screen'[x[1]] # screen[x[1]] THEN e.overtaken
             ELSE e = tick[x]
      BY <2>2, OvertakenIs
    <3>2. tick'[x] = [e EXCEPT !.late = TRUE]
      BY <1>3, <2>2
    <3> HIDE DEF e
    <3>3. /\ tick'[x] \in Ticking /\ tick'[x].on = e.on /\ tick'[x].open = e.open
          /\ tick'[x].seen = e.seen /\ tick'[x].late /\ tick'[x].overtaken = e.overtaken
      BY <3>1, <3>2 DEF Ticking
    <3> QED
      BY <2>2, <3>1, <3>3
  <2>3. CASE x # k /\ ~(tick[x] # None /\ tick[x].on = i)
    <3>1. tick'[x] = tick[x]
      BY <1>3, <2>3
    <3> QED
      BY <1>2, <2>3, <3>1 DEF ScreensType
  <2> QED
    BY <2>1, <2>2, <2>3
<1>11. tick' \in [TickSlots -> Ticking \cup {None}]
  BY <1>3, <1>10
<1>12. ScreensType' /\ On(board)' = On(board) /\ came' = came
  BY <1>0, <1>2, <1>8, <1>9, <1>11 DEF ScreensType, On
<1>13. TicksAtHome'
  <2> SUFFICES ASSUME NEW x \in TickSlots, tick'[x] # None, tick'[x].open
               PROVE  screen'[x[1]] # None /\ screen'[x[1]].on = tick'[x].on
    BY DEF TicksAtHome
  <2>1. screen[x[1]] # None /\ screen[x[1]].on = tick'[x].on /\ x[1] \in Screens
    BY <1>10, SlotIs DEF ScreensInv, TicksAtHome
  <2> QED
    BY <1>9, <2>1
<1>14. Untorn(i)' <=> ~lost
  BY <1>6, <1>7, <1>8 DEF Untorn
<1>15. ASSUME ~lost
       PROVE  /\ ~t.late /\ Untorn(i)
              /\ P.newIds \cap Known(i) = {} /\ P.newIds \cap Shown(channel[i]) = {}
              /\ ChannelTurn(channel[i], Known(i), On(board), came)
              /\ ChannelTurn(shared, Known(i) \cup P.newIds, On(board), came)
  <2>1. ~t.late /\ Untorn(i)
    BY <1>15 DEF lost, Untorn
  <2>2. /\ TickTurn(t, channel[i], Known(i), On(board), came)
        /\ ChannelTurn(channel[i], Known(i), On(board), came)
    BY <1>1, <1>2, <2>1 DEF ScreensInv
  <2>3. P.newIds \subseteq On(t.rows) /\ P.newIds \cap Shown(channel[i]) = {}
    BY <1>4, <2>1, <2>2 DEF TickTurn, Shown
  <2>4. P.newIds \cap Known(i) = {}
    BY <1>0, <2>1, <2>2, <2>3 DEF TickTurn
  <2>5. ChannelTurn(shared, Known(i) \cup P.newIds, On(board), came)
    BY <1>0, <1>7, <2>1, <2>2, <2>3 DEF TickTurn, ChannelTurn
  <2> QED
    BY <2>1, <2>2, <2>3, <2>4, <2>5
<1>16. /\ Known(i)' \subseteq Known(i) \cup P.newIds
       /\ \A j \in Isolates \ {i} : Known(j)' \subseteq Known(j)
  <2>1. ASSUME NEW j \in Isolates, NEW x \in Screens, screen'[x] # None, screen'[x].on = j
        PROVE  screen'[x].told \subseteq Known(j) \cup (IF j = i THEN P.newIds ELSE {})
    BY <1>9, <2>1, KnownHas
  <2>2. ASSUME NEW j \in Isolates, NEW x \in TickSlots, tick'[x] # None, tick'[x].on = j
        PROVE  News(tick'[x].seen) \subseteq Known(j)
    BY <1>10, <2>2, KnownHas
  <2>3. ASSUME NEW j \in Isolates
        PROVE  Known(j)' \subseteq Known(j) \cup (IF j = i THEN P.newIds ELSE {})
    BY <2>1, <2>2, KnownIn
  <2> QED
    BY <1>2, <2>3
<1>17. ASSUME NEW j \in Isolates, Untorn(j)'
       PROVE  ChannelTurn(channel'[j], Known(j)', On(board)', came')
  <2>1. CASE j = i
    <3>1. ChannelTurn(shared, Known(i) \cup P.newIds, On(board), came)
      BY <1>14, <1>15, <1>17, <2>1
    <3> QED
      BY <1>8, <1>12, <1>16, <2>1, <3>1 DEF ChannelTurn
  <2>2. CASE j # i
    <3>1. Untorn(j) /\ channel'[j] = channel[j]
      BY <1>8, <1>17, <2>2 DEF Untorn
    <3> QED
      BY <1>12, <1>16, <2>2, <3>1 DEF ScreensInv, ChannelTurn
  <2> QED
    BY <2>1, <2>2
<1>18. ASSUME NEW x \in TickSlots, tick'[x] # None, Untorn(tick[x].on)'
       PROVE  TickTurn(tick'[x], channel'[tick'[x].on], Known(tick[x].on)', On(board)', came')
  <2>1. PICK u : u = tick'[x]
    OBVIOUS
  <2>2. PICK j : j = u.on
    OBVIOUS
  <2>3. j \in Isolates /\ tick[x] # None /\ tick[x].on = j /\ u.seen = tick[x].seen
    BY <1>10, <1>18, <2>1, <2>2 DEF Ticking
  <2>4. Untorn(j)' /\ Known(tick[x].on)' = Known(j)'
    BY <1>18, <2>1, <2>2 DEF Untorn, Known
  <2>5. CASE j = i
    <3>1. u.late /\ News(u.seen) \subseteq Known(i)
      BY <1>10, <1>18, <2>1, <2>3, <2>5, KnownHas
    <3>2. News(shared) \cap News(u.seen) = {}
      BY <1>7, <1>14, <1>15, <2>4, <2>5, <3>1
    <3>3. TickTurn(u, shared, Known(j)', On(board)', came')
      BY <3>1, <3>2 DEF TickTurn
    <3> QED
      BY <1>8, <2>1, <2>2, <2>4, <2>5, <3>3
  <2>6. CASE j # i
    <3>1. u = tick[x] /\ channel'[j] = channel[j]
      BY <1>8, <1>10, <1>18, <2>1, <2>3, <2>6
    <3>2. Untorn(j)
      BY <2>4, <3>1 DEF Untorn
    <3>3. TickTurn(u, channel[j], Known(j), On(board), came)
      BY <2>3, <3>1, <3>2 DEF ScreensInv
    <3>4. Known(j)' \subseteq Known(j)
      BY <1>16, <2>3, <2>6
    <3>5. TickTurn(u, channel'[j], Known(j)', On(board)', came')
      BY <1>12, <3>1, <3>3, <3>4 DEF TickTurn
    <3> QED
      BY <2>1, <2>2, <2>4, <3>5
  <2> QED
    BY <2>5, <2>6
<1>19. ASSUME NEW x \in Screens, screen'[x] # None, Untorn(screen[x].on)'
       PROVE  LineTurn(screen'[x], channel'[screen'[x].on], Behind(x)')
  <2>1. PICK c : c = screen[x]
    OBVIOUS
  <2>2. PICK e : e = screen'[x]
    OBVIOUS
  <2>3. PICK j : j = c.on
    OBVIOUS
  <2>4. c # None /\ c \in Line /\ j \in Isolates /\ e.on = j
    BY <1>2, <1>9, <1>19, <2>1, <2>2, <2>3 DEF ScreensType, Line
  <2>5. Untorn(j)'
    BY <1>19, <2>2, <2>4 DEF Untorn
  <2>6. CASE j # i
    <3>1. e = c /\ channel'[j] = channel[j]
      BY <1>8, <1>9, <2>1, <2>2, <2>3, <2>4, <2>6
    <3>2. Untorn(j)
      BY <2>5, <3>1 DEF Untorn
    <3>3. Behind(x)' \subseteq Behind(x)
      <4>1. ASSUME NEW y \in TickSlots, y[1] = x, tick'[y] # None, tick'[y].open
            PROVE  tick'[y] = tick[y]
        <5>1. tick[y] # None /\ tick[y].open
          BY <1>10, <4>1
        <5>2. tick[y].on = j
          BY <2>1, <2>3, <4>1, <5>1 DEF ScreensInv, TicksAtHome
        <5> QED
          BY <1>10, <2>6, <4>1, <5>2
      <4> QED
        BY <4>1, NoLine DEF Behind
    <3>4. LineTurn(c, channel[j], Behind(x))
      BY <2>1, <2>3, <2>4, <3>2 DEF ScreensInv
    <3>5. LineTurn(e, channel'[j], Behind(x)')
      BY <3>1, <3>3, <3>4 DEF LineTurn
    <3> QED
      BY <2>2, <2>4, <3>5
  <2>7. CASE j = i
    <3>1. /\ ~lost /\ P.newIds \cap Known(i) = {} /\ Untorn(i) /\ ~t.late
      BY <1>14, <1>15, <2>5, <2>7
    <3>2. LineTurn(c, channel[i], Behind(x)) /\ c.told \subseteq Known(i)
      BY <2>1, <2>3, <2>4, <2>7, <3>1, KnownHas DEF ScreensInv
    <3>3. News(shared) \cap c.told = {}
      BY <1>7, <3>1, <3>2
    <3>4. CASE e # c
      <4>1. /\ e.lastSig = P /\ e.told = c.told \cup P.newIds
            /\ e.again = (c.again \/ P.newIds \cap c.told # {})
            /\ e.back = (c.back \/ back)
        BY <1>9, <2>1, <2>2, <3>4
      <4>2. Behind(x)' = {}
        <5>1. ASSUME NEW y \in TickSlots, y[1] = x, tick'[y] # None, tick'[y].open
              PROVE  tick'[y].overtaken
          <6>1. tick[y] # None /\ tick[y].open
            BY <1>10, <5>1
          <6>2. tick[y].on = i
            BY <2>1, <2>3, <2>7, <5>1, <6>1 DEF ScreensInv, TicksAtHome
          <6> QED
            BY <1>10, <2>1, <2>2, <3>4, <5>1, <6>1, <6>2
        <5> QED
          BY <5>1, NoLine DEF Behind
      <4>3. ~e.back => ~e.again
        BY <1>7, <3>2, <3>3, <4>1 DEF LineTurn
      <4>4. ToldOrLast(e, shared)
        BY <1>6, <1>7, <4>1 DEF ToldOrLast
      <4>5. LineTurn(e, shared, {})
        BY <4>3, <4>4 DEF LineTurn
      <4> QED
        BY <1>8, <2>2, <2>4, <2>7, <4>2, <4>5
    <3>5. CASE e = c
      <4>1. ASSUME NEW u \in Behind(x)', ~c.back PROVE ToldOrLast(c, u.seen)
        <5>1. PICK y \in TickSlots : /\ y[1] = x /\ tick'[y] = u /\ u.open /\ u.late
                                /\ ~u.overtaken /\ u \in Ticking
          BY DEF Behind
        <5>2. /\ tick[y] # None /\ tick[y].open /\ u.seen = tick[y].seen
          BY <1>10, <5>1, NoLine
        <5>3. tick[y].on = i
          BY <2>1, <2>3, <2>7, <5>1, <5>2 DEF ScreensInv, TicksAtHome
        <5>4. ~tick[y].overtaken /\ tick[y] \in Ticking
          BY <1>2, <1>10, <5>1, <5>2, <5>3, NoLine DEF ScreensType
        <5>5. CASE tick[y].late
          <6>1. tick[y] \in Behind(x)
            BY <5>1, <5>2, <5>4, <5>5 DEF Behind
          <6> QED
            BY <3>2, <4>1, <5>2, <6>1 DEF LineTurn
        <5>6. CASE ~tick[y].late
          <6>1. TickTurn(tick[y], channel[i], Known(i), On(board), came)
            BY <3>1, <5>2, <5>3 DEF ScreensInv
          <6>2. ToldOrLast(c, channel[i])
            BY <3>2, <4>1 DEF LineTurn
          <6> QED
            BY <5>2, <5>6, <6>1, <6>2 DEF TickTurn, ToldOrLast, News
        <5> QED
          BY <5>5, <5>6
      <4>2. LineTurn(c, shared, Behind(x)')
        BY <3>2, <3>3, <4>1 DEF LineTurn, ToldOrLast
      <4> QED
        BY <1>8, <2>2, <2>4, <2>7, <3>5, <4>2
    <3> QED
      BY <3>4, <3>5
  <2> QED
    BY <2>6, <2>7
<1>20. On(board)' \subseteq came'
  BY <1>12 DEF ScreensInv
<1> QED
  BY <1>12, <1>13, <1>17, <1>18, <1>19, <1>20 DEF ScreensInv

LEMMA TickSharesKeeps ==
  ASSUME ScreensInv, NEW k \in TickSlots, TickShares(k)
  PROVE  ScreensInv'
BY SharingKeeps

LEMMA ScreensStutter ==
  ASSUME ScreensInv, UNCHANGED screenVars
  PROVE  ScreensInv'
<1>1. UNCHANGED <<board, came, clock, screen, tick, channel>>
  BY DEF screenVars, boardVars
<1>2. channel' \in [Isolates -> Shared \cup {None}] /\ \A i \in Isolates : Alike(i)
  BY <1>1 DEF ScreensInv, ScreensType, Alike
<1> QED
  BY <1>1, <1>2, ScreensRest

\* What the meter and the polls do leaves the screens alone.
LEMMA ScreensApart ==
  ASSUME ScreensInv,
         \/ QuotaNext /\ UNCHANGED screenVars
         \/ \E p \in Pollers : \/ \E i \in Serving, role \in Roles : PollArrives(p, i, role)
                               \/ PollReads(p) \/ PollAnswers(p) \/ PollFails(p)
         \/ \E i \in Serving : \/ \E j \in 1 .. MAX_ENTRIES : EntryAges(i, j)
                               \/ \E role \in Roles : WriteCommits(i, role)
                               \/ WriteAnswers(i) \/ CronSweeps(i)
         \/ UNCHANGED vars
  PROVE  ScreensInv'
<1>1. UNCHANGED screenVars
  BY DEF PollArrives, PollReads, PollAnswers, PollFails, EntryAges, WriteCommits, WriteAnswers,
         CronSweeps, vars
<1> QED
  BY <1>1, ScreensStutter

LEMMA ScreensStepHolds == MeterInv /\ ScreensInv /\ [Next]_vars => ScreensInv'
<1> SUFFICES ASSUME MeterInv, ScreensInv, [Next]_vars PROVE ScreensInv'
  OBVIOUS
<1>1. Serving \subseteq Isolates
  BY ServingAreIsolates
<1>2. CASE \E o \in Orders : \/ \E at \in {clock, clock + 1} :
                                  OrderComes(o, at) \/ OrderChanges(o, at) \/ OrderLeaves(o, at)
                             \/ OrderIsPaid(o)
  BY <1>2, OrdersKeep
<1>3. CASE \E s \in Screens : Leaves(s) \/ \E i \in Serving : Connects(s, i)
  BY <1>1, <1>3, ConnectsKeeps, LeavesKeeps
<1>4. CASE \E k \in TickSlots : TickArrives(k) \/ TickGoesOn(k) \/ TickFails(k)
  BY <1>4, TickArrivesKeeps, TickProbesKeeps, TickStandsKeeps, TickSharesKeeps, TickFailsKeeps
     DEF TickGoesOn
<1>5. CASE \E i \in Serving : PayloadAges(i) \/ Evict(i)
  BY <1>1, <1>5, PayloadAgesKeeps, EvictsScreens
<1> QED
  BY <1>2, <1>3, <1>4, <1>5, ScreensApart DEF Next

\* However many screens' ticks, of one screen too, probe, build, share and fail, as orders
\* come, change and leave, a screen is told once that an order is new, unless an older
\* board was shared over a later one, or a tick of its own that a later one overtook sent it
\* what it had seen (sse.js:136-149, 309).
THEOREM NewsIsToldOnce == Spec => []NewOnce
<1>1. Init => MeterInv /\ ScreensInv
  BY InitHolds, ScreensInit
<1>2. MeterInv /\ ScreensInv /\ [Next]_vars => (MeterInv /\ ScreensInv)'
  BY StepHolds, ScreensStepHolds
<1>3. ScreensInv => NewOnce
  BY DEF ScreensInv, ScreensType, NewOnce, LineTurn, Untorn
<1> QED
  BY <1>1, <1>2, <1>3, PTL DEF Spec

-----------------------------------------------------------------------------
(***************************************************************************)
(* Bills: the types, and the invariant of its requests and checks.         *)
(*                                                                         *)
(* An order that is not torn has one request at most.  While the request   *)
(* is under way the order may be short of what the properties say of it:   *)
(* its lines are carried and its bill is not reckoned, its row is          *)
(* cancelled and its lines are not struck off, its parts are not all there.*)
(* So each clause says that the order is as it should be, or that a        *)
(* request is about to make it so, and what that request has found out.    *)
(***************************************************************************)
OrderRow == [status : {"absent", "open", "cancelled"}, voided : BOOLEAN,
             paid : {"unpaid", "paid", "split"}, total : Int, extra : Nat,
             parent : Ids \cup {0}, share : Int]
LineRow  == [order : Ids, no : Nat, price : Nat \ {0}, status : {"open", "off"}]
Request  == [op : AllOps \cup {"none"}, pc : Pcs, order : Ids \cup {0},
             target : Ids \cup {0}, line : Nat, price : Nat, extra : Nat,
             delivery : BOOLEAN, no : Nat, total : Int, sum : Nat, seat : Nat]

BillsType ==
  /\ orders \in [Ids -> OrderRow]
  /\ lines \in Seq(LineRow)
  /\ jobs \in [Ids -> Nat]
  /\ req \in [Slots -> Request]
  /\ started \in Nat /\ faults \in Nat
  /\ torn \subseteq Ids /\ flat \subseteq Ids /\ astray \subseteq DOMAIN lines

-----------------------------------------------------------------------------
\* How far a request of each kind gets.
PcsOf(op) == CASE op = "none"   -> {"free"}
               [] op = "create" -> {"insert", "lines", "job", "newjob"}
               [] op = "append" -> {"check", "number", "lines", "sum", "bill"}
               [] op = "split"  -> {"check", "seat", "retire"}
               [] op = "merge"  -> {"check", "target", "carry", "sum", "bill", "close"}
               [] op = "move"   -> {"carry", "sum", "bill", "restSum", "restBill"}
               [] op = "void"   -> {"check", "cancel", "strike"}
               [] OTHER         -> {}

\* A request is about orders that are there; only a new one's is yet to come.
Sane(r) ==
  /\ r.pc \in PcsOf(r.op)
  /\ r.op = "none" => r = FreeSlot
  /\ r.op # "none" => r.order \in Ids
  /\ r.op = "create" => r.order \in Tickets
  /\ r.op # "none" /\ r.pc # "insert" => Taken(r.order)
  /\ r.op \in {"merge", "move"} => r.target \in Ids /\ r.target # r.order /\ Taken(r.target)
  /\ r.op \notin {"merge", "move"} => r.target = 0
  /\ r.op \in {"create", "append"} => r.price > 0
  /\ r.pc = "seat" => r.seat \in 1 .. Seats

\* An id that no order has: nothing refers to it.
Vacant(o) ==
  ~Taken(o) => /\ orders[o] = Absent /\ LinesOn(o) = {} /\ o \notin flat /\ Parts(o) = {}

\* Requests about an order that is not torn: one, or a till that asks again.
Alone(o) == \A i, j \in Slots :
  i # j /\ o \in Touches(req[i]) /\ o \in Touches(req[j]) =>
    req[i].op = "create" /\ req[j].op = "create"

\* One request at most has inserted order o.
Inserted(r) == r.op = "create" /\ r.pc # "insert"
InsertedOnce == \A i, j \in Slots :
  Inserted(req[i]) /\ Inserted(req[j]) /\ req[i].order = req[j].order => i = j

-----------------------------------------------------------------------------
\* What request r has found out about order o, and done to it.
Knows(r, o) ==
  /\ r.op = "create" /\ r.pc = "lines" =>
       /\ LinesOn(o) = {} /\ o \notin flat
       /\ orders[o].extra = r.extra /\ orders[o].total = r.price + r.extra
       /\ orders[o].status = "open"
  /\ r.op = "append" /\ r.pc # "check" => TakesRounds(o)
  /\ r.op \in {"merge", "move"} /\ r.pc \in {"sum", "bill", "restSum", "restBill", "close"} =>
       o \in flat
  /\ r.op = "merge" /\ r.pc \in {"sum", "bill", "close"} /\ o = r.order => LinesOn(o) = {}
  /\ r.pc \in {"bill", "restBill"} /\ o = Reckons(r) => r.sum = Subtotal(o)

SharesOf(o) == SumOver([c \in Ids |-> orders[c].share], Parts(o))

\* Request r is to reckon the bill of o: it has touched its lines.
Reckoning(r, o) ==
  \/ r.op = "append" /\ r.pc \in {"sum", "bill"} /\ o = r.order
  \/ r.op = "merge" /\ r.pc \in {"sum", "bill"} /\ o = r.target
  \/ r.op = "move" /\ r.pc \in {"sum", "bill"} /\ o \in {r.order, r.target}
  \/ r.op = "move" /\ r.pc \in {"restSum", "restBill"} /\ o = r.target

Striking(r, o) == r.op = "void" /\ r.pc = "strike" /\ o = r.order

\* Request r is splitting o: its parts so far are worth the shares they were given.
Splitting(r, o) ==
  /\ r.op = "split" /\ o = r.order /\ orders[o].total = r.total
  /\ \/ r.pc = "seat" /\ SharesOf(o) = (r.seat - 1) * EvenShare(r.total)
                      /\ (r.seat = 1 => Parts(o) = {})
     \/ r.pc = "retire" /\ SharesOf(o) = r.total

Reckoned(o) == \/ Subtotal(o) > 0 =>
                    orders[o].total = Subtotal(o) + (IF o \in flat THEN 0 ELSE orders[o].extra)
               \/ \E i \in Slots : Reckoning(req[i], o)

Fed(o) == \/ orders[o].status = "cancelled" /\ orders[o].paid # "split" =>
               \A n \in LinesOn(o) \ astray : lines[n].status = "off"
          \/ \E i \in Slots : Striking(req[i], o)

Covered(o) ==
  \/ \E i \in Slots : Splitting(req[i], o)
  \/ /\ Parts(o) # {} => orders[o].voided
     /\ Parts(o) # {} /\ o \notin flat => SharesOf(o) = orders[o].total
     /\ \A i \in Slots : req[i].op = "split" /\ req[i].order = o => req[i].pc = "check"

InOrder(o) == Alone(o) /\ (\A i \in Slots : o \in Touches(req[i]) => Knows(req[i], o))
             /\ Reckoned(o) /\ Fed(o) /\ Covered(o)

ChecksInv ==
  /\ BillsType
  /\ \A i \in Slots : Sane(req[i])
  /\ \A o \in Ids : Vacant(o)
  /\ InsertedOnce
  /\ \A o \in Ids \ torn : InOrder(o)

-----------------------------------------------------------------------------
(* What a step leaves alone.                                               *)

\* The step does nothing to order o, its lines, its parts or its marks.
Undisturbed(o) ==
  /\ orders'[o] = orders[o]
  /\ LinesOn(o)' = LinesOn(o) /\ Subtotal(o)' = Subtotal(o)
  /\ \A n \in LinesOn(o) : lines'[n].status = lines[n].status /\ (n \in astray' <=> n \in astray)
  /\ Parts(o)' = Parts(o) /\ SharesOf(o)' = SharesOf(o)
  /\ o \in flat' <=> o \in flat

\* The step is of request i alone, which goes on or is answered.
Handles(i) ==
  /\ req' \in [Slots -> Request]
  /\ \A j \in Slots \ {i} : req'[j] = req[j]
  /\ \/ req'[i] = FreeSlot
     \/ /\ req'[i].op = req[i].op
        /\ req'[i].order = req[i].order /\ req'[i].target = req[i].target

\* What the step must see to for an order o that request i is about.
Sees(i, o) ==
  /\ \A j \in Slots : (o \in Touches(req[j]) => Knows(req[j], o))'
  /\ Reckoned(o)' /\ Fed(o)' /\ Covered(o)'

LEMMA FreeIsSane == FreeSlot \in Request /\ Touches(FreeSlot) = {}
BY IdsAssumption DEF FreeSlot, Request, AllOps, Pcs, Touches

LEMMA FreeIsSaneToo == Sane(FreeSlot)
BY DEF FreeSlot, Sane, PcsOf

LEMMA IdsAreNumbers == Ids \subseteq Nat /\ 0 \notin Ids /\ IsFiniteSet(Ids)
BY IdsAssumption

\* The lines of an order are finitely many, and come to a number.
LEMMA LinesAreFinite ==
  ASSUME BillsType, NEW o
  PROVE  /\ IsFiniteSet(DOMAIN lines) /\ IsFiniteSet(LinesOn(o))
         /\ \A n \in DOMAIN lines : lines[n] \in LineRow
<1>1. DOMAIN lines = 1 .. Len(lines) /\ Len(lines) \in Nat
  BY DEF BillsType
<1>2. IsFiniteSet(DOMAIN lines)
  BY <1>1, FS_Interval
<1>3. IsFiniteSet(LinesOn(o))
  BY <1>2, FS_Subset DEF LinesOn
<1>4. \A n \in DOMAIN lines : lines[n] \in LineRow
  BY DEF BillsType
<1> QED
  BY <1>2, <1>3, <1>4

LEMMA SubtotalIsNat ==
  ASSUME BillsType, NEW o
  PROVE  Subtotal(o) \in Nat
<1> DEFINE S == {n \in LinesOn(o) : lines[n].status # "off"}
           f == [n \in DOMAIN lines |-> lines[n].price]
<1>1. IsFiniteSet(S)
  BY LinesAreFinite, FS_Subset
<1>2. \A n \in S : f[n] \in Nat
  BY LinesAreFinite DEF LinesOn, LineRow
<1>3. SumOver(f, S) \in Nat
  BY <1>1, <1>2, SumNat
<1> QED
  BY <1>3 DEF Subtotal

\* An order without lines comes to nothing.
LEMMA SubtotalOfNothing ==
  ASSUME NEW o, LinesOn(o) = {}
  PROVE  Subtotal(o) = 0
<1>1. {n \in LinesOn(o) : lines[n].status # "off"} = {}
  OBVIOUS
<1> QED
  BY <1>1, SumEmpty DEF Subtotal

\* The parts of an order that was split are finitely many.
LEMMA PartsAreFinite ==
  ASSUME BillsType, NEW o
  PROVE  IsFiniteSet(Parts(o)) /\ Parts(o) \subseteq Ids /\ SharesOf(o) \in Int
<1>1. IsFiniteSet(Parts(o)) /\ Parts(o) \subseteq Ids
  BY IdsAreNumbers, FS_Subset DEF Parts
<1>2. \A c \in Parts(o) : [d \in Ids |-> orders[d].share][c] \in Int
  BY DEF Parts, BillsType, OrderRow
<1>3. SumOver([c \in Ids |-> orders[c].share], Parts(o)) \in Int
  BY <1>1, <1>2, SumType
<1> QED
  BY <1>1, <1>3 DEF SharesOf

\* A set of numbers has a least, and a finite one a greatest.
LEMMA LeastOf ==
  ASSUME NEW S \in SUBSET Nat, S # {}
  PROVE  Min(S) \in S
<1> DEFINE T == {n \in Nat : \A m \in 0 .. n : m \notin S}
<1> SUFFICES ASSUME \A x \in S : \E y \in S : ~(x <= y) PROVE FALSE
  BY DEF Min
<1>1. 0 \in T
  <2>1. ASSUME 0 \in S PROVE FALSE
    <3>1. PICK y \in S : ~(0 <= y)
      BY <2>1
    <3> QED
      BY <3>1
  <2> QED
    BY <2>1
<1>2. ASSUME NEW n \in Nat, n \in T PROVE n + 1 \in T
  <2>1. ASSUME n + 1 \in S PROVE FALSE
    <3>1. PICK y \in S : ~(n + 1 <= y)
      BY <2>1
    <3>2. y \in 0 .. n
      BY <3>1, <1>2
    <3> QED
      BY <3>2, <1>2
  <2>2. \A m \in 0 .. n + 1 : m \in 0 .. n \/ m = n + 1
    BY <1>2
  <2> QED
    BY <2>1, <2>2, <1>2
<1> HIDE DEF T
<1>3. Nat \subseteq T
  BY <1>1, <1>2, NatSetInduction
<1>4. PICK x \in S : TRUE
  OBVIOUS
<1>5. x \in T /\ x \in Nat /\ x \in 0 .. x
  BY <1>3, <1>4
<1> QED
  BY <1>4, <1>5 DEF T

LEMMA GreatestOf ==
  ASSUME NEW S \in SUBSET Nat, IsFiniteSet(S), S # {}
  PROVE  Max(S) \in S
<1> DEFINE G == {T \in SUBSET S : T = {} \/ \E x \in T : \A y \in T : x >= y}
<1>1. {} \in G
  OBVIOUS
<1>2. ASSUME NEW T \in SUBSET S, T # {}, \A x \in T : T \ {x} \in G
      PROVE  T \in G
  <2>1. PICK x \in T : TRUE
    BY <1>2
  <2>2. CASE T \ {x} = {}
    <3>1. \A y \in T : y = x
      BY <2>1, <2>2
    <3> QED
      BY <2>1, <3>1
  <2>3. CASE T \ {x} # {}
    <3>1. PICK z \in T \ {x} : \A y \in T \ {x} : z >= y
      BY <1>2, <2>1, <2>3
    <3>2. x \in Nat /\ z \in Nat /\ T \subseteq Nat
      BY <2>1, <3>1
    <3>3. CASE x >= z
      <4>1. \A y \in T : x >= y
        BY <3>1, <3>2, <3>3
      <4> QED
        BY <4>1, <2>1
    <3>4. CASE ~(x >= z)
      <4>1. \A y \in T : z >= y
        BY <3>1, <3>2, <3>4
      <4> QED
        BY <4>1, <3>1
    <3> QED
      BY <3>3, <3>4
  <2> QED
    BY <2>2, <2>3
<1> HIDE DEF G
<1>3. SUBSET S \subseteq G
  BY <1>1, <1>2, PartsInduction
<1>4. S \in G
  BY <1>3
<1>5. \E x \in S : \A y \in S : x >= y
  BY <1>4 DEF G
<1> QED
  BY <1>5 DEF Max

LEMMA LineOffsetIsNat ==
  ASSUME BillsType, NEW o
  PROVE  LineOffset(o) \in Nat
<1> DEFINE S == {lines[n].no + 1 : n \in LinesOn(o)}
<1>1. IsFiniteSet(LinesOn(o))
  BY LinesAreFinite
<1>2. IsFiniteSet(S)
  <2> DEFINE f == [n \in LinesOn(o) |-> lines[n].no + 1]
  <2>1. f \in Surjection(LinesOn(o), S)
    BY DEF Surjection
  <2> QED
    BY <1>1, <2>1, FS_Surjection
<1>3. IsFiniteSet({0} \cup S)
  BY <1>2, FS_Singleton, FS_Union
<1>4. \A n \in LinesOn(o) : lines[n].no + 1 \in Nat
  <2> TAKE n \in LinesOn(o)
  <2>1. lines[n] \in LineRow
    BY LinesAreFinite DEF LinesOn
  <2>2. lines[n].no \in Nat
    BY <2>1 DEF LineRow
  <2> QED
    BY <2>2
<1>5. {0} \cup S \in SUBSET Nat
  BY <1>4
<1> HIDE DEF S
<1>6. Max({0} \cup S) \in {0} \cup S
  BY <1>3, <1>5, GreatestOf
<1>7. Max({0} \cup S) \in Nat
  BY <1>5, <1>6
<1> QED
  BY <1>7 DEF LineOffset, S

-----------------------------------------------------------------------------
(* What a request's step must see to, and what follows for the rest.       *)

LEMMA KnowsStays ==
  ASSUME NEW o \in Ids, Undisturbed(o), NEW j \in Slots, req'[j] = req[j], Knows(req[j], o)
  PROVE  Knows(req[j], o)'
BY DEF Undisturbed, Knows, TakesRounds, Reckons

LEMMA ReckonedStays ==
  ASSUME NEW o \in Ids, Undisturbed(o), Reckoned(o),
         \A i \in Slots : Reckoning(req[i], o) => Reckoning(req[i], o)'
  PROVE  Reckoned(o)'
BY DEF Undisturbed, Reckoned

LEMMA FedStays ==
  ASSUME NEW o \in Ids, Undisturbed(o), Fed(o),
         \A i \in Slots : Striking(req[i], o) => Striking(req[i], o)'
  PROVE  Fed(o)'
<1>1. CASE \E i \in Slots : Striking(req[i], o)
  BY <1>1 DEF Fed
<1>2. CASE ~\E i \in Slots : Striking(req[i], o)
  <2> SUFFICES ASSUME orders'[o].status = "cancelled", orders'[o].paid # "split",
                      NEW n \in LinesOn(o)' \ astray'
               PROVE  lines'[n].status = "off"
    BY DEF Fed
  <2>1. n \in LinesOn(o) \ astray /\ lines'[n].status = lines[n].status
    BY DEF Undisturbed
  <2> QED
    BY <1>2, <2>1 DEF Fed, Undisturbed
<1> QED
  BY <1>1, <1>2

LEMMA CoveredStays ==
  ASSUME NEW o \in Ids, Undisturbed(o), Covered(o),
         \A i \in Slots : Splitting(req[i], o) => Splitting(req[i], o)',
         \A i \in Slots : req'[i].op = "split" /\ req'[i].order = o =>
           \/ req[i].op = "split" /\ req[i].order = o /\ req[i].pc # "check"
           \/ req'[i].pc = "check" \/ Splitting(req[i], o)'
  PROVE  Covered(o)'
<1>1. CASE \E i \in Slots : Splitting(req[i], o)'
  BY <1>1 DEF Covered
<1>2. CASE ~\E i \in Slots : Splitting(req[i], o)'
  BY <1>2 DEF Covered, Undisturbed
<1> QED
  BY <1>1, <1>2

\* A request that has nothing to do with o reckons, strikes and splits elsewhere.
LEMMA Elsewhere ==
  ASSUME NEW o \in Ids, NEW r, r.op # "none" => r.order \in Ids, o \notin Touches(r)
  PROVE  ~Reckoning(r, o) /\ ~Striking(r, o) /\ ~Splitting(r, o)
         /\ ~(r.op = "split" /\ r.order = o)
BY IdsAreNumbers DEF Touches, Reckoning, Striking, Splitting

LEMMA AloneStays ==
  ASSUME NEW i \in Slots, Handles(i), NEW o \in Ids, Alone(o)
  PROVE  Alone(o)'
<1>1. \A j \in Slots : o \in Touches(req[j])' =>
        o \in Touches(req[j]) /\ req'[j].op = req[j].op
  BY FreeIsSane DEF Handles, Touches
<1> QED
  BY <1>1 DEF Alone

\* An order that is not torn is the request's own, a new one's aside.
LEMMA ItsOwn ==
  ASSUME NEW i \in Slots, NEW o \in Ids, Alone(o), o \in Touches(req[i]),
         req[i].op # "create"
  PROVE  \A j \in Slots \ {i} : o \notin Touches(req[j])
BY DEF Alone

\* What the step of request i leaves alone stays kept.
LEMMA KeptStays ==
  ASSUME NEW i \in Slots, Handles(i), \A j \in Slots : Sane(req[j]),
         NEW o \in Ids, o \notin Touches(req[i]), Undisturbed(o), InOrder(o)
  PROVE  InOrder(o)'
<1>1. Alone(o)'
  BY AloneStays DEF InOrder
<1>2. o \notin Touches(req[i])' /\ Touches(req[i])' = Touches(req'[i])
  BY FreeIsSane DEF Handles, Touches
<1>3. \A j \in Slots : o \in Touches(req[j])' => j # i /\ o \in Touches(req[j])
                                                  /\ req'[j] = req[j]
  BY <1>2 DEF Handles, Touches
<1>4. ASSUME NEW j \in Slots, o \in Touches(req[j])' PROVE Knows(req[j], o)'
  BY <1>3, <1>4, KnowsStays DEF InOrder
<1>5. ASSUME NEW j \in Slots
      PROVE  /\ Reckoning(req[j], o) => Reckoning(req[j], o)'
             /\ Striking(req[j], o) => Striking(req[j], o)'
             /\ Splitting(req[j], o) => Splitting(req[j], o)'
             /\ req'[j].op = "split" /\ req'[j].order = o =>
                  req[j].op = "split" /\ req[j].order = o /\ req'[j] = req[j]
  <2>1. CASE j = i
    <3>1. req[i].op # "none" => req[i].order \in Ids
      BY DEF Sane
    <3>2. ~Reckoning(req[i], o) /\ ~Striking(req[i], o) /\ ~Splitting(req[i], o)
      BY <3>1, Elsewhere
    <3>3. ~(req'[i].op = "split" /\ req'[i].order = o)
      BY <1>2, IdsAreNumbers DEF Touches
    <3> QED
      BY <2>1, <3>2, <3>3
  <2>2. CASE j # i
    <3>1. req'[j] = req[j]
      BY <2>2 DEF Handles
    <3>2. Splitting(req[j], o) => Splitting(req[j], o)'
      BY <3>1 DEF Splitting, Undisturbed
    <3>3. Reckoning(req[j], o) => Reckoning(req[j], o)'
      BY <3>1 DEF Reckoning
    <3>4. Striking(req[j], o) => Striking(req[j], o)'
      BY <3>1 DEF Striking
    <3> QED
      BY <3>1, <3>2, <3>3, <3>4
  <2> QED
    BY <2>1, <2>2
<1>6. Reckoned(o)'
  BY <1>5, ReckonedStays DEF InOrder
<1>7. Fed(o)'
  BY <1>5, FedStays DEF InOrder
<1>8. Covered(o)'
  <2>1. \A j \in Slots : req'[j].op = "split" /\ req'[j].order = o =>
           \/ req[j].op = "split" /\ req[j].order = o /\ req[j].pc # "check"
           \/ req'[j].pc = "check" \/ Splitting(req[j], o)'
    BY <1>5
  <2> QED
    BY <1>5, <2>1, CoveredStays DEF InOrder
<1> QED
  BY <1>1, <1>4, <1>6, <1>7, <1>8 DEF InOrder

\* The requests stay sane, when the one that moves does and no order goes.
LEMMA RequestsStaySane ==
  ASSUME NEW i \in Slots, Handles(i), \A j \in Slots : Sane(req[j]), Sane(req[i])',
         \A o \in Ids : Taken(o) => Taken(o)'
  PROVE  \A j \in Slots : Sane(req[j])'
<1> SUFFICES ASSUME NEW j \in Slots, j # i PROVE Sane(req[j])'
  OBVIOUS
<1>1. req'[j] = req[j] /\ Sane(req[j])
  BY DEF Handles
<1> QED
  BY <1>1 DEF Sane, Taken

LEMMA StaysInsertedOnce ==
  ASSUME NEW i \in Slots, Handles(i), InsertedOnce,
         Inserted(req[i])' => \/ Inserted(req[i])
                              \/ \A j \in Slots \ {i} : ~(/\ Inserted(req[j])
                                                          /\ req[j].order = req[i].order)
  PROVE  InsertedOnce'
<1> SUFFICES ASSUME NEW j \in Slots, NEW k \in Slots, Inserted(req[j])', Inserted(req[k])',
                    req'[j].order = req'[k].order, j # k
             PROVE  FALSE
  BY DEF InsertedOnce
<1>1. \A l \in Slots \ {i} : req'[l] = req[l] /\ (Inserted(req[l])' <=> Inserted(req[l]))
  BY DEF Handles, Inserted
<1>2. Inserted(req[i])' => req'[i].order = req[i].order
  BY DEF Handles, Inserted, FreeSlot
<1> QED
  BY <1>1, <1>2 DEF InsertedOnce

\* The step of request i keeps the invariant when it keeps the types, leaves the
\* orders it is not about alone, and sees to its own.
LEMMA RequestStep ==
  ASSUME ChecksInv, NEW i \in Slots, Handles(i), BillsType', torn \subseteq torn',
         Sane(req[i])', \A o \in Ids : Taken(o) => Taken(o)', \A o \in Ids : Vacant(o)',
         Inserted(req[i])' => \/ Inserted(req[i])
                              \/ \A j \in Slots \ {i} : ~(/\ Inserted(req[j])
                                                          /\ req[j].order = req[i].order),
         \A o \in Ids \ torn' : o \notin Touches(req[i]) => Undisturbed(o) \/ InOrder(o)',
         \A o \in Ids \ torn' : o \in Touches(req[i]) => Sees(i, o)
  PROVE  ChecksInv'
<1>1. \A j \in Slots : Sane(req[j])'
  BY RequestsStaySane DEF ChecksInv
<1>2. InsertedOnce'
  BY StaysInsertedOnce DEF ChecksInv
<1>3. ASSUME NEW o \in Ids \ torn' PROVE InOrder(o)'
  <2>1. InOrder(o)
    BY DEF ChecksInv
  <2>2. CASE o \notin Touches(req[i])
    BY <2>1, <2>2, KeptStays DEF ChecksInv
  <2>3. CASE o \in Touches(req[i])
    <3>1. Alone(o)'
      BY <2>1, AloneStays DEF InOrder
    <3>2. Sees(i, o)
      BY <2>3
    <3> QED
      BY <3>1, <3>2 DEF InOrder, Sees
  <2> QED
    BY <2>2, <2>3
<1> QED
  BY <1>1, <1>2, <1>3 DEF ChecksInv

\* An order whose rows are left alone: what request i has found out, the others keep.
LEMMA SeesWhenUndisturbed ==
  ASSUME ChecksInv, NEW i \in Slots, Handles(i), NEW o \in Ids \ torn, Undisturbed(o),
         (o \in Touches(req[i]))' => Knows(req[i], o)',
         Reckoning(req[i], o) => Reckoning(req[i], o)',
         Striking(req[i], o) => Striking(req[i], o)',
         Splitting(req[i], o) => Splitting(req[i], o)',
         req'[i].op = "split" /\ req'[i].order = o =>
           \/ req[i].op = "split" /\ req[i].order = o /\ req[i].pc # "check"
           \/ req'[i].pc = "check" \/ Splitting(req[i], o)'
  PROVE  Sees(i, o)
<1>1. InOrder(o)
  BY DEF ChecksInv
<1>2. \A j \in Slots \ {i} : req'[j] = req[j]
  BY DEF Handles
<1>3. ASSUME NEW j \in Slots PROVE (o \in Touches(req[j]) => Knows(req[j], o))'
  <2>1. CASE j = i
    BY <2>1
  <2>2. CASE j # i
    BY <1>1, <1>2, <2>2, KnowsStays DEF InOrder
  <2> QED
    BY <2>1, <2>2
<1>4. ASSUME NEW j \in Slots
      PROVE  /\ Reckoning(req[j], o) => Reckoning(req[j], o)'
             /\ Striking(req[j], o) => Striking(req[j], o)'
             /\ Splitting(req[j], o) => Splitting(req[j], o)'
             /\ req'[j].op = "split" /\ req'[j].order = o =>
                  \/ req[j].op = "split" /\ req[j].order = o /\ req[j].pc # "check"
                  \/ req'[j].pc = "check" \/ Splitting(req[j], o)'
  <2>1. CASE j = i
    BY <2>1
  <2>2. CASE j # i
    <3>1. req'[j] = req[j]
      BY <1>2, <2>2
    <3> QED
      BY <3>1 DEF Reckoning, Striking, Splitting, Undisturbed
  <2> QED
    BY <2>1, <2>2
<1>5. Reckoned(o)' /\ Fed(o)' /\ Covered(o)'
  BY <1>1, <1>4, ReckonedStays, FedStays, CoveredStays DEF InOrder
<1> QED
  BY <1>3, <1>5 DEF Sees

-----------------------------------------------------------------------------
(* Steps that write no row: a request reads, goes on, is answered or dies.  *)

LEMMA NothingDisturbed ==
  ASSUME UNCHANGED <<orders, lines, flat, astray>>, NEW o \in Ids
  PROVE  Undisturbed(o) /\ (Vacant(o) => Vacant(o)') /\ (Taken(o)' <=> Taken(o))
<1>1. LinesOn(o)' = LinesOn(o) /\ Parts(o)' = Parts(o)
  BY DEF LinesOn, Parts
<1>2. Subtotal(o)' = Subtotal(o) /\ SharesOf(o)' = SharesOf(o)
  BY DEF Subtotal, SharesOf, LinesOn, Parts
<1> QED
  BY <1>1, <1>2 DEF Undisturbed, Vacant, Taken

LEMMA ReadingStep ==
  ASSUME ChecksInv, NEW i \in Slots, Handles(i), UNCHANGED <<orders, lines, flat, astray>>,
         jobs' \in [Ids -> Nat], started' \in Nat, faults' \in Nat,
         torn \subseteq torn', torn' \subseteq Ids,
         Sane(req[i])', Inserted(req[i])' => Inserted(req[i]),
         \A o \in Ids \ torn' : o \in Touches(req[i]) =>
           /\ (o \in Touches(req[i]))' => Knows(req[i], o)'
           /\ Reckoning(req[i], o) => Reckoning(req[i], o)'
           /\ Striking(req[i], o) => Striking(req[i], o)'
           /\ Splitting(req[i], o) => Splitting(req[i], o)'
           /\ req'[i].op = "split" /\ req'[i].order = o =>
                \/ req[i].op = "split" /\ req[i].order = o /\ req[i].pc # "check"
                \/ req'[i].pc = "check" \/ Splitting(req[i], o)'
  PROVE  ChecksInv'
<1>1. BillsType'
  BY DEF ChecksInv, BillsType, Handles
<1>2. \A o \in Ids : Undisturbed(o) /\ Vacant(o)' /\ (Taken(o) => Taken(o)')
  BY NothingDisturbed DEF ChecksInv
<1>3. \A o \in Ids \ torn' : o \in Touches(req[i]) => Sees(i, o)
  BY <1>2, SeesWhenUndisturbed
<1> QED
  BY <1>1, <1>2, <1>3, RequestStep

LEMMA HandlesTo ==
  ASSUME BillsType, NEW i \in Slots, NEW r \in Request, Goes(i, r),
         r = FreeSlot \/ (r.op = req[i].op /\ r.order = req[i].order /\ r.target = req[i].target)
  PROVE  Handles(i) /\ req'[i] = r
BY DEF BillsType, Goes, Handles

LEMMA EvenShareIsInt == ASSUME NEW t \in Int PROVE EvenShare(t) \in Int
<1>1. Seats \in 2 .. 10
  BY SeatsAssumption
<1>2. 2 * Seats \in Int /\ 2 * Seats > 0 /\ 2 * t + Seats \in Int
  BY <1>1
<1> QED
  BY <1>2 DEF EvenShare

\* A request is answered that owes no order anything.
LEMMA AnswerStep ==
  ASSUME ChecksInv, NEW i \in Slots, Answers(i), UNCHANGED <<orders, lines, flat, astray>>,
         jobs' \in [Ids -> Nat], started' \in Nat, faults' \in Nat,
         torn \subseteq torn', torn' \subseteq Ids,
         \A o \in Ids \ torn' : o \in Touches(req[i]) =>
           ~Reckoning(req[i], o) /\ ~Striking(req[i], o) /\ ~Splitting(req[i], o)
  PROVE  ChecksInv'
<1>1. Handles(i) /\ req'[i] = FreeSlot
  BY HandlesTo, FreeIsSane DEF ChecksInv, Answers
<1>2. Sane(req[i])'
  BY <1>1 DEF Sane, FreeSlot, PcsOf
<1>3. ~Inserted(req[i])' /\ (Touches(req[i]) = {})' /\ req'[i].op # "split"
  BY <1>1, FreeIsSane DEF Inserted, FreeSlot, Touches
<1> QED
  BY <1>1, <1>2, <1>3, ReadingStep

LEMMA TouchesAreIds ==
  ASSUME ChecksInv, NEW i \in Slots
  PROVE  Touches(req[i]) \subseteq Ids
BY DEF ChecksInv, BillsType, Request, Touches

LEMMA DiesStep ==
  ASSUME ChecksInv, NEW i \in Slots, Dies(i)
  PROVE  ChecksInv'
<1>1. /\ Answers(i) /\ UNCHANGED <<orders, lines, flat, astray>>
      /\ jobs' \in [Ids -> Nat] /\ started' \in Nat /\ faults' \in Nat
      /\ torn' = torn \cup Touches(req[i])
  BY DEF Dies, rows, ChecksInv, BillsType
<1>2. torn' \subseteq Ids
  BY <1>1, TouchesAreIds DEF ChecksInv, BillsType
<1> QED
  BY <1>1, <1>2, AnswerStep

\* A request goes on to pc, with nothing else read.
LEMMA NextPcStep ==
  ASSUME ChecksInv, NEW i \in Slots, NEW pc \in Pcs, Steps(i, pc),
         UNCHANGED <<orders, lines, flat, astray>>,
         jobs' \in [Ids -> Nat], started' \in Nat, faults' \in Nat,
         torn \subseteq torn', torn' \subseteq Ids,
         pc \in PcsOf(req[i].op) \ {"seat", "insert"}, req[i].pc # "insert",
         req[i].op \notin {"none", "split"},
         \A o \in Ids \ torn' : o \in Touches(req[i]) =>
           /\ Knows([req[i] EXCEPT !.pc = pc], o)
           /\ ~Reckoning(req[i], o) /\ ~Striking(req[i], o)
  PROVE  ChecksInv'
<1>0. req[i] \in Request
  BY DEF ChecksInv, BillsType
<1> DEFINE r == [req[i] EXCEPT !.pc = pc]
<1>1. r \in Request /\ r.op = req[i].op /\ r.order = req[i].order /\ r.target = req[i].target
      /\ r.price = req[i].price /\ r.extra = req[i].extra /\ r.sum = req[i].sum /\ r.pc = pc
  BY <1>0 DEF Request
<1>2. Goes(i, r)
  BY DEF Steps
<1> HIDE DEF r
<1>3. Handles(i) /\ req'[i] = r
  BY <1>1, <1>2, HandlesTo DEF ChecksInv
<1>4. Sane(req[i])
  BY DEF ChecksInv
<1>5. Sane(req[i])'
  BY <1>0, <1>1, <1>3, <1>4 DEF Sane, Taken, PcsOf
<1>6. Inserted(req[i])' => Inserted(req[i])
  BY <1>1, <1>3 DEF Inserted
<1>7. \A o \in Ids : Undisturbed(o)
  BY NothingDisturbed
<1>8. ASSUME NEW o \in Ids \ torn', o \in Touches(req[i])
      PROVE  /\ Knows(req[i], o)'
             /\ ~Reckoning(req[i], o) /\ ~Striking(req[i], o) /\ ~Splitting(req[i], o)
             /\ req'[i].op # "split"
  <2>1. Knows(r, o)
    BY <1>8 DEF r
  <2>2. Knows(req[i], o)'
    BY <2>1, <1>3, <1>7 DEF Knows, Undisturbed, TakesRounds, Reckons
  <2> QED
    BY <1>1, <1>3, <1>8, <2>2 DEF Splitting
<1> QED
  BY <1>3, <1>5, <1>6, <1>8, ReadingStep

LEMMA LinesFailStep ==
  ASSUME ChecksInv, NEW i \in Slots, LinesFail(i)
  PROVE  ChecksInv'
<1>1. /\ UNCHANGED <<orders, lines, flat, astray>> /\ req[i].pc = "lines"
      /\ jobs' \in [Ids -> Nat] /\ started' \in Nat /\ faults' \in Nat
      /\ torn \in SUBSET Ids
  BY DEF LinesFail, At, rows, ChecksInv, BillsType
<1>2. Sane(req[i]) /\ req[i] \in Request
  BY DEF ChecksInv, BillsType
<1>3. CASE req[i].op = "create"
  <2>1. torn' = torn \cup {req[i].order} /\ Proceeds(i, AfterLines(req[i]))
    BY <1>3 DEF LinesFail
  <2>2. req[i].order \in Ids /\ Touches(req[i]) = {req[i].order}
    BY <1>2, <1>3, IdsAreNumbers DEF Sane, Touches
  <2>3. \A o \in Ids \ torn' : o \notin Touches(req[i])
    BY <2>1, <2>2
  <2>4. torn \subseteq torn' /\ torn' \subseteq Ids
    BY <1>1, <2>1, <2>2
  <2>5. CASE Answers(i)
    BY <1>1, <2>3, <2>4, <2>5, AnswerStep
  <2>6. CASE ~Answers(i)
    <3>1. Steps(i, "job")
      BY <1>3, <2>1, <2>6 DEF Proceeds, AfterLines
    <3>2. "job" \in Pcs /\ "job" \in PcsOf(req[i].op) \ {"seat", "insert"}
      BY <1>3 DEF Pcs, PcsOf
    <3> QED
      BY <1>1, <1>3, <2>3, <2>4, <3>1, <3>2, NextPcStep
  <2> QED
    BY <2>5, <2>6
<1>4. CASE req[i].op # "create"
  <2>1. Answers(i) /\ torn' = torn
    BY <1>4 DEF LinesFail
  <2>2. \A o : ~Reckoning(req[i], o) /\ ~Striking(req[i], o) /\ ~Splitting(req[i], o)
    BY <1>1 DEF Reckoning, Striking, Splitting
  <2> QED
    BY <1>1, <2>1, <2>2, AnswerStep
<1> QED
  BY <1>3, <1>4

LEMMA LooksForJobStep ==
  ASSUME ChecksInv, NEW i \in Slots, LooksForJob(i)
  PROVE  ChecksInv'
<1>1. /\ UNCHANGED <<orders, lines, flat, astray>> /\ req[i].pc = "job" /\ torn' = torn
      /\ jobs' \in [Ids -> Nat] /\ started' \in Nat /\ faults' \in Nat
      /\ torn \in SUBSET Ids /\ Sane(req[i])
  BY DEF LooksForJob, At, rows, history, ChecksInv, BillsType
<1>2. req[i].op = "create"
  BY <1>1 DEF Sane, PcsOf
<1>3. \A o : ~Reckoning(req[i], o) /\ ~Striking(req[i], o) /\ ~Splitting(req[i], o)
  BY <1>1 DEF Reckoning, Striking, Splitting
<1>4. CASE Answers(i)
  BY <1>1, <1>3, <1>4, AnswerStep
<1>5. CASE ~Answers(i)
  <2>1. Steps(i, "newjob")
    BY <1>5 DEF LooksForJob, Proceeds
  <2>2. "newjob" \in Pcs /\ "newjob" \in PcsOf(req[i].op) \ {"seat", "insert"}
    BY <1>2 DEF Pcs, PcsOf
  <2>3. \A o : Knows([req[i] EXCEPT !.pc = "newjob"], o)
    <3>1. req[i] \in Request
      BY DEF ChecksInv, BillsType
    <3> QED
      BY <1>2, <3>1 DEF Knows, Request
  <2> QED
    BY <1>1, <1>2, <1>3, <2>1, <2>2, <2>3, NextPcStep
<1> QED
  BY <1>4, <1>5

LEMMA InsertsJobStep ==
  ASSUME ChecksInv, NEW i \in Slots, InsertsJob(i)
  PROVE  ChecksInv'
<1>0. jobs' \in [Ids -> Nat]
  <2>1. jobs \in [Ids -> Nat]
    BY DEF ChecksInv, BillsType
  <2>2. jobs' = [jobs EXCEPT ![req[i].order] = jobs[req[i].order] + 1]
    BY DEF InsertsJob
  <2>3. \A k \in Ids : jobs[k] \in Nat /\ jobs[k] + 1 \in Nat
    BY <2>1
  <2> QED
    BY <2>1, <2>2, <2>3
<1>1. /\ UNCHANGED <<orders, lines, flat, astray>> /\ req[i].pc = "newjob" /\ torn' = torn
      /\ jobs' \in [Ids -> Nat] /\ started' \in Nat /\ faults' \in Nat
      /\ torn \in SUBSET Ids /\ Answers(i)
  BY <1>0 DEF InsertsJob, At, history, ChecksInv, BillsType
<1>2. \A o : ~Reckoning(req[i], o) /\ ~Striking(req[i], o) /\ ~Splitting(req[i], o)
  BY <1>1 DEF Reckoning, Striking, Splitting
<1> QED
  BY <1>1, <1>2, AnswerStep

LEMMA AppendChecksStep ==
  ASSUME ChecksInv, NEW i \in Slots, AppendChecks(i)
  PROVE  ChecksInv'
<1>1. /\ UNCHANGED <<orders, lines, flat, astray>> /\ req[i].pc = "check" /\ torn' = torn
      /\ req[i].op = "append" /\ jobs' \in [Ids -> Nat] /\ started' \in Nat /\ faults' \in Nat
      /\ torn \in SUBSET Ids /\ Sane(req[i])
  BY DEF AppendChecks, At, rows, history, ChecksInv, BillsType
<1>2. \A o : ~Reckoning(req[i], o) /\ ~Striking(req[i], o) /\ ~Splitting(req[i], o)
  BY <1>1 DEF Reckoning, Striking, Splitting
<1>3. CASE ~TakesRounds(req[i].order)
  <2>1. Answers(i)
    BY <1>3 DEF AppendChecks, Proceeds
  <2> QED
    BY <1>1, <1>2, <2>1, AnswerStep
<1>4. CASE TakesRounds(req[i].order)
  <2>1. Steps(i, "number")
    BY <1>4 DEF AppendChecks, Proceeds
  <2>2. "number" \in Pcs /\ "number" \in PcsOf(req[i].op) \ {"seat", "insert"}
    BY <1>1 DEF Pcs, PcsOf
  <2>3. \A o \in Touches(req[i]) : Knows([req[i] EXCEPT !.pc = "number"], o)
    <3>1. req[i] \in Request /\ req[i].target = 0
      BY <1>1 DEF ChecksInv, BillsType, Sane
    <3>2. \A o \in Touches(req[i]) : o = req[i].order
      BY <3>1 DEF Touches
    <3> QED
      BY <1>1, <1>4, <3>1, <3>2 DEF Knows, Request
  <2> QED
    BY <1>1, <1>2, <2>1, <2>2, <2>3, NextPcStep
<1> QED
  BY <1>3, <1>4

LEMMA VoidChecksStep ==
  ASSUME ChecksInv, NEW i \in Slots, VoidChecks(i)
  PROVE  ChecksInv'
<1>1. /\ UNCHANGED <<orders, lines, flat, astray>> /\ req[i].pc = "check" /\ torn' = torn
      /\ req[i].op = "void" /\ jobs' \in [Ids -> Nat] /\ started' \in Nat /\ faults' \in Nat
      /\ torn \in SUBSET Ids
  BY DEF VoidChecks, At, rows, history, ChecksInv, BillsType
<1>2. \A o : ~Reckoning(req[i], o) /\ ~Striking(req[i], o) /\ ~Splitting(req[i], o)
  BY <1>1 DEF Reckoning, Striking, Splitting
<1>3. CASE orders[req[i].order].voided
  <2>1. Answers(i)
    BY <1>3 DEF VoidChecks, Proceeds
  <2> QED
    BY <1>1, <1>2, <2>1, AnswerStep
<1>4. CASE ~orders[req[i].order].voided
  <2>1. Steps(i, "cancel")
    BY <1>4 DEF VoidChecks, Proceeds
  <2>2. "cancel" \in Pcs /\ "cancel" \in PcsOf(req[i].op) \ {"seat", "insert"}
    BY <1>1 DEF Pcs, PcsOf
  <2>3. \A o : Knows([req[i] EXCEPT !.pc = "cancel"], o)
    <3>1. req[i] \in Request
      BY DEF ChecksInv, BillsType
    <3> QED
      BY <1>1, <3>1 DEF Knows, Request
  <2> QED
    BY <1>1, <1>2, <2>1, <2>2, <2>3, NextPcStep
<1> QED
  BY <1>3, <1>4

\* A request goes on with what it has read: r.
LEMMA ReadsStep ==
  ASSUME ChecksInv, NEW i \in Slots, NEW r \in Request, Goes(i, r),
         UNCHANGED <<orders, lines, flat, astray, jobs, started, torn, faults>>,
         r.op = req[i].op, r.order = req[i].order, r.target = req[i].target,
         r.price = req[i].price, req[i].pc # "insert", Sane(r),
         \A o \in Ids \ torn : o \in Touches(req[i]) =>
           /\ Knows(r, o)
           /\ Reckoning(req[i], o) => Reckoning(r, o)
           /\ ~Striking(req[i], o) /\ ~Splitting(req[i], o)
           /\ r.op = "split" => Splitting(r, o)
  PROVE  ChecksInv'
<1>1. Handles(i) /\ req'[i] = r
  BY HandlesTo DEF ChecksInv
<1>2. Sane(req[i])'
  BY <1>1 DEF Sane, Taken
<1>3. Inserted(req[i])' => Inserted(req[i])
  BY <1>1 DEF Inserted
<1>4. \A o \in Ids : Undisturbed(o)
  BY NothingDisturbed
<1>5. ASSUME NEW o \in Ids \ torn', o \in Touches(req[i])
      PROVE  /\ Knows(req[i], o)'
             /\ Reckoning(req[i], o) => Reckoning(req[i], o)'
             /\ ~Striking(req[i], o) /\ ~Splitting(req[i], o)
             /\ req'[i].op = "split" => Splitting(req[i], o)'
  <2>1. Knows(req[i], o)'
    BY <1>1, <1>4, <1>5 DEF Knows, Undisturbed, TakesRounds, Reckons
  <2>2. Reckoning(req[i], o) => Reckoning(req[i], o)'
    BY <1>1, <1>5 DEF Reckoning
  <2>3. req'[i].op = "split" => Splitting(req[i], o)'
    BY <1>1, <1>4, <1>5 DEF Splitting, Undisturbed
  <2> QED
    BY <1>5, <2>1, <2>2, <2>3
<1>6. /\ jobs' \in [Ids -> Nat] /\ started' \in Nat /\ faults' \in Nat /\ torn' = torn
      /\ torn' \subseteq Ids
  BY DEF ChecksInv, BillsType
<1> QED
  BY <1>1, <1>2, <1>3, <1>5, <1>6, ReadingStep

LEMMA AppendNumbersStep ==
  ASSUME ChecksInv, NEW i \in Slots, AppendNumbers(i)
  PROVE  ChecksInv'
<1> DEFINE n == LineOffset(req[i].order)
           r == [req[i] EXCEPT !.pc = "lines", !.no = n]
<1>1. /\ UNCHANGED <<orders, lines, flat, astray, jobs, started, torn, faults>>
      /\ Goes(i, r) /\ req[i].pc = "number"
  BY DEF AppendNumbers, At, rows, history
<1>2. n \in Nat /\ req[i] \in Request /\ Sane(req[i])
  BY LineOffsetIsNat DEF ChecksInv, BillsType
<1> HIDE DEF n
<1>3. r \in Request
  BY <1>2 DEF Request, Pcs
<1>4. req[i].op = "append"
  BY <1>1, <1>2 DEF Sane, PcsOf
<1>5. /\ r.op = "append" /\ r.pc = "lines" /\ r.order = req[i].order /\ r.target = req[i].target
      /\ r.price = req[i].price
  BY <1>2, <1>4 DEF Request
<1> HIDE DEF r
<1>6. Sane(r)
  BY <1>1, <1>2, <1>4, <1>5 DEF Sane, PcsOf
<1>7. ASSUME NEW o \in Ids \ torn, o \in Touches(req[i])
      PROVE  Knows(r, o) /\ ~Reckoning(req[i], o) /\ ~Striking(req[i], o)
             /\ ~Splitting(req[i], o) /\ r.op # "split"
  <2>1. Knows(req[i], o)
    BY <1>7 DEF ChecksInv, InOrder
  <2> QED
    BY <1>1, <1>4, <1>5, <2>1 DEF Knows, Reckoning, Striking, Splitting
<1> QED
  BY <1>1, <1>3, <1>4, <1>5, <1>6, <1>7, ReadsStep

LEMMA ReadsLinesStep ==
  ASSUME ChecksInv, NEW i \in Slots, ReadsLines(i)
  PROVE  ChecksInv'
<1> DEFINE s  == Subtotal(Reckons(req[i]))
           pc == IF req[i].pc = "sum" THEN "bill" ELSE "restBill"
           r  == [req[i] EXCEPT !.pc = pc, !.sum = s]
<1>1. /\ UNCHANGED <<orders, lines, flat, astray, jobs, started, torn, faults>>
      /\ Goes(i, r) /\ req[i].pc \in {"sum", "restSum"}
  BY DEF ReadsLines, At, rows, history
<1>2. s \in Nat /\ req[i] \in Request /\ Sane(req[i])
  BY SubtotalIsNat DEF ChecksInv, BillsType
<1>3. \A o : o = Reckons(req[i]) => s = Subtotal(o)
  OBVIOUS
<1> HIDE DEF s
<1>4. r \in Request
  BY <1>2 DEF Request, Pcs
<1>5. req[i].op \in {"append", "merge", "move"} /\ (req[i].pc = "restSum" => req[i].op = "move")
  BY <1>1, <1>2 DEF Sane, PcsOf
<1>6. /\ r.op = req[i].op /\ r.order = req[i].order /\ r.target = req[i].target
      /\ r.price = req[i].price /\ r.pc = pc /\ r.sum = s
  BY <1>2 DEF Request
<1> HIDE DEF r
<1>7. Sane(r)
  BY <1>1, <1>2, <1>5, <1>6 DEF Sane, PcsOf
<1>8. ASSUME NEW o \in Ids \ torn, o \in Touches(req[i])
      PROVE  /\ Knows(r, o) /\ (Reckoning(req[i], o) => Reckoning(r, o))
             /\ ~Striking(req[i], o) /\ ~Splitting(req[i], o) /\ r.op # "split"
  <2>1. Knows(req[i], o)
    BY <1>8 DEF ChecksInv, InOrder
  <2>2. Reckons(r) = Reckons(req[i])
    BY <1>1, <1>5, <1>6 DEF Reckons
  <2>3. Knows(r, o)
    BY <1>1, <1>3, <1>5, <1>6, <2>1, <2>2 DEF Knows
  <2>4. Reckoning(req[i], o) => Reckoning(r, o)
    BY <1>1, <1>5, <1>6 DEF Reckoning
  <2> QED
    BY <1>1, <1>5, <1>6, <2>3, <2>4 DEF Striking, Splitting
<1> QED
  BY <1>1, <1>4, <1>6, <1>7, <1>8, ReadsStep

\* A check that is not torn, nor voided, has no parts yet when a split begins.
LEMMA NoPartsYet ==
  ASSUME ChecksInv, NEW i \in Slots, req[i].op = "split", req[i].pc = "check",
         NEW o \in Ids \ torn, o \in Touches(req[i]), ~orders[o].voided
  PROVE  Parts(o) = {}
<1>1. InOrder(o) /\ Alone(o) /\ Covered(o)
  BY DEF ChecksInv, InOrder
<1>2. \A j \in Slots \ {i} : o \notin Touches(req[j])
  BY <1>1, ItsOwn
<1>3. ASSUME NEW j \in Slots PROVE ~Splitting(req[j], o)
  <2>1. CASE j = i
    BY <2>1 DEF Splitting
  <2>2. CASE j # i
    <3>1. req[j].op # "none" => req[j].order \in Ids
      BY DEF ChecksInv, Sane
    <3> QED
      BY <1>2, <2>2, <3>1, Elsewhere
  <2> QED
    BY <2>1, <2>2
<1> QED
  BY <1>1, <1>3 DEF Covered

LEMMA SharesOfNothing ==
  ASSUME NEW o, Parts(o) = {}
  PROVE  SharesOf(o) = 0
BY SumEmpty DEF SharesOf

LEMMA SplitChecksStep ==
  ASSUME ChecksInv, NEW i \in Slots, SplitChecks(i)
  PROVE  ChecksInv'
<1> DEFINE o == req[i].order
<1>1. /\ UNCHANGED <<orders, lines, flat, astray, jobs, started, torn, faults>>
      /\ req[i].op = "split" /\ req[i].pc = "check"
  BY DEF SplitChecks, At, rows, history
<1>2. req[i] \in Request /\ Sane(req[i])
  BY DEF ChecksInv, BillsType
<1>3. o \in Ids /\ Touches(req[i]) = {o} /\ orders[o].total \in Int
  BY <1>1, <1>2, IdsAreNumbers DEF Sane, Touches, ChecksInv, BillsType, OrderRow
<1>4. \A u : ~Reckoning(req[i], u) /\ ~Striking(req[i], u) /\ ~Splitting(req[i], u)
  BY <1>1 DEF Reckoning, Striking, Splitting
<1>5. CASE ~Splittable(o)
  <2>1. Answers(i)
    BY <1>5 DEF SplitChecks
  <2>2. /\ jobs' \in [Ids -> Nat] /\ started' \in Nat /\ faults' \in Nat
        /\ torn \subseteq torn' /\ torn' \subseteq Ids
    BY <1>1 DEF ChecksInv, BillsType
  <2> QED
    BY <1>1, <1>4, <2>1, <2>2, AnswerStep
<1>6. CASE Splittable(o)
  <2> DEFINE t == orders[o].total
             r == [req[i] EXCEPT !.pc = "seat", !.total = t, !.seat = 1]
  <2>1. Goes(i, r)
    BY <1>6 DEF SplitChecks
  <2>2. r \in Request
    BY <1>2, <1>3 DEF Request, Pcs
  <2>3. /\ r.op = "split" /\ r.pc = "seat" /\ r.order = o /\ r.target = req[i].target
        /\ r.price = req[i].price /\ r.total = t /\ r.seat = 1
    BY <1>1, <1>2 DEF Request
  <2>4. Sane(r)
    BY <1>1, <1>2, <1>3, <2>3, SeatsAssumption DEF Sane, PcsOf
  <2>5. ASSUME NEW u \in Ids \ torn, u \in Touches(req[i])
        PROVE  Knows(r, u) /\ Splitting(r, u)
    <3>1. u = o /\ ~orders[o].voided
      BY <1>3, <1>6, <2>5 DEF Splittable
    <3>2. Parts(u) = {} /\ SharesOf(u) = 0
      BY <1>1, <2>5, <3>1, NoPartsYet, SharesOfNothing
    <3>3. EvenShare(t) \in Int
      BY <1>3, EvenShareIsInt
    <3>4. (1 - 1) * EvenShare(t) = 0
      BY <3>3
    <3>5. Splitting(r, u)
      BY <2>3, <3>1, <3>2, <3>4 DEF Splitting
    <3> QED
      BY <2>3, <3>5 DEF Knows
  <2> QED
    BY <1>1, <1>4, <2>1, <2>2, <2>3, <2>4, <2>5, ReadsStep
<1> QED
  BY <1>5, <1>6

LEMMA MergeReadsSourceStep ==
  ASSUME ChecksInv, NEW i \in Slots, MergeReadsSource(i)
  PROVE  ChecksInv'
<1> DEFINE t == orders[req[i].order].total
           r == [req[i] EXCEPT !.pc = "target", !.total = t]
<1>1. /\ UNCHANGED <<orders, lines, flat, astray, jobs, started, torn, faults>>
      /\ Goes(i, r) /\ req[i].pc = "check" /\ req[i].op = "merge"
  BY DEF MergeReadsSource, At, rows, history
<1>2. req[i] \in Request /\ Sane(req[i])
  BY DEF ChecksInv, BillsType
<1>3. t \in Int
  BY <1>1, <1>2 DEF Sane, ChecksInv, BillsType, OrderRow
<1> HIDE DEF t
<1>4. /\ r \in Request /\ r.op = "merge" /\ r.pc = "target" /\ r.order = req[i].order
      /\ r.target = req[i].target /\ r.price = req[i].price
  BY <1>1, <1>2, <1>3 DEF Request, Pcs
<1> HIDE DEF r
<1>5. Sane(r)
  BY <1>1, <1>2, <1>4 DEF Sane, PcsOf
<1>6. \A o : /\ Knows(r, o) /\ ~Reckoning(req[i], o) /\ ~Striking(req[i], o)
             /\ ~Splitting(req[i], o)
  BY <1>1, <1>4 DEF Knows, Reckoning, Striking, Splitting
<1> QED
  BY <1>1, <1>4, <1>5, <1>6, ReadsStep

LEMMA MergeReadsTargetStep ==
  ASSUME ChecksInv, NEW i \in Slots, MergeReadsTarget(i)
  PROVE  ChecksInv'
<1> DEFINE t == req[i].total + orders[req[i].target].total
           r == [req[i] EXCEPT !.pc = "carry", !.total = t]
<1>1. /\ UNCHANGED <<orders, lines, flat, astray, jobs, started, torn, faults>>
      /\ Goes(i, r) /\ req[i].pc = "target"
  BY DEF MergeReadsTarget, At, rows, history, Goes
<1>2. req[i] \in Request /\ Sane(req[i])
  BY DEF ChecksInv, BillsType
<1>3. req[i].op = "merge"
  BY <1>1, <1>2 DEF Sane, PcsOf
<1>4. t \in Int
  <2>1. req[i].total \in Int
    BY <1>2 DEF Request
  <2>2. orders[req[i].target].total \in Int
    BY <1>2, <1>3 DEF Sane, ChecksInv, BillsType, OrderRow
  <2> QED
    BY <2>1, <2>2
<1> HIDE DEF t
<1>5. /\ r \in Request /\ r.op = "merge" /\ r.pc = "carry" /\ r.order = req[i].order
      /\ r.target = req[i].target /\ r.price = req[i].price
  BY <1>2, <1>3, <1>4 DEF Request, Pcs
<1> HIDE DEF r
<1>6. Sane(r)
  BY <1>1, <1>2, <1>3, <1>5 DEF Sane, PcsOf
<1>7. \A o : /\ Knows(r, o) /\ ~Reckoning(req[i], o) /\ ~Striking(req[i], o)
             /\ ~Splitting(req[i], o)
  BY <1>1, <1>5 DEF Knows, Reckoning, Striking, Splitting
<1> QED
  BY <1>1, <1>3, <1>5, <1>6, <1>7, ReadsStep

-----------------------------------------------------------------------------
(* Requests that come.                                                     *)

\* How a request that has only come looks.
Comes(r) ==
  /\ r \in Request /\ Sane(r) /\ r.op \in AllOps
  /\ r.pc \in {"insert", "check", "carry"}

LEMMA ArriveStep ==
  ASSUME ChecksInv, NEW i \in Slots, NEW r, Comes(r), Arrives(i, r)
  PROVE  ChecksInv'
<1>1. /\ UNCHANGED <<orders, lines, flat, astray, jobs, faults>>
      /\ req[i].pc = "free" /\ started' = started + 1
      /\ torn' = IF SameTicket(i, r) THEN torn ELSE torn \cup Met(i, r)
  BY DEF Arrives, At, rows
<1>2. req' = [req EXCEPT ![i] = r] /\ req \in [Slots -> Request]
  BY DEF Arrives, Goes, ChecksInv, BillsType
<1>3. req'[i] = r /\ (\A j \in Slots \ {i} : req'[j] = req[j]) /\ req' \in [Slots -> Request]
  BY <1>2 DEF Comes
<1>4. Touches(r) \subseteq Ids /\ torn \subseteq torn'
  BY <1>1 DEF Comes, Request, Touches
<1>5. BillsType'
  <2>1. Met(i, r) \subseteq Ids
    BY <1>4 DEF Met
  <2>2. torn' \subseteq Ids /\ started' \in Nat
    BY <1>1, <2>1 DEF ChecksInv, BillsType
  <2> QED
    BY <1>1, <1>3, <2>2 DEF ChecksInv, BillsType
<1>6. \A o \in Ids : Undisturbed(o) /\ Vacant(o)' /\ (Taken(o) <=> Taken(o)')
  BY <1>1, NothingDisturbed DEF ChecksInv
<1>7. ASSUME NEW j \in Slots PROVE Sane(req[j])'
  <2>1. CASE j = i
    BY <1>1, <1>3, <2>1 DEF Comes, Sane, Taken
  <2>2. CASE j # i
    <3>1. Sane(req[j]) /\ req'[j] = req[j]
      BY <1>3, <2>2 DEF ChecksInv
    <3> QED
      BY <1>1, <3>1 DEF Sane, Taken
  <2> QED
    BY <2>1, <2>2
<1>8. InsertedOnce'
  <2>1. ~Inserted(req[i])'
    BY <1>3 DEF Comes, Sane, PcsOf, Inserted
  <2>2. \A j \in Slots \ {i} : (Inserted(req[j])' <=> Inserted(req[j])) /\ req'[j] = req[j]
    BY <1>3 DEF Inserted
  <2> QED
    BY <2>1, <2>2 DEF ChecksInv, InsertedOnce
<1>9. ASSUME NEW o \in Ids \ torn' PROVE InOrder(o)'
  <2>1. InOrder(o) /\ Undisturbed(o)
    BY <1>4, <1>6 DEF ChecksInv
  <2>2. req[i].op = "none" /\ Sane(req[i])
    BY <1>1 DEF ChecksInv, Sane, PcsOf
  <2>3. \A j \in Slots \ {i} : o \in Touches(r) /\ o \in Touches(req[j]) =>
          r.op = "create" /\ req[j].op = "create"
    <3> SUFFICES ASSUME NEW j \in Slots \ {i}, o \in Touches(r), o \in Touches(req[j])
                 PROVE  r.op = "create" /\ req[j].op = "create"
      OBVIOUS
    <3>1. o \in Met(i, r)
      BY DEF Met
    <3>2. SameTicket(i, r)
      BY <1>1, <3>1
    <3>3. r.op = "create" /\ r.target = 0
      BY <3>2 DEF SameTicket, Comes, Sane
    <3>4. o = r.order
      BY <3>3 DEF Touches
    <3> QED
      BY <3>2, <3>4 DEF SameTicket
  <2>4. Alone(o)'
    <3> SUFFICES ASSUME NEW j \in Slots, NEW k \in Slots, j # k,
                        o \in Touches(req'[j]), o \in Touches(req'[k])
                 PROVE  req'[j].op = "create" /\ req'[k].op = "create"
      BY DEF Alone, Touches
    <3>1. CASE j = i
      BY <1>3, <2>3, <3>1
    <3>2. CASE k = i
      BY <1>3, <2>3, <3>2
    <3>3. CASE j # i /\ k # i
      BY <1>3, <2>1, <3>3 DEF InOrder, Alone
    <3> QED
      BY <3>1, <3>2, <3>3
  <2>5. ASSUME NEW j \in Slots, (o \in Touches(req[j]))' PROVE Knows(req[j], o)'
    <3>1. CASE j = i
      BY <1>3, <3>1 DEF Comes, Sane, PcsOf, Knows
    <3>2. CASE j # i
      <4>1. req'[j] = req[j] /\ o \in Touches(req[j])
        BY <1>3, <2>5, <3>2 DEF Touches
      <4> QED
        BY <2>1, <4>1, KnowsStays DEF InOrder
    <3> QED
      BY <3>1, <3>2
  <2>6. ASSUME NEW j \in Slots
        PROVE  /\ Reckoning(req[j], o) => Reckoning(req[j], o)'
               /\ Striking(req[j], o) => Striking(req[j], o)'
               /\ Splitting(req[j], o) => Splitting(req[j], o)'
               /\ req'[j].op = "split" /\ req'[j].order = o =>
                    \/ req[j].op = "split" /\ req[j].order = o /\ req[j].pc # "check"
                    \/ req'[j].pc = "check" \/ Splitting(req[j], o)'
    <3>1. CASE j = i
      BY <1>3, <2>2, <3>1 DEF Comes, Sane, PcsOf, Reckoning, Striking, Splitting
    <3>2. CASE j # i
      <4>1. req'[j] = req[j]
        BY <1>3, <3>2
      <4> QED
        BY <2>1, <4>1 DEF Reckoning, Striking, Splitting, Undisturbed
    <3> QED
      BY <3>1, <3>2
  <2>7. Reckoned(o)' /\ Fed(o)' /\ Covered(o)'
    BY <2>1, <2>6, ReckonedStays, FedStays, CoveredStays DEF InOrder
  <2> QED
    BY <2>4, <2>5, <2>7 DEF InOrder
<1> QED
  BY <1>5, <1>6, <1>7, <1>8, <1>9 DEF ChecksInv

LEMMA ArrivalsStep ==
  ASSUME ChecksInv, NEW i \in Slots, Arrivals(i)
  PROVE  ChecksInv'
<1>0. FreeSlot \in Request /\ Present \subseteq Ids /\ \A o \in Present : Taken(o)
  BY FreeIsSane DEF Present, Taken
<1>1. CASE CreateArrives(i)
  <2>1. PICK o \in Tickets, p \in Prices, e \in Extras, d \in BOOLEAN :
          Arrives(i, [FreeSlot EXCEPT !.op = "create", !.pc = "insert", !.order = o,
                                      !.price = p, !.extra = e, !.delivery = d])
    BY <1>1 DEF CreateArrives
  <2> DEFINE r == [FreeSlot EXCEPT !.op = "create", !.pc = "insert", !.order = o,
                                   !.price = p, !.extra = e, !.delivery = d]
  <2>2. o \in Ids /\ p \in Nat \ {0} /\ e \in Nat
    BY TicketsAssumption, MoneyAssumption
  <2>3. r \in Request
    BY <1>0, <2>2 DEF Request, Pcs, AllOps
  <2>4. r.op = "create" /\ r.pc = "insert" /\ r.order = o /\ r.price = p /\ r.target = 0
    BY DEF FreeSlot
  <2>5. Comes(r)
    BY <2>2, <2>3, <2>4 DEF Comes, Sane, PcsOf, AllOps
  <2> QED
    BY <2>1, <2>5, ArriveStep
<1>2. CASE AppendArrives(i)
  <2>1. PICK o \in Present, p \in Prices :
          Arrives(i, [FreeSlot EXCEPT !.op = "append", !.pc = "check", !.order = o,
                                      !.price = p])
    BY <1>2 DEF AppendArrives
  <2> DEFINE r == [FreeSlot EXCEPT !.op = "append", !.pc = "check", !.order = o, !.price = p]
  <2>2. o \in Ids /\ Taken(o) /\ p \in Nat \ {0}
    BY <1>0, MoneyAssumption
  <2>3. r \in Request
    BY <1>0, <2>2 DEF Request, Pcs, AllOps
  <2>4. r.op = "append" /\ r.pc = "check" /\ r.order = o /\ r.price = p /\ r.target = 0
    BY DEF FreeSlot
  <2>5. Comes(r)
    BY <2>2, <2>3, <2>4 DEF Comes, Sane, PcsOf, AllOps
  <2> QED
    BY <2>1, <2>5, ArriveStep
<1>3. CASE SplitArrives(i)
  <2>1. PICK o \in Present :
          Arrives(i, [FreeSlot EXCEPT !.op = "split", !.pc = "check", !.order = o])
    BY <1>3 DEF SplitArrives
  <2> DEFINE r == [FreeSlot EXCEPT !.op = "split", !.pc = "check", !.order = o]
  <2>2. o \in Ids /\ Taken(o)
    BY <1>0
  <2>3. r \in Request
    BY <1>0, <2>2 DEF Request, Pcs, AllOps
  <2>4. r.op = "split" /\ r.pc = "check" /\ r.order = o /\ r.target = 0
    BY DEF FreeSlot
  <2>5. Comes(r)
    BY <2>2, <2>3, <2>4 DEF Comes, Sane, PcsOf, AllOps
  <2> QED
    BY <2>1, <2>5, ArriveStep
<1>4. CASE MergeArrives(i)
  <2>1. PICK o \in Present, t \in Present :
          o # t /\ Arrives(i, [FreeSlot EXCEPT !.op = "merge", !.pc = "check", !.order = o,
                                               !.target = t])
    BY <1>4 DEF MergeArrives
  <2> DEFINE r == [FreeSlot EXCEPT !.op = "merge", !.pc = "check", !.order = o, !.target = t]
  <2>2. o \in Ids /\ Taken(o) /\ t \in Ids /\ Taken(t)
    BY <1>0
  <2>3. r \in Request
    BY <1>0, <2>2 DEF Request, Pcs, AllOps
  <2>4. r.op = "merge" /\ r.pc = "check" /\ r.order = o /\ r.target = t
    BY DEF FreeSlot
  <2>5. Comes(r)
    BY <2>1, <2>2, <2>3, <2>4 DEF Comes, Sane, PcsOf, AllOps
  <2> QED
    BY <2>1, <2>5, ArriveStep
<1>5. CASE MoveArrives(i)
  <2>1. PICK n \in DOMAIN lines, t \in Present :
          /\ t # lines[n].order
          /\ Arrives(i, [FreeSlot EXCEPT !.op = "move", !.pc = "carry", !.line = n,
                                         !.order = lines[n].order, !.target = t])
    BY <1>5 DEF MoveArrives
  <2> DEFINE r == [FreeSlot EXCEPT !.op = "move", !.pc = "carry", !.line = n,
                                   !.order = lines[n].order, !.target = t]
  <2>2. n \in Nat /\ lines[n].order \in Ids /\ t \in Ids /\ Taken(t)
    <3>1. lines[n].order \in Ids
      BY LinesAreFinite DEF ChecksInv, LineRow
    <3>2. n \in Nat
      BY DEF ChecksInv, BillsType
    <3> QED
      BY <1>0, <3>1, <3>2
  <2>3. Taken(lines[n].order)
    BY <2>2 DEF ChecksInv, Vacant, LinesOn
  <2>4. r \in Request
    BY <1>0, <2>2 DEF Request, Pcs, AllOps
  <2>5. r.op = "move" /\ r.pc = "carry" /\ r.order = lines[n].order /\ r.target = t
    BY DEF FreeSlot
  <2>6. Comes(r)
    BY <2>1, <2>2, <2>3, <2>4, <2>5 DEF Comes, Sane, PcsOf, AllOps
  <2> QED
    BY <2>1, <2>6, ArriveStep
<1>6. CASE VoidArrives(i)
  <2>1. PICK o \in Present :
          Arrives(i, [FreeSlot EXCEPT !.op = "void", !.pc = "check", !.order = o])
    BY <1>6 DEF VoidArrives
  <2> DEFINE r == [FreeSlot EXCEPT !.op = "void", !.pc = "check", !.order = o]
  <2>2. o \in Ids /\ Taken(o)
    BY <1>0
  <2>3. r \in Request
    BY <1>0, <2>2 DEF Request, Pcs, AllOps
  <2>4. r.op = "void" /\ r.pc = "check" /\ r.order = o /\ r.target = 0
    BY DEF FreeSlot
  <2>5. Comes(r)
    BY <2>2, <2>3, <2>4 DEF Comes, Sane, PcsOf, AllOps
  <2> QED
    BY <2>1, <2>5, ArriveStep
<1> QED
  BY <1>1, <1>2, <1>3, <1>4, <1>5, <1>6 DEF Arrivals

-----------------------------------------------------------------------------
(* Steps that write the row of one order.                                  *)

\* Nobody else is about an order that is not torn.
LEMMA NobodyElse ==
  ASSUME ChecksInv, NEW i \in Slots, req[i].op # "create",
         NEW o \in Ids \ torn, o \in Touches(req[i]), NEW j \in Slots \ {i}
  PROVE  /\ o \notin Touches(req[j])
         /\ ~Reckoning(req[j], o) /\ ~Striking(req[j], o) /\ ~Splitting(req[j], o)
         /\ ~(req[j].op = "split" /\ req[j].order = o)
<1>1. Alone(o)
  BY DEF ChecksInv, InOrder
<1>2. o \notin Touches(req[j])
  BY <1>1, ItsOwn
<1>3. req[j].op # "none" => req[j].order \in Ids
  BY DEF ChecksInv, Sane
<1> QED
  BY <1>2, <1>3, Elsewhere

LEMMA SeesItsOwn ==
  ASSUME ChecksInv, NEW i \in Slots, Handles(i), req[i].op # "create",
         NEW o \in Ids \ torn, o \in Touches(req[i]),
         (o \in Touches(req[i]))' => Knows(req[i], o)',
         Reckoned(o)', Fed(o)', Covered(o)'
  PROVE  Sees(i, o)
<1>1. \A j \in Slots \ {i} : o \notin Touches(req[j]) /\ req'[j] = req[j]
  BY NobodyElse DEF Handles
<1>2. ASSUME NEW j \in Slots PROVE (o \in Touches(req[j]) => Knows(req[j], o))'
  <2>1. CASE j = i
    BY <2>1
  <2>2. CASE j # i
    BY <1>1, <2>2 DEF Touches
  <2> QED
    BY <2>1, <2>2
<1> QED
  BY <1>2 DEF Sees

\* Only the row of x is written, and not whose part it is or how much of it.
WritesRow(x) ==
  /\ UNCHANGED <<lines, astray>>
  /\ orders' \in [Ids -> OrderRow]
  /\ \A c \in Ids \ {x} : orders'[c] = orders[c] /\ (c \in flat' <=> c \in flat)
  /\ orders'[x].parent = orders[x].parent /\ orders'[x].share = orders[x].share
  /\ flat' \subseteq Ids

LEMMA RowWritten ==
  ASSUME NEW x \in Ids, WritesRow(x), NEW o \in Ids
  PROVE  /\ LinesOn(o)' = LinesOn(o) /\ Subtotal(o)' = Subtotal(o)
         /\ Parts(o)' = Parts(o) /\ SharesOf(o)' = SharesOf(o)
         /\ o # x => Undisturbed(o)
<1>1. \A c \in Ids : orders'[c].parent = orders[c].parent /\ orders'[c].share = orders[c].share
  BY DEF WritesRow
<1>2. LinesOn(o)' = LinesOn(o)
  BY DEF WritesRow, LinesOn
<1>3. Subtotal(o)' = Subtotal(o)
  BY <1>2 DEF WritesRow, Subtotal
<1>4. Parts(o)' = Parts(o)
  BY <1>1 DEF Parts
<1>5. [c \in Ids |-> orders'[c].share] = [c \in Ids |-> orders[c].share]
  BY <1>1
<1>6. SharesOf(o)' = SharesOf(o)
  BY <1>4, <1>5 DEF SharesOf
<1> QED
  BY <1>2, <1>3, <1>4, <1>6 DEF Undisturbed, WritesRow

LEMMA WritingStep ==
  ASSUME ChecksInv, NEW i \in Slots, Handles(i), NEW x \in Touches(req[i]), WritesRow(x),
         UNCHANGED <<jobs, started, torn, faults>>, Taken(x)', Sane(req[i])',
         Inserted(req[i])' => \/ Inserted(req[i])
                              \/ \A j \in Slots \ {i} : ~(/\ Inserted(req[j])
                                                          /\ req[j].order = req[i].order),
         \A o \in Ids \ torn : o \in Touches(req[i]) => Sees(i, o)
  PROVE  ChecksInv'
<1>1. x \in Ids
  BY TouchesAreIds
<1>2. BillsType'
  BY DEF ChecksInv, BillsType, WritesRow, Handles
<1>3. \A o \in Ids : o # x => Undisturbed(o)
  BY <1>1, RowWritten
<1>4. ASSUME NEW o \in Ids PROVE (Taken(o) => Taken(o)') /\ Vacant(o)'
  <2>1. CASE o = x
    BY <2>1 DEF Vacant
  <2>2. CASE o # x
    BY <1>3, <2>2 DEF Undisturbed, Vacant, Taken, ChecksInv
  <2> QED
    BY <2>1, <2>2
<1> QED
  BY <1>2, <1>3, <1>4, RequestStep

\* A bill that stands, or is reckoned anew, while the lines are left alone.
LEMMA ReckonedAnew ==
  ASSUME NEW o \in Ids, Subtotal(o)' = Subtotal(o), orders'[o].extra = orders[o].extra,
         \/ orders'[o].total = Subtotal(o) + (IF o \in flat' THEN 0 ELSE orders[o].extra)
         \/ Reckoned(o) /\ orders'[o].total = orders[o].total /\ (o \in flat' <=> o \in flat)
              /\ \A j \in Slots : ~Reckoning(req[j], o)
  PROVE  Reckoned(o)'
BY DEF Reckoned

\* An order that is not cancelled, was split or has no lines is fed; and one whose row,
\* lines and strays stay as they are stays fed.
LEMMA FedAnew ==
  ASSUME NEW o \in Ids, UNCHANGED <<lines, astray>>,
         \/ orders'[o].status # "cancelled" \/ orders'[o].paid = "split" \/ LinesOn(o) = {}
         \/ Fed(o) /\ orders'[o].status = orders[o].status /\ orders'[o].paid = orders[o].paid
              /\ \A j \in Slots : ~Striking(req[j], o)
  PROVE  Fed(o)'
<1>1. LinesOn(o)' = LinesOn(o)
  BY DEF LinesOn
<1> QED
  BY <1>1 DEF Fed

\* An order that was not being split stays covered when its bill is flat or stands.
LEMMA CoveredAnew ==
  ASSUME NEW i \in Slots, Handles(i), NEW o \in Ids, Covered(o),
         Parts(o)' = Parts(o), SharesOf(o)' = SharesOf(o),
         req[i].op # "split",
         \A j \in Slots \ {i} : ~Splitting(req[j], o) /\ ~(req[j].op = "split" /\ req[j].order = o),
         orders[o].voided => orders'[o].voided,
         \/ ~orders[o].voided \/ o \in flat'
         \/ orders'[o].total = orders[o].total /\ (o \in flat => o \in flat')
  PROVE  Covered(o)'
<1>1. \A j \in Slots : ~Splitting(req[j], o) /\ ~(req[j].op = "split" /\ req[j].order = o)
  BY DEF Splitting
<1>2. \A j \in Slots : req'[j].op = "split" => req[j].op = "split" /\ req'[j].order = req[j].order
  BY DEF Handles, FreeSlot
<1>3. /\ Parts(o) # {} => orders[o].voided
      /\ Parts(o) # {} /\ o \notin flat => SharesOf(o) = orders[o].total
  BY <1>1 DEF Covered
<1>4. \A j \in Slots : req'[j].op = "split" /\ req'[j].order = o => req'[j].pc = "check"
  BY <1>1, <1>2
<1> QED
  BY <1>3, <1>4 DEF Covered

LEMMA AppendBillsStep ==
  ASSUME ChecksInv, NEW i \in Slots, AppendBills(i)
  PROVE  ChecksInv'
<1> DEFINE r == req[i]
<1>0. PICK x : x = req[i].order
  OBVIOUS
<1>1. /\ r.pc = "bill" /\ r.op = "append" /\ Answers(i) /\ flat' = flat \ {x}
      /\ UNCHANGED <<lines, jobs, started, torn, astray, faults>>
      /\ orders' = [orders EXCEPT
           ![x].total = RunningTotal([r EXCEPT !.extra = orders[x].extra]),
           ![x].status = IF r.sum > 0 THEN "open" ELSE @]
  BY <1>0 DEF AppendBills, At
<1>2. r \in Request /\ Sane(r) /\ BillsType
  BY DEF ChecksInv, BillsType
<1>3. x \in Ids /\ Taken(x) /\ Touches(r) = {x} /\ orders[x] \in OrderRow
  BY <1>0, <1>1, <1>2, IdsAreNumbers DEF Sane, Touches, BillsType
<1>4. RunningTotal([r EXCEPT !.extra = orders[x].extra]) = r.sum + orders[x].extra
  BY <1>2 DEF RunningTotal, Request
<1>5. r.sum \in Nat
  BY <1>2 DEF Request
<1>6. orders'[x] = [orders[x] EXCEPT !.total = r.sum + orders[x].extra,
                                     !.status = IF r.sum > 0 THEN "open" ELSE orders[x].status]
  BY <1>1, <1>2, <1>3, <1>4 DEF BillsType, OrderRow
<1>7. /\ orders'[x].total = r.sum + orders[x].extra
      /\ orders'[x].status = (IF r.sum > 0 THEN "open" ELSE orders[x].status)
      /\ orders'[x].extra = orders[x].extra /\ orders'[x].voided = orders[x].voided
      /\ orders'[x].paid = orders[x].paid /\ orders'[x].parent = orders[x].parent
      /\ orders'[x].share = orders[x].share /\ orders'[x] \in OrderRow
  <2> DEFINE st == IF r.sum > 0 THEN "open" ELSE orders[x].status
             tot == r.sum + orders[x].extra
  <2>1. st \in {"absent", "open", "cancelled"} /\ tot \in Int
    BY <1>3, <1>5 DEF OrderRow
  <2>2. orders'[x] = [orders[x] EXCEPT !.total = tot, !.status = st]
    BY <1>6
  <2> HIDE DEF st, tot
  <2>3. /\ orders'[x].total = tot /\ orders'[x].status = st
        /\ orders'[x].extra = orders[x].extra /\ orders'[x].voided = orders[x].voided
        /\ orders'[x].paid = orders[x].paid /\ orders'[x].parent = orders[x].parent
        /\ orders'[x].share = orders[x].share /\ orders'[x] \in OrderRow
    BY <1>3, <2>1, <2>2 DEF OrderRow
  <2> QED
    BY <2>3 DEF st, tot
<1>8. \A c \in Ids \ {x} : orders'[c] = orders[c]
  BY <1>1, <1>2 DEF BillsType
<1>9. WritesRow(x)
  <2>1. orders' \in [Ids -> OrderRow]
    BY <1>1, <1>2, <1>7, <1>8 DEF BillsType
  <2> QED
    BY <1>1, <1>2, <1>7, <1>8, <2>1 DEF WritesRow, BillsType
<1>10. Taken(x)'
  BY <1>3, <1>7 DEF Taken
<1>11. Handles(i) /\ req'[i] = FreeSlot
  BY <1>1, <1>2, HandlesTo, FreeIsSane DEF Answers
<1>12. Sane(req[i])' /\ ~Inserted(req[i])' /\ (Touches(req[i]) = {})'
  BY <1>11, FreeIsSane DEF Sane, FreeSlot, PcsOf, Inserted, Touches
<1>13. ASSUME NEW o \in Ids \ torn, o \in Touches(req[i]) PROVE Sees(i, o)
  <2>1. o = x /\ InOrder(o) /\ Knows(r, o)
    BY <1>3, <1>13 DEF ChecksInv, InOrder
  <2>2. r.sum = Subtotal(o) /\ TakesRounds(o)
    BY <1>0, <1>1, <2>1 DEF Knows, Reckons
  <2>3. Subtotal(o)' = Subtotal(o) /\ Parts(o)' = Parts(o) /\ SharesOf(o)' = SharesOf(o)
    BY <1>3, <1>9, RowWritten
  <2>4. Reckoned(o)'
    BY <1>1, <1>7, <2>1, <2>2, <2>3, ReckonedAnew
  <2>5. orders'[o].status # "cancelled"
    BY <1>7, <2>1, <2>2 DEF TakesRounds, Closed
  <2>6. Fed(o)'
    BY <1>1, <2>5, FedAnew
  <2>7. \A j \in Slots \ {i} : ~Splitting(req[j], o) /\ ~(req[j].op = "split" /\ req[j].order = o)
    BY <1>1, <1>13, NobodyElse
  <2>8. ~orders[o].voided /\ Covered(o)
    BY <2>1, <2>2 DEF TakesRounds, InOrder
  <2>9. Covered(o)'
    BY <1>1, <1>11, <2>3, <2>7, <2>8, CoveredAnew
  <2> QED
    BY <1>1, <1>11, <1>12, <1>13, <2>4, <2>6, <2>9, SeesItsOwn
<1> QED
  BY <1>1, <1>3, <1>9, <1>10, <1>11, <1>12, <1>13, WritingStep

\* A merge reckons its target from the lines that are on it now.
LEMMA MergeBillsStep ==
  ASSUME ChecksInv, NEW i \in Slots, MergeBills(i)
  PROVE  ChecksInv'
<1> DEFINE r == req[i]
<1>0. PICK x, tot : x = req[i].target /\ tot = MergedTotal(req[i])
  OBVIOUS
<1>1. /\ r.pc = "bill" /\ r.op = "merge" /\ Steps(i, "close")
      /\ UNCHANGED <<lines, jobs, started, torn, flat, astray, faults>>
      /\ orders' = [orders EXCEPT ![x].total = tot]
  BY <1>0 DEF MergeBills, At, history
<1>2. r \in Request /\ Sane(r) /\ BillsType
  BY DEF ChecksInv, BillsType
<1>3. /\ x \in Ids /\ Taken(x) /\ Touches(r) = {r.order, x} /\ r.order # x /\ r.order \in Ids
      /\ orders[x] \in OrderRow
  BY <1>0, <1>1, <1>2, IdsAreNumbers DEF Sane, Touches, BillsType
<1>4. tot \in Int /\ (r.sum # 0 => tot = r.sum) /\ r.sum \in Nat
  BY <1>0, <1>2 DEF MergedTotal, Request
<1>5. orders'[x] = [orders[x] EXCEPT !.total = tot]
  BY <1>1, <1>2, <1>3 DEF BillsType
<1>6. /\ orders'[x].total = tot /\ orders'[x].status = orders[x].status
      /\ orders'[x].extra = orders[x].extra /\ orders'[x].voided = orders[x].voided
      /\ orders'[x].paid = orders[x].paid /\ orders'[x].parent = orders[x].parent
      /\ orders'[x].share = orders[x].share /\ orders'[x] \in OrderRow
  BY <1>3, <1>4, <1>5 DEF OrderRow
<1>7. \A c \in Ids \ {x} : orders'[c] = orders[c]
  BY <1>1, <1>2 DEF BillsType
<1>8. WritesRow(x)
  <2>1. orders' \in [Ids -> OrderRow]
    BY <1>1, <1>2, <1>6, <1>7 DEF BillsType
  <2> QED
    BY <1>1, <1>2, <1>6, <1>7, <2>1 DEF WritesRow, BillsType
<1>9. Taken(x)'
  BY <1>3, <1>6 DEF Taken
<1>10. \A o \in Ids : Taken(o) => Taken(o)'
  BY <1>7, <1>9 DEF Taken
<1>11. /\ Handles(i) /\ req'[i].op = "merge" /\ req'[i].pc = "close"
       /\ req'[i].order = r.order /\ req'[i].target = r.target /\ req'[i].sum = r.sum
  <2> DEFINE q == [r EXCEPT !.pc = "close"]
  <2>1. /\ q \in Request /\ q.op = r.op /\ q.pc = "close" /\ q.order = r.order
        /\ q.target = r.target /\ q.sum = r.sum
    BY <1>2 DEF Request, Pcs
  <2>2. Goes(i, q)
    BY <1>1 DEF Steps
  <2> HIDE DEF q
  <2>3. Handles(i) /\ req'[i] = q
    BY <1>2, <2>1, <2>2, HandlesTo
  <2> QED
    BY <1>1, <2>1, <2>3
<1>12. Sane(req[i])' /\ ~Inserted(req[i])'
  BY <1>1, <1>2, <1>10, <1>11 DEF Sane, PcsOf, Inserted, Taken
<1>13. ASSUME NEW o \in Ids \ torn, o \in Touches(req[i]) PROVE Sees(i, o)
  <2>1. InOrder(o) /\ Knows(r, o)
    BY <1>3, <1>13 DEF ChecksInv, InOrder
  <2>2. Knows(req[i], o)'
    BY <1>1, <1>8, <1>11, <2>1 DEF Knows, WritesRow, LinesOn
  <2>3. CASE o = x
    <3>1. r.sum = Subtotal(o) /\ o \in flat'
      BY <1>0, <1>1, <2>1, <2>3 DEF Knows, Reckons
    <3>2. Subtotal(o)' = Subtotal(o) /\ Parts(o)' = Parts(o) /\ SharesOf(o)' = SharesOf(o)
      BY <1>3, <1>8, RowWritten
    <3>3. Reckoned(o)'
      BY <1>4, <1>6, <2>3, <3>1, <3>2 DEF Reckoned
    <3>4. \A j \in Slots \ {i} : /\ ~Splitting(req[j], o) /\ ~Striking(req[j], o)
                                 /\ ~(req[j].op = "split" /\ req[j].order = o)
      BY <1>1, <1>13, NobodyElse
    <3>5. \A j \in Slots : ~Striking(req[j], o)
      BY <1>1, <3>4 DEF Striking
    <3>6. Fed(o)'
      BY <1>1, <1>6, <2>1, <2>3, <3>5, FedAnew DEF InOrder
    <3>7. Covered(o)'
      BY <1>1, <1>6, <1>11, <2>1, <2>3, <3>1, <3>2, <3>4, CoveredAnew DEF InOrder
    <3> QED
      BY <1>1, <1>11, <1>13, <2>2, <3>3, <3>6, <3>7, SeesItsOwn
  <2>4. CASE o # x
    <3>1. Undisturbed(o)
      BY <1>3, <1>8, <2>4, RowWritten
    <3>2. ~Reckoning(req[i], o) /\ ~Striking(req[i], o) /\ ~Splitting(req[i], o)
      BY <1>0, <1>1, <2>4 DEF Reckoning, Striking, Splitting
    <3> QED
      BY <1>11, <2>2, <3>1, <3>2, SeesWhenUndisturbed
  <2> QED
    BY <2>3, <2>4
<1> QED
  BY <1>1, <1>3, <1>8, <1>9, <1>11, <1>12, <1>13, WritingStep

LEMMA MergeClosesStep ==
  ASSUME ChecksInv, NEW i \in Slots, MergeCloses(i)
  PROVE  ChecksInv'
<1> DEFINE r == req[i]
<1>0. PICK x : x = req[i].order
  OBVIOUS
<1>1. /\ r.pc = "close" /\ Answers(i)
      /\ UNCHANGED <<lines, jobs, started, torn, flat, astray, faults>>
      /\ orders' = [orders EXCEPT ![x].status = "cancelled"]
  BY <1>0 DEF MergeCloses, At, history
<1>2. r \in Request /\ Sane(r) /\ BillsType
  BY DEF ChecksInv, BillsType
<1>3. r.op = "merge"
  BY <1>1, <1>2 DEF Sane, PcsOf
<1>4. /\ x \in Ids /\ Taken(x) /\ Touches(r) = {x, r.target} /\ r.target # x
      /\ orders[x] \in OrderRow
  BY <1>0, <1>1, <1>2, <1>3, IdsAreNumbers DEF Sane, Touches, BillsType
<1>5. orders'[x] = [orders[x] EXCEPT !.status = "cancelled"]
  BY <1>1, <1>2, <1>4 DEF BillsType
<1>6. /\ orders'[x].total = orders[x].total /\ orders'[x].status = "cancelled"
      /\ orders'[x].extra = orders[x].extra /\ orders'[x].voided = orders[x].voided
      /\ orders'[x].paid = orders[x].paid /\ orders'[x].parent = orders[x].parent
      /\ orders'[x].share = orders[x].share /\ orders'[x] \in OrderRow
  BY <1>4, <1>5 DEF OrderRow
<1>7. \A c \in Ids \ {x} : orders'[c] = orders[c]
  BY <1>1, <1>2 DEF BillsType
<1>8. WritesRow(x)
  <2>1. orders' \in [Ids -> OrderRow]
    BY <1>1, <1>2, <1>6, <1>7 DEF BillsType
  <2> QED
    BY <1>1, <1>2, <1>6, <1>7, <2>1 DEF WritesRow, BillsType
<1>9. Taken(x)'
  BY <1>6 DEF Taken
<1>10. Handles(i) /\ req'[i] = FreeSlot
  BY <1>1, <1>2, HandlesTo, FreeIsSane DEF Answers
<1>11. Sane(req[i])' /\ ~Inserted(req[i])' /\ (Touches(req[i]) = {})'
  BY <1>10, FreeIsSane DEF Sane, FreeSlot, PcsOf, Inserted, Touches
<1>12. \A o : ~Reckoning(req[i], o) /\ ~Striking(req[i], o) /\ ~Splitting(req[i], o)
  BY <1>1, <1>3 DEF Reckoning, Striking, Splitting
<1>13. ASSUME NEW o \in Ids \ torn, o \in Touches(req[i]) PROVE Sees(i, o)
  <2>1. InOrder(o) /\ Knows(r, o)
    BY <1>13 DEF ChecksInv, InOrder
  <2>2. CASE o = x
    <3>1. LinesOn(o) = {}
      BY <1>0, <1>1, <1>3, <2>1, <2>2 DEF Knows
    <3>2. Subtotal(o)' = Subtotal(o) /\ Parts(o)' = Parts(o) /\ SharesOf(o)' = SharesOf(o)
      BY <1>4, <1>8, RowWritten
    <3>3. \A j \in Slots \ {i} : /\ ~Splitting(req[j], o) /\ ~Reckoning(req[j], o)
                                 /\ ~(req[j].op = "split" /\ req[j].order = o)
      BY <1>3, <1>13, NobodyElse
    <3>4. \A j \in Slots : ~Reckoning(req[j], o)
      BY <1>12, <3>3
    <3>5. Reckoned(o)'
      BY <1>1, <1>6, <2>1, <2>2, <3>2, <3>4, ReckonedAnew DEF InOrder
    <3>6. Fed(o)'
      BY <1>1, <3>1, FedAnew
    <3>7. Covered(o)'
      BY <1>1, <1>3, <1>6, <1>10, <2>1, <2>2, <3>2, <3>3, CoveredAnew DEF InOrder
    <3> QED
      BY <1>3, <1>10, <1>11, <1>13, <3>5, <3>6, <3>7, SeesItsOwn
  <2>3. CASE o # x
    <3>1. Undisturbed(o)
      BY <1>4, <1>8, <2>3, RowWritten
    <3> QED
      BY <1>10, <1>11, <1>12, <3>1, SeesWhenUndisturbed DEF FreeSlot
  <2> QED
    BY <2>2, <2>3
<1> QED
  BY <1>1, <1>4, <1>8, <1>9, <1>10, <1>11, <1>13, WritingStep

LEMMA SplitRetiresStep ==
  ASSUME ChecksInv, NEW i \in Slots, SplitRetires(i)
  PROVE  ChecksInv'
<1> DEFINE r == req[i]
<1>0. PICK x : x = req[i].order
  OBVIOUS
<1>1. /\ r.pc = "retire" /\ Answers(i)
      /\ UNCHANGED <<lines, jobs, started, torn, flat, astray, faults>>
      /\ orders' = [orders EXCEPT ![x].status = "cancelled", ![x].paid = "split",
                                  ![x].voided = TRUE]
  BY <1>0 DEF SplitRetires, At, history
<1>2. r \in Request /\ Sane(r) /\ BillsType
  BY DEF ChecksInv, BillsType
<1>3. r.op = "split"
  BY <1>1, <1>2 DEF Sane, PcsOf
<1>4. x \in Ids /\ Taken(x) /\ Touches(r) = {x} /\ orders[x] \in OrderRow
  BY <1>0, <1>1, <1>2, <1>3, IdsAreNumbers DEF Sane, Touches, BillsType
<1>5. orders'[x] = [orders[x] EXCEPT !.status = "cancelled", !.paid = "split", !.voided = TRUE]
  BY <1>1, <1>2, <1>4 DEF BillsType
<1>6. /\ orders'[x].total = orders[x].total /\ orders'[x].status = "cancelled"
      /\ orders'[x].extra = orders[x].extra /\ orders'[x].voided = TRUE
      /\ orders'[x].paid = "split" /\ orders'[x].parent = orders[x].parent
      /\ orders'[x].share = orders[x].share /\ orders'[x] \in OrderRow
  BY <1>4, <1>5 DEF OrderRow
<1>7. \A c \in Ids \ {x} : orders'[c] = orders[c]
  BY <1>1, <1>2 DEF BillsType
<1>8. WritesRow(x)
  <2>1. orders' \in [Ids -> OrderRow]
    BY <1>1, <1>2, <1>6, <1>7 DEF BillsType
  <2> QED
    BY <1>1, <1>2, <1>6, <1>7, <2>1 DEF WritesRow, BillsType
<1>9. Taken(x)'
  BY <1>6 DEF Taken
<1>10. Handles(i) /\ req'[i] = FreeSlot
  BY <1>1, <1>2, HandlesTo, FreeIsSane DEF Answers
<1>11. Sane(req[i])' /\ ~Inserted(req[i])' /\ (Touches(req[i]) = {})'
  BY <1>10, FreeIsSane DEF Sane, FreeSlot, PcsOf, Inserted, Touches
<1>12. ASSUME NEW o \in Ids \ torn, o \in Touches(req[i]) PROVE Sees(i, o)
  <2>1. InOrder(o) /\ o = x
    BY <1>4, <1>12 DEF ChecksInv
  <2>2. Subtotal(o)' = Subtotal(o) /\ Parts(o)' = Parts(o) /\ SharesOf(o)' = SharesOf(o)
    BY <1>4, <1>8, RowWritten
  <2>3. \A j \in Slots \ {i} : /\ ~Splitting(req[j], o) /\ ~Reckoning(req[j], o)
                               /\ ~(req[j].op = "split" /\ req[j].order = o)
    BY <1>3, <1>12, NobodyElse
  <2>4. \A j \in Slots : ~Reckoning(req[j], o)
    BY <1>1, <2>3 DEF Reckoning
  <2>5. Reckoned(o)'
    BY <1>1, <1>6, <2>1, <2>2, <2>4, ReckonedAnew DEF InOrder
  <2>6. Fed(o)'
    BY <1>1, <1>6, <2>1, FedAnew
  <2>7. Splitting(req[i], o)
    BY <1>0, <1>1, <1>3, <2>1, <2>3 DEF InOrder, Covered
  <2>8. SharesOf(o) = orders[o].total
    BY <1>1, <2>7 DEF Splitting
  <2>9. \A j \in Slots : ~(req'[j].op = "split" /\ req'[j].order = o)
    BY <1>10, <2>3 DEF Handles, FreeSlot
  <2>10. Covered(o)'
    BY <1>6, <2>1, <2>2, <2>8, <2>9 DEF Covered
  <2> QED
    BY <1>3, <1>10, <1>11, <1>12, <2>5, <2>6, <2>10, SeesItsOwn
<1> QED
  BY <1>1, <1>4, <1>8, <1>9, <1>10, <1>11, <1>12, WritingStep

LEMMA VoidCancelsStep ==
  ASSUME ChecksInv, NEW i \in Slots, VoidCancels(i)
  PROVE  ChecksInv'
<1> DEFINE r == req[i]
<1>0. PICK x : x = req[i].order
  OBVIOUS
<1>1. /\ r.pc = "cancel" /\ Steps(i, "strike")
      /\ UNCHANGED <<lines, jobs, started, torn, flat, astray, faults>>
      /\ orders' = [orders EXCEPT ![x].status = "cancelled", ![x].voided = TRUE]
  BY <1>0 DEF VoidCancels, At, history
<1>2. r \in Request /\ Sane(r) /\ BillsType
  BY DEF ChecksInv, BillsType
<1>3. r.op = "void"
  BY <1>1, <1>2 DEF Sane, PcsOf
<1>4. x \in Ids /\ Taken(x) /\ Touches(r) = {x} /\ orders[x] \in OrderRow
  BY <1>0, <1>1, <1>2, <1>3, IdsAreNumbers DEF Sane, Touches, BillsType
<1>5. orders'[x] = [orders[x] EXCEPT !.status = "cancelled", !.voided = TRUE]
  BY <1>1, <1>2, <1>4 DEF BillsType
<1>6. /\ orders'[x].total = orders[x].total /\ orders'[x].status = "cancelled"
      /\ orders'[x].extra = orders[x].extra /\ orders'[x].voided = TRUE
      /\ orders'[x].paid = orders[x].paid /\ orders'[x].parent = orders[x].parent
      /\ orders'[x].share = orders[x].share /\ orders'[x] \in OrderRow
  BY <1>4, <1>5 DEF OrderRow
<1>7. \A c \in Ids \ {x} : orders'[c] = orders[c]
  BY <1>1, <1>2 DEF BillsType
<1>8. WritesRow(x)
  <2>1. orders' \in [Ids -> OrderRow]
    BY <1>1, <1>2, <1>6, <1>7 DEF BillsType
  <2> QED
    BY <1>1, <1>2, <1>6, <1>7, <2>1 DEF WritesRow, BillsType
<1>9. Taken(x)'
  BY <1>6 DEF Taken
<1>10. /\ Handles(i) /\ req'[i].op = "void" /\ req'[i].pc = "strike"
       /\ req'[i].order = r.order /\ req'[i].target = r.target
  <2> DEFINE q == [r EXCEPT !.pc = "strike"]
  <2>1. /\ q \in Request /\ q.op = r.op /\ q.pc = "strike" /\ q.order = r.order
        /\ q.target = r.target
    BY <1>2 DEF Request, Pcs
  <2>2. Goes(i, q)
    BY <1>1 DEF Steps
  <2> HIDE DEF q
  <2>3. Handles(i) /\ req'[i] = q
    BY <1>2, <2>1, <2>2, HandlesTo
  <2> QED
    BY <1>3, <2>1, <2>3
<1>11. Sane(req[i])' /\ ~Inserted(req[i])'
  BY <1>0, <1>2, <1>3, <1>9, <1>10 DEF Sane, PcsOf, Inserted, Taken
<1>12. ASSUME NEW o \in Ids \ torn, o \in Touches(req[i]) PROVE Sees(i, o)
  <2>1. InOrder(o) /\ o = x
    BY <1>4, <1>12 DEF ChecksInv
  <2>2. Subtotal(o)' = Subtotal(o) /\ Parts(o)' = Parts(o) /\ SharesOf(o)' = SharesOf(o)
    BY <1>4, <1>8, RowWritten
  <2>3. \A j \in Slots \ {i} : /\ ~Splitting(req[j], o) /\ ~Reckoning(req[j], o)
                               /\ ~(req[j].op = "split" /\ req[j].order = o)
    BY <1>3, <1>12, NobodyElse
  <2>4. \A j \in Slots : ~Reckoning(req[j], o)
    BY <1>1, <2>3 DEF Reckoning
  <2>5. Reckoned(o)'
    BY <1>1, <1>6, <2>1, <2>2, <2>4, ReckonedAnew DEF InOrder
  <2>6. Striking(req[i], o)'
    BY <1>0, <1>10, <2>1 DEF Striking
  <2>7. Fed(o)'
    BY <2>6 DEF Fed
  <2>8. Covered(o)'
    BY <1>1, <1>3, <1>6, <1>10, <2>1, <2>2, <2>3, CoveredAnew DEF InOrder
  <2>9. Knows(req[i], o)'
    BY <1>10 DEF Knows
  <2> QED
    BY <1>3, <1>10, <1>12, <2>5, <2>7, <2>8, <2>9, SeesItsOwn
<1> QED
  BY <1>1, <1>4, <1>8, <1>9, <1>10, <1>11, <1>12, WritingStep

LEMMA MoveBillsStep ==
  ASSUME ChecksInv, NEW i \in Slots, MoveBills(i)
  PROVE  ChecksInv'
<1> DEFINE r == req[i]
<1>0. PICK x : x = Reckons(req[i])
  OBVIOUS
<1>1. /\ r.op = "move" /\ r.pc \in {"bill", "restBill"}
      /\ Proceeds(i, IF r.pc = "bill" THEN "restSum" ELSE "free")
      /\ UNCHANGED <<lines, jobs, started, torn, flat, astray, faults>>
      /\ orders' = [orders EXCEPT ![x].total = r.sum]
  BY <1>0 DEF MoveBills, At, history
<1>2. r \in Request /\ Sane(r) /\ BillsType
  BY DEF ChecksInv, BillsType
<1>3. /\ r.order \in Ids /\ r.target \in Ids /\ r.order # r.target
      /\ Taken(r.order) /\ Taken(r.target) /\ Touches(r) = {r.order, r.target}
      /\ x = IF r.pc = "bill" THEN r.order ELSE r.target
  BY <1>0, <1>1, <1>2, IdsAreNumbers DEF Sane, Touches, Reckons
<1>4. x \in Ids /\ Taken(x) /\ x \in Touches(r) /\ orders[x] \in OrderRow /\ r.sum \in Nat
  BY <1>1, <1>2, <1>3 DEF BillsType, Request
<1>5. orders'[x] = [orders[x] EXCEPT !.total = r.sum]
  BY <1>1, <1>2, <1>4 DEF BillsType
<1>6. /\ orders'[x].total = r.sum /\ orders'[x].status = orders[x].status
      /\ orders'[x].extra = orders[x].extra /\ orders'[x].voided = orders[x].voided
      /\ orders'[x].paid = orders[x].paid /\ orders'[x].parent = orders[x].parent
      /\ orders'[x].share = orders[x].share /\ orders'[x] \in OrderRow
  BY <1>4, <1>5 DEF OrderRow
<1>7. \A c \in Ids \ {x} : orders'[c] = orders[c]
  BY <1>1, <1>2 DEF BillsType
<1>8. WritesRow(x)
  <2>1. orders' \in [Ids -> OrderRow]
    BY <1>1, <1>2, <1>6, <1>7 DEF BillsType
  <2> QED
    BY <1>1, <1>2, <1>6, <1>7, <2>1 DEF WritesRow, BillsType
<1>9. Taken(x)'
  BY <1>4, <1>6 DEF Taken
<1>10. \A o \in Ids : Taken(o) => Taken(o)'
  BY <1>7, <1>9 DEF Taken
<1>11. /\ Handles(i)
       /\ \/ r.pc = "bill" /\ req'[i].op = "move" /\ req'[i].pc = "restSum"
             /\ req'[i].order = r.order /\ req'[i].target = r.target
          \/ r.pc = "restBill" /\ req'[i] = FreeSlot
  <2>1. CASE r.pc = "bill"
    <3> DEFINE q == [r EXCEPT !.pc = "restSum"]
    <3>1. /\ q \in Request /\ q.op = r.op /\ q.pc = "restSum" /\ q.order = r.order
          /\ q.target = r.target
      BY <1>2 DEF Request, Pcs
    <3>2. Goes(i, q)
      BY <1>1, <2>1 DEF Steps, Proceeds
    <3> HIDE DEF q
    <3>3. Handles(i) /\ req'[i] = q
      BY <1>2, <3>1, <3>2, HandlesTo
    <3> QED
      BY <1>1, <2>1, <3>1, <3>3
  <2>2. CASE r.pc = "restBill"
    <3>1. Goes(i, FreeSlot)
      BY <1>1, <2>2 DEF Proceeds, Answers
    <3> QED
      BY <1>2, <2>2, <3>1, HandlesTo, FreeIsSane
  <2> QED
    BY <1>1, <2>1, <2>2
<1>12. Sane(req[i])' /\ ~Inserted(req[i])'
  <2>1. CASE req'[i] = FreeSlot
    BY <2>1 DEF Sane, FreeSlot, PcsOf, Inserted
  <2>2. CASE req'[i].op = "move" /\ req'[i].pc = "restSum" /\ req'[i].order = r.order
             /\ req'[i].target = r.target
    BY <1>3, <1>10, <2>2 DEF Sane, PcsOf, Inserted, Taken
  <2> QED
    BY <1>11, <2>1, <2>2
<1>13. ASSUME NEW o \in Ids \ torn, o \in Touches(req[i]) PROVE Sees(i, o)
  <2>1. InOrder(o) /\ Knows(r, o)
    BY <1>13 DEF ChecksInv, InOrder
  <2>2. o \in flat
    BY <1>1, <2>1 DEF Knows
  <2>3. (o \in Touches(req[i]))' => Knows(req[i], o)'
    BY <1>1, <1>11, <2>2, FreeIsSane DEF Knows, Touches
  <2>4. CASE o = x
    <3>1. r.sum = Subtotal(o)
      BY <1>0, <1>1, <2>1, <2>4 DEF Knows
    <3>2. Subtotal(o)' = Subtotal(o) /\ Parts(o)' = Parts(o) /\ SharesOf(o)' = SharesOf(o)
      BY <1>4, <1>8, RowWritten
    <3>3. Reckoned(o)'
      BY <1>1, <1>4, <1>6, <2>2, <2>4, <3>1, <3>2 DEF Reckoned
    <3>4. \A j \in Slots \ {i} : /\ ~Splitting(req[j], o) /\ ~Striking(req[j], o)
                                 /\ ~(req[j].op = "split" /\ req[j].order = o)
      BY <1>1, <1>13, NobodyElse
    <3>5. \A j \in Slots : ~Striking(req[j], o)
      BY <1>1, <3>4 DEF Striking
    <3>6. Fed(o)'
      BY <1>1, <1>6, <2>1, <2>4, <3>5, FedAnew DEF InOrder
    <3>7. Covered(o)'
      BY <1>1, <1>6, <1>11, <2>1, <2>2, <2>4, <3>2, <3>4, CoveredAnew DEF InOrder
    <3> QED
      BY <1>1, <1>11, <1>13, <2>3, <3>3, <3>6, <3>7, SeesItsOwn
  <2>5. CASE o # x
    <3>1. Undisturbed(o)
      BY <1>4, <1>8, <2>5, RowWritten
    <3>2. ~Striking(req[i], o) /\ ~Splitting(req[i], o)
      BY <1>1 DEF Striking, Splitting
    <3>3. Reckoning(req[i], o) => Reckoning(req[i], o)'
      BY <1>1, <1>3, <1>11, <2>5 DEF Reckoning
    <3>4. req'[i].op # "split"
      BY <1>11 DEF FreeSlot
    <3> QED
      BY <1>11, <2>3, <3>1, <3>2, <3>3, <3>4, SeesWhenUndisturbed
  <2> QED
    BY <2>4, <2>5
<1> QED
  BY <1>1, <1>4, <1>8, <1>9, <1>11, <1>12, <1>13, WritingStep

LEMMA InsertsOrderStep ==
  ASSUME ChecksInv, NEW i \in Slots, InsertsOrder(i)
  PROVE  ChecksInv'
<1> DEFINE r == req[i]
<1>0. PICK x : x = req[i].order
  OBVIOUS
<1>1. r.pc = "insert" /\ UNCHANGED <<lines, jobs, started, torn, flat, astray, faults>>
  BY DEF InsertsOrder, At, history
<1>2. r \in Request /\ Sane(r) /\ BillsType
  BY DEF ChecksInv, BillsType
<1>3. r.op = "create"
  BY <1>1, <1>2 DEF Sane, PcsOf
<1>4. x \in Ids /\ Touches(r) = {x} /\ x \in Tickets
  BY <1>0, <1>2, <1>3, IdsAreNumbers, TicketsAssumption DEF Sane, Touches
<1>5. CASE Taken(x)
  <2>1. Answers(i) /\ UNCHANGED orders
    BY <1>0, <1>5 DEF InsertsOrder
  <2>2. \A o : ~Reckoning(req[i], o) /\ ~Striking(req[i], o) /\ ~Splitting(req[i], o)
    BY <1>1 DEF Reckoning, Striking, Splitting
  <2>3. /\ jobs' \in [Ids -> Nat] /\ started' \in Nat /\ faults' \in Nat
        /\ torn \subseteq torn' /\ torn' \subseteq Ids
    BY <1>1, <1>2 DEF BillsType
  <2> QED
    BY <1>1, <2>1, <2>2, <2>3, AnswerStep
<1>6. CASE ~Taken(x)
  <2>1. /\ Steps(i, "lines")
        /\ orders' = [orders EXCEPT ![x] = [Absent EXCEPT !.status = "open", !.extra = r.extra,
                                                          !.total = r.price + r.extra]]
    BY <1>0, <1>6 DEF InsertsOrder
  <2>2. orders[x] = Absent /\ LinesOn(x) = {} /\ x \notin flat /\ Parts(x) = {}
    BY <1>4, <1>6 DEF ChecksInv, Vacant
  <2>3. r.price \in Nat /\ r.extra \in Nat
    BY <1>2 DEF Request
  <2>4. orders'[x] = [Absent EXCEPT !.status = "open", !.extra = r.extra,
                                    !.total = r.price + r.extra]
    BY <1>2, <1>4, <2>1 DEF BillsType
  <2>5. /\ orders'[x].total = r.price + r.extra /\ orders'[x].status = "open"
        /\ orders'[x].extra = r.extra /\ orders'[x].voided = FALSE
        /\ orders'[x].paid = "unpaid" /\ orders'[x].parent = orders[x].parent
        /\ orders'[x].share = orders[x].share /\ orders'[x] \in OrderRow
    <3> DEFINE tot == r.price + r.extra
    <3>1. tot \in Int
      BY <2>3
    <3>2. orders'[x] = [status |-> "open", voided |-> FALSE, paid |-> "unpaid",
                        total |-> tot, extra |-> r.extra, parent |-> 0, share |-> 0]
      BY <2>4 DEF Absent
    <3>3. orders[x].parent = 0 /\ orders[x].share = 0
      BY <2>2 DEF Absent
    <3> HIDE DEF tot
    <3>4. orders'[x] \in OrderRow
      BY <2>3, <3>1, <3>2 DEF OrderRow
    <3>5. /\ orders'[x].total = tot /\ orders'[x].status = "open"
          /\ orders'[x].extra = r.extra /\ orders'[x].voided = FALSE
          /\ orders'[x].paid = "unpaid" /\ orders'[x].parent = 0 /\ orders'[x].share = 0
      BY <3>2
    <3> QED
      BY <3>3, <3>4, <3>5 DEF tot
  <2>6. \A c \in Ids \ {x} : orders'[c] = orders[c]
    BY <1>2, <2>1 DEF BillsType
  <2>7. WritesRow(x)
    <3>1. orders' \in [Ids -> OrderRow]
      BY <1>2, <2>1, <2>5, <2>6 DEF BillsType
    <3> QED
      BY <1>1, <1>2, <2>5, <2>6, <3>1 DEF WritesRow, BillsType
  <2>8. Taken(x)'
    BY <2>5 DEF Taken
  <2>9. /\ Handles(i) /\ req'[i].op = "create" /\ req'[i].pc = "lines"
        /\ req'[i].order = r.order /\ req'[i].target = r.target
        /\ req'[i].price = r.price /\ req'[i].extra = r.extra
    <3> DEFINE q == [r EXCEPT !.pc = "lines"]
    <3>1. /\ q \in Request /\ q.op = r.op /\ q.pc = "lines" /\ q.order = r.order
          /\ q.target = r.target /\ q.price = r.price /\ q.extra = r.extra
      BY <1>2 DEF Request, Pcs
    <3>2. Goes(i, q)
      BY <2>1 DEF Steps
    <3> HIDE DEF q
    <3>3. Handles(i) /\ req'[i] = q
      BY <1>2, <3>1, <3>2, HandlesTo
    <3> QED
      BY <1>3, <3>1, <3>3
  <2>10. Sane(req[i])'
    BY <1>0, <1>1, <1>2, <1>3, <2>8, <2>9 DEF Sane, PcsOf, Taken
  <2>11. ASSUME NEW j \in Slots PROVE ~(Inserted(req[j]) /\ req[j].order = x)
    <3>1. Sane(req[j])
      BY DEF ChecksInv
    <3> QED
      BY <1>6, <3>1 DEF Inserted, Sane
  <2>12. ASSUME NEW o \in Ids \ torn, o \in Touches(req[i]) PROVE Sees(i, o)
    <3>1. InOrder(o) /\ o = x
      BY <1>4, <2>12 DEF ChecksInv
    <3>2. /\ LinesOn(o)' = LinesOn(o) /\ Parts(o)' = Parts(o)
      BY <1>4, <2>7, RowWritten
    <3>3. Subtotal(o)' = Subtotal(o) /\ Subtotal(o) = 0
      BY <1>4, <2>2, <2>7, <3>1, RowWritten, SubtotalOfNothing
    <3>4. ASSUME NEW j \in Slots, (o \in Touches(req[j]))' PROVE Knows(req[j], o)'
      <4>1. CASE j = i
        BY <1>1, <2>2, <2>5, <2>9, <3>1, <3>2, <4>1 DEF Knows
      <4>2. CASE j # i
        <5>1. req'[j] = req[j] /\ o \in Touches(req[j])
          BY <2>9, <3>4, <4>2 DEF Handles, Touches
        <5>2. req[j].op = "create"
          BY <1>3, <2>12, <3>1, <4>2, <5>1 DEF InOrder, Alone
        <5>3. req[j].order = x
          <6>1. Sane(req[j])
            BY DEF ChecksInv
          <6> QED
            BY <3>1, <5>1, <5>2, <6>1 DEF Sane, Touches
        <5>4. req[j].pc = "insert"
          BY <2>11, <5>2, <5>3 DEF Inserted
        <5> QED
          BY <5>1, <5>2, <5>4 DEF Knows
      <4> QED
        BY <4>1, <4>2
    <3>5. Reckoned(o)'
      BY <3>3 DEF Reckoned
    <3>6. Fed(o)'
      BY <2>5, <3>1 DEF Fed
    <3>7. Covered(o)'
      <4>1. ASSUME NEW j \in Slots, req'[j].op = "split", req'[j].order = o PROVE FALSE
        <5>1. j # i
          BY <2>9, <4>1
        <5>2. req'[j] = req[j] /\ Sane(req[j])
          BY <2>9, <5>1 DEF Handles, ChecksInv
        <5>3. req[j].pc # "insert"
          BY <4>1, <5>2 DEF Sane, PcsOf
        <5> QED
          BY <1>6, <3>1, <4>1, <5>2, <5>3 DEF Sane
      <4> QED
        BY <2>2, <3>1, <3>2, <4>1 DEF Covered
    <3> QED
      BY <3>4, <3>5, <3>6, <3>7 DEF Sees
  <2> QED
    BY <1>0, <1>1, <1>4, <2>7, <2>8, <2>9, <2>10, <2>11, <2>12, WritingStep
<1> QED
  BY <1>5, <1>6

\* A settlement is nobody's request: it finds the order open and leaves its lines.
LEMMA SettlesStep ==
  ASSUME ChecksInv, NEW x \in Ids, Settles(x)
  PROVE  ChecksInv'
<1>1. /\ UNCHANGED <<lines, jobs, req, flat, astray, faults>> /\ started' = started + 1
      /\ orders[x].status = "open" /\ ~orders[x].voided
      /\ orders' = [orders EXCEPT ![x].paid = "paid"]
      /\ torn' = torn \cup {u \in {x} : \E j \in Slots : u \in Touches(req[j])}
  BY DEF Settles
<1>2. BillsType /\ orders[x] \in OrderRow
  BY DEF ChecksInv, BillsType
<1>3. orders'[x] = [orders[x] EXCEPT !.paid = "paid"]
  BY <1>1, <1>2 DEF BillsType
<1>4. /\ orders'[x].total = orders[x].total /\ orders'[x].status = "open"
      /\ orders'[x].extra = orders[x].extra /\ orders'[x].voided = orders[x].voided
      /\ orders'[x].parent = orders[x].parent
      /\ orders'[x].share = orders[x].share /\ orders'[x] \in OrderRow
  BY <1>1, <1>2, <1>3 DEF OrderRow
<1>5. \A c \in Ids \ {x} : orders'[c] = orders[c]
  BY <1>1, <1>2 DEF BillsType
<1>6. WritesRow(x)
  <2>1. orders' \in [Ids -> OrderRow]
    BY <1>1, <1>2, <1>4, <1>5 DEF BillsType
  <2> QED
    BY <1>1, <1>2, <1>4, <1>5, <2>1 DEF WritesRow, BillsType
<1>7. BillsType'
  BY <1>1, <1>2, <1>6 DEF BillsType, WritesRow
<1>8. \A o \in Ids : Taken(o)' <=> Taken(o)
  BY <1>1, <1>4, <1>5 DEF Taken
<1>9. \A j \in Slots : Sane(req[j])'
  BY <1>1, <1>8 DEF ChecksInv, Sane, Taken
<1>10. ASSUME NEW o \in Ids PROVE Vacant(o)'
  <2>1. CASE o = x
    BY <1>4, <2>1 DEF Vacant, Taken
  <2>2. CASE o # x
    <3>1. Undisturbed(o) /\ Vacant(o)
      BY <1>6, <2>2, RowWritten DEF ChecksInv
    <3> QED
      BY <1>8, <3>1 DEF Vacant, Undisturbed
  <2> QED
    BY <2>1, <2>2
<1>11. InsertedOnce'
  BY <1>1 DEF ChecksInv, InsertedOnce, Inserted
<1>12. ASSUME NEW o \in Ids \ torn' PROVE InOrder(o)'
  <2>1. o \notin torn /\ InOrder(o)
    BY <1>1 DEF ChecksInv
  <2>2. Alone(o)'
    BY <1>1, <2>1 DEF InOrder, Alone, Touches
  <2>3. CASE o # x
    <3>1. Undisturbed(o)
      BY <1>6, <2>3, RowWritten
    <3>2. ASSUME NEW j \in Slots, (o \in Touches(req[j]))' PROVE Knows(req[j], o)'
      <4>1. req'[j] = req[j] /\ o \in Touches(req[j])
        BY <1>1, <3>2 DEF Touches
      <4> QED
        BY <2>1, <3>1, <4>1, KnowsStays DEF InOrder
    <3>3. \A j \in Slots : /\ Reckoning(req[j], o) => Reckoning(req[j], o)'
                           /\ Striking(req[j], o) => Striking(req[j], o)'
                           /\ Splitting(req[j], o) => Splitting(req[j], o)'
                           /\ req'[j] = req[j]
      BY <1>1, <3>1 DEF Reckoning, Striking, Splitting, Undisturbed
    <3>4. \A j \in Slots : req'[j].op = "split" /\ req'[j].order = o =>
             \/ req[j].op = "split" /\ req[j].order = o /\ req[j].pc # "check"
             \/ req'[j].pc = "check" \/ Splitting(req[j], o)'
      BY <3>3
    <3>5. Reckoned(o)' /\ Fed(o)' /\ Covered(o)'
      BY <2>1, <3>1, <3>3, <3>4, ReckonedStays, FedStays, CoveredStays DEF InOrder
    <3> QED
      BY <2>2, <3>2, <3>5 DEF InOrder
  <2>4. CASE o = x
    <3>1. \A j \in Slots : o \notin Touches(req[j]) /\ req'[j] = req[j]
      BY <1>1, <2>4
    <3>2. ASSUME NEW j \in Slots
          PROVE  /\ ~Reckoning(req[j], o) /\ ~Splitting(req[j], o)
                 /\ ~(req[j].op = "split" /\ req[j].order = o)
      <4>1. req[j].op # "none" => req[j].order \in Ids
        BY DEF ChecksInv, Sane
      <4> QED
        BY <3>1, <4>1, Elsewhere
    <3>3. Subtotal(o)' = Subtotal(o) /\ Parts(o)' = Parts(o) /\ SharesOf(o)' = SharesOf(o)
      BY <1>6, RowWritten
    <3>4. Reckoned(o)'
      BY <1>1, <1>4, <2>1, <2>4, <3>2, <3>3, ReckonedAnew DEF InOrder
    <3>5. Fed(o)'
      BY <1>4, <2>4 DEF Fed
    <3>6. Parts(o)' = {}
      BY <1>1, <2>1, <2>4, <3>2, <3>3 DEF InOrder, Covered
    <3>7. Covered(o)'
      BY <3>1, <3>2, <3>6 DEF Covered
    <3> QED
      BY <2>2, <3>1, <3>4, <3>5, <3>7 DEF InOrder, Touches
  <2> QED
    BY <2>3, <2>4
<1> QED
  BY <1>7, <1>9, <1>10, <1>11, <1>12 DEF ChecksInv

-----------------------------------------------------------------------------
(* Steps that write the lines.                                             *)

\* A line is put on order x: the next one.
Adds(x, l) ==
  /\ l \in LineRow /\ l.order = x /\ l.status = "open"
  /\ lines' = Append(lines, l)
  /\ UNCHANGED <<orders, flat, astray>>

LEMMA LineAdded ==
  ASSUME BillsType, NEW x \in Ids, NEW l, Adds(x, l)
  PROVE  /\ lines' \in Seq(LineRow) /\ DOMAIN lines \subseteq DOMAIN lines'
         /\ \A o \in Ids \ {x} : Undisturbed(o)
         /\ \A o \in Ids : Parts(o)' = Parts(o) /\ SharesOf(o)' = SharesOf(o)
         /\ LinesOn(x) = {} => Subtotal(x)' = l.price
<1> DEFINE n == Len(lines) + 1
<1>1. /\ lines \in Seq(LineRow) /\ lines' = Append(lines, l) /\ Len(lines) \in Nat
      /\ DOMAIN lines = 1 .. Len(lines)
  BY DEF BillsType, Adds
<1>2. /\ lines' \in Seq(LineRow) /\ DOMAIN lines' = DOMAIN lines \cup {n}
      /\ n \notin DOMAIN lines /\ lines'[n] = l
      /\ \A k \in DOMAIN lines : lines'[k] = lines[k]
  BY <1>1 DEF Adds
<1> HIDE DEF n
<1>3. ASSUME NEW o \in Ids PROVE Parts(o)' = Parts(o) /\ SharesOf(o)' = SharesOf(o)
  <2>1. orders' = orders
    BY DEF Adds
  <2> QED
    BY <2>1 DEF Parts, SharesOf
<1>4. ASSUME NEW o \in Ids \ {x} PROVE Undisturbed(o)
  <2> DEFINE f == [k \in DOMAIN lines |-> lines[k].price]
             g == [k \in DOMAIN lines' |-> lines'[k].price]
             S == {k \in LinesOn(o) : lines[k].status # "off"}
             T == {k \in LinesOn(o)' : lines'[k].status # "off"}
  <2>1. LinesOn(o)' = LinesOn(o)
    BY <1>2 DEF LinesOn, Adds
  <2>2. \A k \in LinesOn(o) : k \in DOMAIN lines /\ lines'[k] = lines[k]
    BY <1>2 DEF LinesOn
  <2>3. S = T
    BY <2>1, <2>2
  <2>4. IsFiniteSet(S) /\ \A k \in S : f[k] = g[k]
    <3>1. IsFiniteSet(S)
      BY LinesAreFinite, FS_Subset
    <3>2. \A k \in S : f[k] = g[k]
      BY <1>2, <2>2
    <3> QED
      BY <3>1, <3>2
  <2> HIDE DEF f, g, S, T
  <2>5. SumOver(f, S) = SumOver(g, T)
    BY <2>3, <2>4, SumSame
  <2>6. Subtotal(o)' = Subtotal(o)
    BY <2>5 DEF Subtotal, f, g, S, T
  <2> QED
    BY <1>3, <2>1, <2>2, <2>6 DEF Undisturbed, Adds
<1>5. ASSUME LinesOn(x) = {} PROVE Subtotal(x)' = l.price
  <2> DEFINE g == [k \in DOMAIN lines' |-> lines'[k].price]
             T == {k \in LinesOn(x)' : lines'[k].status # "off"}
  <2>1. LinesOn(x)' = {n}
    BY <1>2, <1>5 DEF LinesOn, Adds
  <2>2. T = {n}
    BY <1>2, <2>1 DEF Adds
  <2>3. g[n] = l.price /\ l.price \in Int
    BY <1>2 DEF Adds, LineRow
  <2> HIDE DEF g, T
  <2>4. SumOver(g, {n}) = g[n] + SumOver(g, {})
    <3>1. SumOver(g, {} \cup {n}) = g[n] + SumOver(g, {})
      BY <2>3, SumAdd, FS_EmptySet
    <3> QED
      BY <3>1
  <2>5. SumOver(g, T) = l.price
    BY <2>2, <2>3, <2>4, SumEmpty
  <2> QED
    BY <2>5 DEF Subtotal, g, T
<1> QED
  BY <1>2, <1>3, <1>4, <1>5

LEMMA InsertsLinesStep ==
  ASSUME ChecksInv, NEW i \in Slots, InsertsLines(i)
  PROVE  ChecksInv'
<1> DEFINE r == req[i]
<1>0. PICK x, l : x = req[i].order /\ l = [order |-> req[i].order, no |-> req[i].no,
                                           price |-> req[i].price, status |-> "open"]
  OBVIOUS
<1>1. /\ r.pc = "lines" /\ Proceeds(i, AfterLines(r)) /\ lines' = Append(lines, l)
      /\ UNCHANGED <<orders, jobs, started, torn, flat, astray, faults>>
  BY <1>0 DEF InsertsLines, At, history
<1>2. r \in Request /\ Sane(r) /\ BillsType
  BY DEF ChecksInv, BillsType
<1>3. r.op \in {"create", "append"}
  BY <1>1, <1>2 DEF Sane, PcsOf
<1>4. /\ x \in Ids /\ Taken(x) /\ Touches(r) = {x} /\ r.price \in Nat \ {0} /\ r.no \in Nat
      /\ r.target = 0
  BY <1>0, <1>1, <1>2, <1>3, IdsAreNumbers DEF Sane, Touches, Request
<1>5. l \in LineRow /\ l.order = x /\ l.status = "open" /\ l.price = r.price
  BY <1>0, <1>4 DEF LineRow
<1>6. Adds(x, l)
  BY <1>1, <1>5 DEF Adds
<1>7. /\ lines' \in Seq(LineRow) /\ DOMAIN lines \subseteq DOMAIN lines'
      /\ \A o \in Ids \ {x} : Undisturbed(o)
      /\ Parts(x)' = Parts(x) /\ SharesOf(x)' = SharesOf(x)
      /\ LinesOn(x) = {} => Subtotal(x)' = l.price
  BY <1>2, <1>4, <1>6, LineAdded
<1>8. /\ Handles(i)
      /\ \/ req'[i] = FreeSlot /\ r.op = "create"
         \/ r.op = "create" /\ req'[i].op = "create" /\ req'[i].pc = "job"
            /\ req'[i].order = r.order /\ req'[i].target = r.target /\ req'[i].price = r.price
         \/ r.op = "append" /\ req'[i].op = "append" /\ req'[i].pc = "sum"
            /\ req'[i].order = r.order /\ req'[i].target = r.target /\ req'[i].price = r.price
  <2> DEFINE pc == AfterLines(r)
             q  == [r EXCEPT !.pc = pc]
  <2>1. \/ pc = "sum" /\ r.op = "append"
        \/ pc = "job" /\ r.op = "create"
        \/ pc = "free" /\ r.op = "create"
    BY <1>3 DEF AfterLines
  <2>2. CASE pc = "free"
    <3>1. Goes(i, FreeSlot)
      BY <1>1, <2>2 DEF Proceeds, Answers
    <3> QED
      BY <1>2, <2>1, <2>2, <3>1, HandlesTo, FreeIsSane
  <2>3. CASE pc # "free"
    <3>1. Goes(i, q)
      BY <1>1, <2>3 DEF Proceeds, Steps
    <3>2. pc \in Pcs
      BY <2>1 DEF Pcs
    <3> HIDE DEF pc
    <3>3. /\ q \in Request /\ q.op = r.op /\ q.pc = pc /\ q.order = r.order
          /\ q.target = r.target /\ q.price = r.price
      BY <1>2, <3>2 DEF Request
    <3> HIDE DEF q
    <3>4. Handles(i) /\ req'[i] = q
      BY <1>2, <3>1, <3>3, HandlesTo
    <3> QED
      BY <2>1, <2>3, <3>3, <3>4
  <2> QED
    BY <2>2, <2>3
<1>9. BillsType'
  BY <1>1, <1>2, <1>7, <1>8 DEF BillsType, Handles
<1>10. \A o \in Ids : (Taken(o)' <=> Taken(o)) /\ Vacant(o)'
  <2> TAKE o \in Ids
  <2>1. Taken(o)' <=> Taken(o)
    BY <1>1 DEF Taken
  <2>2. CASE o = x
    BY <1>4, <2>1, <2>2 DEF Vacant
  <2>3. CASE o # x
    BY <1>7, <2>1, <2>3 DEF Vacant, Undisturbed, ChecksInv
  <2> QED
    BY <2>1, <2>2, <2>3
<1>11. Sane(req[i])' /\ (Inserted(req[i])' => Inserted(req[i]))
  <2>1. CASE req'[i] = FreeSlot
    BY <2>1 DEF Sane, FreeSlot, PcsOf, Inserted
  <2>2. CASE req'[i] # FreeSlot
    BY <1>0, <1>1, <1>2, <1>4, <1>8, <1>10, <2>2 DEF Sane, PcsOf, Inserted, Taken
  <2> QED
    BY <2>1, <2>2
<1>12. ASSUME NEW o \in Ids \ torn, o \in Touches(req[i]) PROVE Sees(i, o)
  <2>1. InOrder(o) /\ o = x /\ Knows(r, o)
    BY <1>4, <1>12 DEF ChecksInv, InOrder
  <2>2. orders[o].status # "cancelled"
    BY <1>1, <1>3, <2>1 DEF Knows, TakesRounds, Closed
  <2>3. Fed(o)'
    BY <1>1, <2>2 DEF Fed
  <2>4. Covered(o)'
    <3>1. \A j \in Slots : req[j].op = "split" =>
            req'[j] = req[j]
      BY <1>3, <1>8 DEF Handles
    <3>2. \A j \in Slots : req'[j].op = "split" => req'[j] = req[j]
      BY <1>8 DEF Handles, FreeSlot
    <3>3. \A j \in Slots : Splitting(req[j], o) => Splitting(req[j], o)'
      BY <1>1, <1>7, <2>1, <3>1 DEF Splitting
    <3>4. CASE \E j \in Slots : Splitting(req[j], o)
      BY <3>3, <3>4 DEF Covered
    <3>5. CASE ~\E j \in Slots : Splitting(req[j], o)
      BY <1>1, <1>7, <2>1, <3>2, <3>5 DEF InOrder, Covered
    <3> QED
      BY <3>4, <3>5
  <2>5. CASE r.op = "append"
    <3>1. Reckoning(req[i], o)' /\ Knows(req[i], o)'
      <4>1. req'[i].op = "append" /\ req'[i].pc = "sum" /\ req'[i].order = o
        BY <1>0, <1>8, <2>1, <2>5
      <4>2. TakesRounds(o)'
        BY <1>1, <2>1, <2>5 DEF Knows, TakesRounds
      <4> QED
        BY <4>1, <4>2 DEF Reckoning, Knows
    <3>2. Reckoned(o)'
      BY <3>1 DEF Reckoned
    <3> QED
      BY <1>8, <1>12, <2>3, <2>4, <2>5, <3>1, <3>2, SeesItsOwn
  <2>6. CASE r.op = "create"
    <3>1. /\ LinesOn(o) = {} /\ o \notin flat /\ orders[o].extra = r.extra
          /\ orders[o].total = r.price + r.extra
      BY <1>1, <2>1, <2>6 DEF Knows
    <3>2. Subtotal(o)' = r.price
      BY <1>5, <1>7, <2>1, <3>1
    <3>3. Reckoned(o)'
      BY <1>1, <3>1, <3>2 DEF Reckoned
    <3>4. ASSUME NEW j \in Slots, (o \in Touches(req[j]))' PROVE Knows(req[j], o)'
      <4>1. CASE j = i
        <5>1. req'[i].op = "create" /\ req'[i].pc = "job"
          BY <1>8, <2>6, <3>4, <4>1, FreeIsSane DEF Touches
        <5> QED
          BY <4>1, <5>1 DEF Knows
      <4>2. CASE j # i
        <5>1. req'[j] = req[j] /\ o \in Touches(req[j])
          BY <1>8, <3>4, <4>2 DEF Handles, Touches
        <5>2. req[j].op = "create"
          BY <1>12, <2>1, <4>2, <5>1 DEF InOrder, Alone
        <5>3. req[j].order = x
          <6>1. Sane(req[j])
            BY DEF ChecksInv
          <6> QED
            BY <2>1, <5>1, <5>2, <6>1 DEF Sane, Touches
        <5>4. req[j].pc = "insert"
          BY <1>0, <1>1, <2>6, <4>2, <5>2, <5>3 DEF Inserted, InsertedOnce, ChecksInv
        <5> QED
          BY <5>1, <5>2, <5>4 DEF Knows
      <4> QED
        BY <4>1, <4>2
    <3> QED
      BY <2>3, <2>4, <3>3, <3>4 DEF Sees
  <2> QED
    BY <1>3, <2>5, <2>6
<1> QED
  BY <1>1, <1>4, <1>7, <1>8, <1>9, <1>10, <1>11, <1>12, RequestStep

-----------------------------------------------------------------------------
\* The lines are rewritten in place: those of an order that the step is not about,
\* and stay on it, are left as they are.
LEMMA LinesElsewhere ==
  ASSUME BillsType, UNCHANGED orders, DOMAIN lines' = DOMAIN lines, NEW o \in Ids,
         \A n \in DOMAIN lines : lines[n].order = o \/ lines'[n].order = o =>
           lines'[n] = lines[n] /\ (n \in astray' <=> n \in astray),
         o \in flat' <=> o \in flat
  PROVE  Undisturbed(o)
<1> DEFINE f == [k \in DOMAIN lines |-> lines[k].price]
           g == [k \in DOMAIN lines' |-> lines'[k].price]
           S == {k \in LinesOn(o) : lines[k].status # "off"}
           T == {k \in LinesOn(o)' : lines'[k].status # "off"}
<1>1. LinesOn(o)' = LinesOn(o)
  BY DEF LinesOn
<1>2. \A k \in LinesOn(o) : k \in DOMAIN lines /\ lines'[k] = lines[k]
                            /\ (k \in astray' <=> k \in astray)
  BY DEF LinesOn
<1>3. S = T
  BY <1>1, <1>2
<1>4. IsFiniteSet(S)
  BY LinesAreFinite, FS_Subset
<1>5. \A k \in S : f[k] = g[k]
  BY <1>2
<1> HIDE DEF f, g, S, T
<1>6. SumOver(f, S) = SumOver(g, T)
  BY <1>3, <1>4, <1>5, SumSame
<1>7. Subtotal(o)' = Subtotal(o)
  BY <1>6 DEF Subtotal, f, g, S, T
<1>8. Parts(o)' = Parts(o) /\ SharesOf(o)' = SharesOf(o)
  BY DEF Parts, SharesOf
<1> QED
  BY <1>1, <1>2, <1>7, <1>8 DEF Undisturbed

LEMMA CarriesStep ==
  ASSUME ChecksInv, NEW i \in Slots, Carries(i)
  PROVE  ChecksInv'
<1> DEFINE r == req[i]
<1>0. PICK x, y, C : x = req[i].order /\ y = req[i].target /\ C = Carried(req[i])
  OBVIOUS
<1>1. /\ r.pc = "carry" /\ Steps(i, "sum") /\ flat' = flat \cup Touches(r)
      /\ lines' = [n \in DOMAIN lines |->
           IF n \in C THEN [lines[n] EXCEPT !.order = y] ELSE lines[n]]
      /\ astray' = IF orders[y].status \in Closed THEN astray \cup C ELSE astray
      /\ UNCHANGED <<orders, jobs, started, torn, faults>>
  BY <1>0 DEF Carries, At
<1>2. r \in Request /\ Sane(r) /\ BillsType
  BY DEF ChecksInv, BillsType
<1>3. r.op \in {"merge", "move"}
  BY <1>1, <1>2 DEF Sane, PcsOf
<1>4. /\ x \in Ids /\ y \in Ids /\ x # y /\ Taken(x) /\ Taken(y) /\ Touches(r) = {x, y}
  BY <1>0, <1>1, <1>2, <1>3, IdsAreNumbers DEF Sane, Touches
<1>5. C \subseteq LinesOn(x) /\ (r.op = "merge" => C = LinesOn(x)) /\ C \subseteq DOMAIN lines
  BY <1>0, <1>3 DEF Carried, LinesOn
<1>6. DOMAIN lines' = DOMAIN lines
  BY <1>1
<1>7. \A n \in DOMAIN lines :
        /\ lines[n] \in LineRow
        /\ n \in C => lines[n].order = x /\ lines'[n].order = y
                      /\ lines'[n].status = lines[n].status /\ lines'[n] \in LineRow
        /\ n \notin C => lines'[n] = lines[n]
  <2> TAKE n \in DOMAIN lines
  <2>1. lines[n] \in LineRow
    BY <1>2, LinesAreFinite
  <2>2. CASE n \in C
    <3>1. lines'[n] = [lines[n] EXCEPT !.order = y] /\ lines[n].order = x
      BY <1>1, <1>5, <2>2 DEF LinesOn
    <3> QED
      BY <1>4, <2>1, <2>2, <3>1 DEF LineRow
  <2>3. CASE n \notin C
    BY <1>1, <2>1, <2>3
  <2> QED
    BY <2>2, <2>3
<1>8. lines' \in Seq(LineRow)
  <2>1. lines \in Seq(LineRow)
    BY <1>2 DEF BillsType
  <2>2. DOMAIN lines = 1 .. Len(lines) /\ Len(lines) \in Nat
    BY <2>1
  <2>3. \A n \in 1 .. Len(lines) : lines'[n] \in LineRow
    BY <1>7, <2>2
  <2>4. lines' = [n \in 1 .. Len(lines) |-> lines'[n]]
    BY <1>1, <2>2
  <2> QED
    BY <2>2, <2>3, <2>4
<1>9. /\ Handles(i) /\ req'[i].op = r.op /\ req'[i].pc = "sum"
      /\ req'[i].order = r.order /\ req'[i].target = r.target
  <2> DEFINE q == [r EXCEPT !.pc = "sum"]
  <2>1. /\ q \in Request /\ q.op = r.op /\ q.pc = "sum" /\ q.order = r.order
        /\ q.target = r.target
    BY <1>2 DEF Request, Pcs
  <2>2. Goes(i, q)
    BY <1>1 DEF Steps
  <2> HIDE DEF q
  <2>3. Handles(i) /\ req'[i] = q
    BY <1>2, <2>1, <2>2, HandlesTo
  <2> QED
    BY <2>1, <2>3
<1>10. BillsType'
  <2>1. flat' \subseteq Ids /\ astray' \subseteq DOMAIN lines'
    BY <1>1, <1>2, <1>4, <1>5, <1>6 DEF BillsType
  <2> QED
    BY <1>1, <1>2, <1>8, <1>9, <2>1 DEF BillsType, Handles
<1>11. ASSUME NEW o \in Ids, o \notin {x, y} PROVE Undisturbed(o)
  <2>1. \A n \in DOMAIN lines : lines[n].order = o \/ lines'[n].order = o => n \notin C
    BY <1>7, <1>11
  <2>2. \A n \in DOMAIN lines : lines[n].order = o \/ lines'[n].order = o =>
           lines'[n] = lines[n] /\ (n \in astray' <=> n \in astray)
    BY <1>1, <1>7, <2>1
  <2>3. o \in flat' <=> o \in flat
    BY <1>1, <1>4, <1>11
  <2> QED
    BY <1>1, <1>2, <1>6, <2>2, <2>3, LinesElsewhere
<1>12. \A o \in Ids : (Taken(o)' <=> Taken(o)) /\ Vacant(o)'
  <2> TAKE o \in Ids
  <2>1. Taken(o)' <=> Taken(o)
    BY <1>1 DEF Taken
  <2>2. CASE o \in {x, y}
    BY <1>4, <2>1, <2>2 DEF Vacant
  <2>3. CASE o \notin {x, y}
    BY <1>11, <2>1, <2>3 DEF Vacant, Undisturbed, ChecksInv
  <2> QED
    BY <2>1, <2>2, <2>3
<1>13. Sane(req[i])' /\ ~Inserted(req[i])'
  BY <1>0, <1>3, <1>4, <1>9, <1>12 DEF Sane, PcsOf, Inserted, Taken
<1>14. ASSUME NEW o \in Ids \ torn, o \in Touches(req[i]) PROVE Sees(i, o)
  <2>1. InOrder(o) /\ o \in {x, y} /\ o \in flat'
    BY <1>1, <1>4, <1>14 DEF ChecksInv
  <2>2. \A j \in Slots \ {i} : /\ ~Splitting(req[j], o) /\ ~Striking(req[j], o)
                               /\ ~(req[j].op = "split" /\ req[j].order = o)
    BY <1>3, <1>14, NobodyElse
  <2>3. r.op = "merge" => LinesOn(x)' = {}
    BY <1>4, <1>5, <1>6, <1>7 DEF LinesOn
  <2>4. Knows(req[i], o)'
    BY <1>0, <1>3, <1>9, <2>1, <2>3 DEF Knows
  <2>5. Reckoned(o)'
    <3>1. CASE r.op = "merge" /\ o = x
      <4>1. LinesOn(o)' = {}
        BY <2>3, <3>1
      <4>2. {n \in LinesOn(o)' : lines'[n].status # "off"} = {}
        BY <4>1
      <4>3. Subtotal(o)' = 0
        BY <4>2, SumEmpty DEF Subtotal
      <4> QED
        BY <4>3 DEF Reckoned
    <3>2. CASE r.op = "move" \/ o = y
      <4>1. Reckoning(req[i], o)'
        BY <1>0, <1>3, <1>9, <2>1, <3>2 DEF Reckoning
      <4> QED
        BY <4>1 DEF Reckoned
    <3> QED
      BY <1>3, <2>1, <3>1, <3>2
  <2>6. Fed(o)'
    <3>1. \A j \in Slots : ~Striking(req[j], o)
      BY <1>3, <2>2 DEF Striking
    <3> SUFFICES ASSUME orders[o].status = "cancelled", orders[o].paid # "split",
                        NEW n \in LinesOn(o)' \ astray'
                 PROVE  lines'[n].status = "off"
      BY <1>1 DEF Fed
    <3>2. \A m \in LinesOn(o) \ astray : lines[m].status = "off"
      BY <2>1, <3>1 DEF InOrder, Fed
    <3>3. n \in DOMAIN lines /\ lines'[n].order = o
      BY <1>6 DEF LinesOn
    <3>4. n \notin C
      <4>1. CASE n \in C
        <5>1. o = y
          BY <1>7, <3>3, <4>1
        <5>2. n \in astray'
          BY <1>1, <4>1, <5>1 DEF Closed
        <5> QED
          BY <5>2
      <4> QED
        BY <4>1
    <3>5. lines'[n] = lines[n] /\ n \in LinesOn(o) \ astray
      BY <1>1, <1>7, <3>3, <3>4 DEF LinesOn
    <3> QED
      BY <3>2, <3>5
  <2>7. Parts(o)' = Parts(o) /\ SharesOf(o)' = SharesOf(o)
    BY <1>1 DEF Parts, SharesOf
  <2>8. Covered(o)'
    BY <1>1, <1>3, <1>9, <2>1, <2>2, <2>7, CoveredAnew DEF InOrder
  <2> QED
    BY <1>3, <1>9, <1>14, <2>4, <2>5, <2>6, <2>8, SeesItsOwn
<1> QED
  BY <1>1, <1>4, <1>9, <1>10, <1>11, <1>12, <1>13, <1>14, RequestStep

LEMMA VoidStrikesStep ==
  ASSUME ChecksInv, NEW i \in Slots, VoidStrikes(i)
  PROVE  ChecksInv'
<1> DEFINE r == req[i]
<1>0. PICK x : x = req[i].order
  OBVIOUS
<1>1. /\ r.pc = "strike" /\ Answers(i)
      /\ lines' = [n \in DOMAIN lines |-> IF lines[n].order = x
                                          THEN [lines[n] EXCEPT !.status = "off"] ELSE lines[n]]
      /\ UNCHANGED <<orders, jobs, started, torn, flat, astray, faults>>
  BY <1>0 DEF VoidStrikes, At, history
<1>2. r \in Request /\ Sane(r) /\ BillsType
  BY DEF ChecksInv, BillsType
<1>3. r.op = "void"
  BY <1>1, <1>2 DEF Sane, PcsOf
<1>4. x \in Ids /\ Taken(x) /\ Touches(r) = {x}
  BY <1>0, <1>1, <1>2, <1>3, IdsAreNumbers DEF Sane, Touches
<1>5. DOMAIN lines' = DOMAIN lines
  BY <1>1
<1>6. \A n \in DOMAIN lines :
        /\ lines'[n] \in LineRow /\ lines'[n].order = lines[n].order
        /\ lines[n].order = x => lines'[n].status = "off"
        /\ lines[n].order # x => lines'[n] = lines[n]
  <2> TAKE n \in DOMAIN lines
  <2>1. lines[n] \in LineRow
    BY <1>2, LinesAreFinite
  <2>2. CASE lines[n].order = x
    <3>1. lines'[n] = [lines[n] EXCEPT !.status = "off"]
      BY <1>1, <2>2
    <3> QED
      BY <2>1, <2>2, <3>1 DEF LineRow
  <2>3. CASE lines[n].order # x
    BY <1>1, <2>1, <2>3
  <2> QED
    BY <2>2, <2>3
<1>7. lines' \in Seq(LineRow)
  <2>1. lines \in Seq(LineRow)
    BY <1>2 DEF BillsType
  <2>2. DOMAIN lines = 1 .. Len(lines) /\ Len(lines) \in Nat
    BY <2>1
  <2>3. \A n \in 1 .. Len(lines) : lines'[n] \in LineRow
    BY <1>6, <2>2
  <2>4. lines' = [n \in 1 .. Len(lines) |-> lines'[n]]
    BY <1>1, <2>2
  <2> QED
    BY <2>2, <2>3, <2>4
<1>8. Handles(i) /\ req'[i] = FreeSlot
  BY <1>1, <1>2, HandlesTo, FreeIsSane DEF Answers
<1>9. Sane(req[i])' /\ ~Inserted(req[i])' /\ (Touches(req[i]) = {})'
  BY <1>8, FreeIsSane DEF Sane, FreeSlot, PcsOf, Inserted, Touches
<1>10. BillsType'
  BY <1>1, <1>2, <1>5, <1>7, <1>8 DEF BillsType, Handles
<1>11. ASSUME NEW o \in Ids, o # x PROVE Undisturbed(o)
  BY <1>1, <1>2, <1>5, <1>6, <1>11, LinesElsewhere
<1>12. \A o \in Ids : (Taken(o)' <=> Taken(o)) /\ Vacant(o)'
  <2> TAKE o \in Ids
  <2>1. Taken(o)' <=> Taken(o)
    BY <1>1 DEF Taken
  <2>2. CASE o = x
    BY <1>4, <2>1, <2>2 DEF Vacant
  <2>3. CASE o # x
    BY <1>11, <2>1, <2>3 DEF Vacant, Undisturbed, ChecksInv
  <2> QED
    BY <2>1, <2>2, <2>3
<1>13. ASSUME NEW o \in Ids \ torn, o \in Touches(req[i]) PROVE Sees(i, o)
  <2>1. InOrder(o) /\ o = x
    BY <1>4, <1>13 DEF ChecksInv
  <2>2. \A n \in LinesOn(o)' : lines'[n].status = "off"
    BY <1>5, <1>6, <2>1 DEF LinesOn
  <2>3. {n \in LinesOn(o)' : lines'[n].status # "off"} = {}
    BY <2>2
  <2>4. Subtotal(o)' = 0
    BY <2>3, SumEmpty DEF Subtotal
  <2>5. Reckoned(o)'
    BY <2>4 DEF Reckoned
  <2>6. Fed(o)'
    BY <2>2 DEF Fed
  <2>7. Parts(o)' = Parts(o) /\ SharesOf(o)' = SharesOf(o)
    BY <1>1 DEF Parts, SharesOf
  <2>8. \A j \in Slots \ {i} : /\ ~Splitting(req[j], o)
                               /\ ~(req[j].op = "split" /\ req[j].order = o)
    BY <1>3, <1>13, NobodyElse
  <2>9. Covered(o)'
    BY <1>1, <1>3, <1>8, <2>1, <2>7, <2>8, CoveredAnew DEF InOrder
  <2> QED
    BY <1>3, <1>8, <1>9, <1>13, <2>5, <2>6, <2>9, SeesItsOwn
<1> QED
  BY <1>1, <1>4, <1>8, <1>9, <1>10, <1>11, <1>12, <1>13, RequestStep

-----------------------------------------------------------------------------
(* The parts of a split.                                                   *)

\* The shares so far, and one more; the last takes what is left.
LEMMA SharesAddUp ==
  ASSUME NEW t \in Int, NEW k \in 1 .. Seats
  PROVE  /\ ShareOf(t, k) \in Int
         /\ k # Seats => (k - 1) * EvenShare(t) + ShareOf(t, k) = (k + 1 - 1) * EvenShare(t)
         /\ k = Seats => (k - 1) * EvenShare(t) + ShareOf(t, k) = t
<1> DEFINE e == EvenShare(t)
<1>1. e \in Int /\ Seats \in Nat /\ k \in Int
  BY EvenShareIsInt, SeatsAssumption
<1>2. ShareOf(t, k) = IF k = Seats THEN t - e * (Seats - 1) ELSE e
  BY DEF ShareOf
<1> HIDE DEF e
<1>3. CASE k = Seats
  <2>1. ShareOf(t, k) = t - e * (k - 1) /\ e * (k - 1) \in Int
    BY <1>1, <1>2, <1>3
  <2>2. (k - 1) * e + (t - e * (k - 1)) = t
    BY <1>1
  <2> QED
    BY <1>3, <2>1, <2>2 DEF e
<1>4. CASE k # Seats
  <2>1. (k - 1) * e + e = (k + 1 - 1) * e
    BY <1>1
  <2> QED
    BY <1>1, <1>2, <1>4, <2>1 DEF e
<1> QED
  BY <1>3, <1>4

LEMMA SplitInsertsStep ==
  ASSUME ChecksInv, NEW i \in Slots, SplitInserts(i)
  PROVE  ChecksInv'
<1> DEFINE r == req[i]
<1>0. PICK x, c, s : x = req[i].order /\ c = Min(Spare) /\ s = ShareOf(req[i].total, req[i].seat)
  OBVIOUS
<1>1. /\ r.pc = "seat" /\ Spare # {}
      /\ orders' = [orders EXCEPT ![c] = [Absent EXCEPT !.status = "open", !.total = s,
                                                        !.parent = x, !.share = s]]
      /\ Goes(i, [r EXCEPT !.pc = IF r.seat = Seats THEN "retire" ELSE "seat",
                           !.seat = r.seat + 1])
      /\ UNCHANGED <<lines, jobs, started, torn, flat, astray, faults>>
  BY <1>0 DEF SplitInserts, At, history
<1>2. r \in Request /\ Sane(r) /\ BillsType
  BY DEF ChecksInv, BillsType
<1>3. r.op = "split" /\ r.seat \in 1 .. Seats /\ r.total \in Int /\ r.seat \in Nat
  BY <1>1, <1>2 DEF Sane, PcsOf, Request
<1>4. x \in Ids /\ Taken(x) /\ Touches(r) = {x} /\ x # 0
  BY <1>0, <1>1, <1>2, <1>3, IdsAreNumbers DEF Sane, Touches
<1>5. c \in Ids \ Tickets /\ ~Taken(c) /\ c # x
  <2>1. Spare \in SUBSET Nat /\ Spare \subseteq Ids
    BY IdsAreNumbers DEF Spare
  <2>2. c \in Spare
    BY <1>0, <1>1, <2>1, LeastOf
  <2> QED
    BY <1>4, <2>1, <2>2 DEF Spare, Present, Taken
<1>6. s \in Int
  BY <1>0, <1>3, SharesAddUp
<1>7. orders[c] = Absent /\ LinesOn(c) = {} /\ c \notin flat /\ Parts(c) = {}
  BY <1>5 DEF ChecksInv, Vacant
<1>8. /\ orders'[c].status = "open" /\ orders'[c].parent = x /\ orders'[c].share = s
      /\ orders'[c] \in OrderRow /\ orders[c].parent = 0
  <2>1. orders'[c] = [Absent EXCEPT !.status = "open", !.total = s, !.parent = x, !.share = s]
    BY <1>1, <1>2, <1>5 DEF BillsType
  <2>2. orders'[c] = [status |-> "open", voided |-> FALSE, paid |-> "unpaid",
                      total |-> s, extra |-> 0, parent |-> x, share |-> s]
    BY <2>1 DEF Absent
  <2>3. orders'[c] \in OrderRow
    BY <1>4, <1>6, <2>2 DEF OrderRow
  <2> QED
    BY <1>7, <2>2, <2>3 DEF Absent
<1>9. \A d \in Ids \ {c} : orders'[d] = orders[d]
  BY <1>1, <1>2 DEF BillsType
<1>10. orders' \in [Ids -> OrderRow]
  BY <1>1, <1>2, <1>8, <1>9 DEF BillsType
<1>11. /\ Handles(i) /\ req'[i].op = "split" /\ req'[i].order = r.order
       /\ req'[i].target = r.target /\ req'[i].total = r.total /\ req'[i].seat = r.seat + 1
       /\ req'[i].pc = (IF r.seat = Seats THEN "retire" ELSE "seat")
  <2> DEFINE pc == IF r.seat = Seats THEN "retire" ELSE "seat"
             k == r.seat + 1
             q == [r EXCEPT !.pc = pc, !.seat = k]
  <2>1. pc \in Pcs /\ k \in Nat /\ Goes(i, q)
    BY <1>1, <1>3 DEF Pcs
  <2> HIDE DEF pc, k
  <2>2. /\ q \in Request /\ q.op = r.op /\ q.pc = pc /\ q.order = r.order
        /\ q.target = r.target /\ q.total = r.total /\ q.seat = k
    BY <1>2, <2>1 DEF Request
  <2> HIDE DEF q
  <2>3. Handles(i) /\ req'[i] = q
    BY <1>2, <2>1, <2>2, HandlesTo
  <2> QED
    BY <1>3, <2>2, <2>3 DEF pc, k
<1>12. BillsType'
  BY <1>1, <1>2, <1>10, <1>11 DEF BillsType, Handles
<1>13. \A o \in Ids : Taken(o) => Taken(o)'
  BY <1>5, <1>9 DEF Taken
<1>14. Sane(req[i])' /\ ~Inserted(req[i])'
  BY <1>0, <1>2, <1>3, <1>4, <1>11, <1>13, SeatsAssumption DEF Sane, PcsOf, Inserted, Taken
<1>15. \A o \in Ids : LinesOn(o)' = LinesOn(o) /\ Subtotal(o)' = Subtotal(o)
  BY <1>1 DEF LinesOn, Subtotal
<1>16. ASSUME NEW o \in Ids, o # x PROVE Parts(o)' = Parts(o) /\ SharesOf(o)' = SharesOf(o)
  <2> DEFINE f == [d \in Ids |-> orders[d].share]
             g == [d \in Ids |-> orders'[d].share]
             S == Parts(o)
  <2>1. c \notin Parts(o) /\ c \notin Parts(o)'
    BY <1>8, <1>16, IdsAreNumbers DEF Parts
  <2>2. \A d \in Ids : d \in Parts(o) <=> d \in Parts(o)'
    BY <1>9, <2>1 DEF Parts
  <2>3. Parts(o)' = Parts(o)
    BY <2>2 DEF Parts
  <2>4. IsFiniteSet(S) /\ S \subseteq Ids
    BY <1>2, PartsAreFinite
  <2>5. \A d \in S : f[d] = g[d]
    BY <1>9, <2>1, <2>4
  <2> HIDE DEF f, g, S
  <2>6. SumOver(f, S) = SumOver(g, S)
    BY <2>4, <2>5, SumSame
  <2>7. SharesOf(o)' = SharesOf(o)
    BY <2>3, <2>6 DEF SharesOf, f, g, S
  <2> QED
    BY <2>3, <2>7
<1>17. Parts(x)' = Parts(x) \cup {c} /\ SharesOf(x)' = SharesOf(x) + s
  <2> DEFINE f == [d \in Ids |-> orders[d].share]
             g == [d \in Ids |-> orders'[d].share]
             S == Parts(x)
  <2>1. c \notin Parts(x) /\ c \in Parts(x)'
    BY <1>4, <1>5, <1>8 DEF Parts
  <2>2. \A d \in Ids \ {c} : d \in Parts(x) <=> d \in Parts(x)'
    BY <1>9 DEF Parts
  <2>3. Parts(x)' = Parts(x) \cup {c}
    BY <1>5, <2>1, <2>2 DEF Parts
  <2>4. IsFiniteSet(S) /\ S \subseteq Ids /\ c \notin S
    BY <1>2, <2>1, PartsAreFinite
  <2>5. \A d \in S : f[d] = g[d]
    BY <1>9, <2>4
  <2>6. \A d \in S \cup {c} : g[d] \in Int
    BY <1>5, <1>10, <2>4 DEF OrderRow
  <2>7. g[c] = s
    BY <1>5, <1>8
  <2> HIDE DEF f, g, S
  <2>8. SumOver(g, S \cup {c}) = g[c] + SumOver(g, S)
    BY <2>4, <2>6, SumAdd
  <2>9. SumOver(f, S) = SumOver(g, S) /\ SumOver(f, S) \in Int
    <3>1. SumOver(f, S) = SumOver(g, S)
      BY <2>4, <2>5, SumSame
    <3>2. SumOver(g, S) \in Int
      BY <2>4, <2>6, SumType
    <3> QED
      BY <3>1, <3>2
  <2>10. SharesOf(x)' = SumOver(g, S \cup {c}) /\ SharesOf(x) = SumOver(f, S)
    BY <2>3 DEF SharesOf, f, g, S
  <2> QED
    BY <1>6, <2>3, <2>7, <2>8, <2>9, <2>10
<1>18. ASSUME NEW o \in Ids, o \notin {x, c} PROVE Undisturbed(o)
  BY <1>1, <1>9, <1>15, <1>16, <1>18 DEF Undisturbed
<1>19. \A o \in Ids : Vacant(o)'
  <2> TAKE o \in Ids
  <2>1. CASE o \in {x, c}
    BY <1>4, <1>8, <1>13, <2>1 DEF Vacant, Taken
  <2>2. CASE o \notin {x, c}
    BY <1>9, <1>18, <2>2 DEF Vacant, Undisturbed, ChecksInv, Taken
  <2> QED
    BY <2>1, <2>2
<1>20. ASSUME NEW j \in Slots
       PROVE  c \notin Touches(req[j])' /\ ~(req'[j].op = "split" /\ req'[j].order = c)
  <2>1. CASE j = i
    BY <1>0, <1>4, <1>5, <1>11, <2>1 DEF Touches
  <2>2. CASE j # i
    <3>1. req'[j] = req[j] /\ Sane(req[j])
      BY <1>11, <2>2 DEF Handles, ChecksInv
    <3>2. req[j] \in Request /\ c # 0
      BY <1>2, <1>5, IdsAreNumbers DEF BillsType
    <3>3. CASE req[j].op = "none"
      <4>1. req[j] = FreeSlot
        BY <3>1, <3>3 DEF Sane
      <4> QED
        BY <3>1, <3>2, <4>1 DEF FreeSlot, Touches
    <3>4. CASE req[j].op # "none" /\ req[j].pc # "insert"
      BY <1>5, <3>1, <3>2, <3>4 DEF Sane, Touches
    <3>5. CASE req[j].pc = "insert"
      <4>1. req[j].op = "create"
        BY <3>1, <3>2, <3>5 DEF Sane, PcsOf, Request, AllOps
      <4> QED
        BY <1>5, <3>1, <3>2, <4>1 DEF Sane, Touches
    <3> QED
      BY <3>3, <3>4, <3>5
  <2> QED
    BY <2>1, <2>2
<1>21. ASSUME c \notin torn PROVE InOrder(c)'
  <2>1. Subtotal(c)' = 0
    BY <1>5, <1>7, <1>15, SubtotalOfNothing
  <2>2. Parts(c)' = {}
    BY <1>5, <1>7, <1>16
  <2>3. Reckoned(c)' /\ Fed(c)' /\ Covered(c)'
    BY <1>8, <1>20, <2>1, <2>2 DEF Reckoned, Fed, Covered
  <2> QED
    BY <1>20, <2>3 DEF InOrder, Alone
<1>22. ASSUME NEW o \in Ids \ torn, o \in Touches(req[i]) PROVE Sees(i, o)
  <2>1. InOrder(o) /\ o = x
    BY <1>4, <1>22 DEF ChecksInv
  <2>2. \A j \in Slots \ {i} : /\ ~Splitting(req[j], o) /\ ~Reckoning(req[j], o)
                               /\ ~Striking(req[j], o)
    BY <1>3, <1>22, NobodyElse
  <2>3. Splitting(req[i], o)
    BY <1>0, <1>1, <1>3, <2>1, <2>2 DEF InOrder, Covered
  <2>4. orders[x].total = r.total /\ SharesOf(x) = (r.seat - 1) * EvenShare(r.total)
    BY <1>1, <2>1, <2>3 DEF Splitting
  <2>5. /\ r.seat # Seats => SharesOf(x)' = (r.seat + 1 - 1) * EvenShare(r.total)
        /\ r.seat = Seats => SharesOf(x)' = r.total
    BY <1>0, <1>3, <1>17, <2>4, SharesAddUp
  <2>6. orders'[x] = orders[x]
    BY <1>4, <1>5, <1>9
  <2>7. Splitting(req[i], o)'
    BY <1>0, <1>3, <1>11, <2>1, <2>4, <2>5, <2>6 DEF Splitting
  <2>8. \A j \in Slots : ~Reckoning(req[j], o) /\ ~Striking(req[j], o)
    BY <1>3, <2>2 DEF Reckoning, Striking
  <2>9. Reckoned(o)'
    BY <1>1, <1>4, <1>15, <2>1, <2>6, <2>8 DEF InOrder, Reckoned
  <2>10. Fed(o)'
    BY <1>1, <2>1, <2>6, <2>8, FedAnew DEF InOrder
  <2>11. Covered(o)'
    BY <2>7 DEF Covered
  <2>12. Knows(req[i], o)'
    BY <1>11 DEF Knows
  <2> QED
    BY <1>3, <1>11, <1>22, <2>9, <2>10, <2>11, <2>12, SeesItsOwn
<1>23. \A o \in Ids \ torn' : o \notin Touches(req[i]) => Undisturbed(o) \/ InOrder(o)'
  <2> TAKE o \in Ids \ torn'
  <2>1. CASE o = c
    BY <1>1, <1>21, <2>1
  <2>2. CASE o # c
    BY <1>4, <1>18, <2>2
  <2> QED
    BY <2>1, <2>2
<1> QED
  BY <1>1, <1>11, <1>12, <1>13, <1>14, <1>19, <1>22, <1>23, RequestStep

-----------------------------------------------------------------------------
\* The orders taken before, with their bills, satisfy the invariant.
LEMMA BillsStart ==
  ASSUME BillsInit
  PROVE  ChecksInv
<1>1. /\ lines = Standing /\ jobs = [o \in Ids |-> 0] /\ req = [i \in Slots |-> FreeSlot]
      /\ started = 0 /\ torn = {} /\ flat = {} /\ astray = {} /\ faults = 0
  BY DEF BillsInit
<1>2. \A o \in Ids : orders[o] = IF o \in DOMAIN Extra
                                 THEN [Absent EXCEPT !.status = "open", !.extra = Extra[o],
                                                     !.total = Subtotal(o) + Extra[o]]
                                 ELSE Absent
  BY DEF BillsInit
<1>3. lines \in Seq(LineRow)
  <2> DEFINE L == [order : DOMAIN Extra, no : Nat, price : Nat \ {0}, status : {"open"}]
  <2>1. lines \in Seq(L) /\ DOMAIN Extra \subseteq Ids
    BY <1>1, StandingAssumption
  <2>2. \A l \in L : l \in LineRow
    BY <2>1 DEF LineRow
  <2> HIDE DEF L
  <2> QED
    BY <2>1, <2>2
<1>4. \A n \in DOMAIN lines : lines[n] \in LineRow /\ lines[n].order \in DOMAIN Extra
  <2> DEFINE L == [order : DOMAIN Extra, no : Nat, price : Nat \ {0}, status : {"open"}]
  <2>1. Standing \in Seq(L)
    BY StandingAssumption
  <2> HIDE DEF L
  <2>2. \A n \in DOMAIN lines : lines[n] \in L
    BY <1>1, <2>1
  <2>3. \A n \in DOMAIN lines : lines[n] \in LineRow
    BY <1>3
  <2> QED
    BY <2>2, <2>3 DEF L
<1>5. \A o : IsFiniteSet({n \in LinesOn(o) : lines[n].status # "off"})
  <2> TAKE o
  <2>1. DOMAIN lines = 1 .. Len(lines) /\ Len(lines) \in Nat
    BY <1>3
  <2>2. IsFiniteSet(DOMAIN lines)
    BY <2>1, FS_Interval
  <2>3. {n \in LinesOn(o) : lines[n].status # "off"} \subseteq DOMAIN lines
    BY DEF LinesOn
  <2> QED
    BY <2>2, <2>3, FS_Subset
<1>6. \A o : Subtotal(o) \in Nat
  <2> TAKE o
  <2> DEFINE S == {n \in LinesOn(o) : lines[n].status # "off"}
             f == [n \in DOMAIN lines |-> lines[n].price]
  <2>1. \A n \in S : f[n] \in Nat
    BY <1>4 DEF LinesOn, LineRow
  <2>2. IsFiniteSet(S)
    BY <1>5
  <2> HIDE DEF S, f
  <2>3. SumOver(f, S) \in Nat
    BY <2>1, <2>2, SumNat
  <2> QED
    BY <2>3 DEF Subtotal, S, f
<1>7. ASSUME NEW o \in Ids
      PROVE  /\ orders[o] \in OrderRow /\ orders[o].parent = 0
             /\ orders[o].status # "cancelled"
             /\ IF o \in DOMAIN Extra
                THEN Taken(o) /\ orders[o].total = Subtotal(o) + orders[o].extra
                ELSE orders[o] = Absent /\ ~Taken(o) /\ LinesOn(o) = {}
  <2>1. CASE o \in DOMAIN Extra
    <3> DEFINE tot == Subtotal(o) + Extra[o]
    <3>1. Extra[o] \in Nat /\ tot \in Int
      BY <1>6, <2>1, StandingAssumption
    <3>2. orders[o] = [Absent EXCEPT !.status = "open", !.extra = Extra[o], !.total = tot]
      BY <1>2, <2>1
    <3> HIDE DEF tot
    <3>3. orders[o] = [status |-> "open", voided |-> FALSE, paid |-> "unpaid", total |-> tot,
                       extra |-> Extra[o], parent |-> 0, share |-> 0]
      BY <3>2 DEF Absent
    <3>4. orders[o] \in OrderRow
      BY <3>1, <3>3 DEF OrderRow
    <3>5. /\ orders[o].parent = 0 /\ orders[o].status = "open"
          /\ orders[o].total = tot /\ orders[o].extra = Extra[o]
      BY <3>3
    <3> QED
      BY <2>1, <3>4, <3>5 DEF Taken, tot
  <2>2. CASE o \notin DOMAIN Extra
    <3>1. orders[o] = Absent
      BY <1>2, <2>2
    <3>2. LinesOn(o) = {}
      BY <1>4, <2>2 DEF LinesOn
    <3> QED
      BY <2>2, <3>1, <3>2 DEF Absent, OrderRow, Taken
  <2> QED
    BY <2>1, <2>2
<1>8. orders = [o \in Ids |-> orders[o]]
  BY DEF BillsInit
<1>9. orders \in [Ids -> OrderRow]
  BY <1>7, <1>8
<1>10. BillsType
  <2>1. jobs \in [Ids -> Nat] /\ req \in [Slots -> Request]
    BY <1>1, FreeIsSane
  <2> QED
    BY <1>1, <1>3, <1>9, <2>1 DEF BillsType
<1>11. \A i \in Slots : req[i] = FreeSlot /\ Sane(req[i]) /\ Touches(req[i]) = {}
  BY <1>1, FreeIsSane, FreeIsSaneToo
<1>12. \A o \in Ids : Parts(o) = {}
  BY <1>7, IdsAreNumbers DEF Parts
<1>13. \A o \in Ids : Vacant(o)
  BY <1>1, <1>7, <1>12 DEF Vacant
<1>14. InsertedOnce
  BY <1>11 DEF InsertedOnce, Inserted, FreeSlot
<1>15. ASSUME NEW o \in Ids PROVE InOrder(o)
  <2>1. Alone(o) /\ \A i \in Slots : o \in Touches(req[i]) => Knows(req[i], o)
    BY <1>11 DEF Alone
  <2>2. Reckoned(o)
    <3>1. CASE o \in DOMAIN Extra
      BY <1>1, <1>7, <3>1 DEF Reckoned
    <3>2. CASE o \notin DOMAIN Extra
      <4>1. Subtotal(o) = 0
        BY <1>7, <3>2, SubtotalOfNothing
      <4> QED
        BY <4>1 DEF Reckoned
    <3> QED
      BY <3>1, <3>2
  <2>3. Fed(o)
    BY <1>7 DEF Fed
  <2>4. Covered(o)
    BY <1>11, <1>12 DEF Covered, FreeSlot
  <2> QED
    BY <2>1, <2>2, <2>3, <2>4 DEF InOrder
<1> QED
  BY <1>10, <1>11, <1>13, <1>14, <1>15 DEF ChecksInv

LEMMA BillsStep ==
  ASSUME ChecksInv, [BillsNext]_billsVars
  PROVE  ChecksInv'
<1>1. CASE UNCHANGED billsVars
  <2>1. UNCHANGED <<orders, lines, jobs, req, started, torn, flat, astray, faults>>
    BY <1>1 DEF billsVars, rows, history
  <2>2. \A o \in Ids : Undisturbed(o) /\ Vacant(o)' /\ (Taken(o)' <=> Taken(o))
    BY <2>1, NothingDisturbed DEF ChecksInv
  <2>3. BillsType'
    BY <2>1 DEF ChecksInv, BillsType
  <2>4. \A j \in Slots : Sane(req[j])'
    BY <2>1 DEF ChecksInv, Sane, Taken
  <2>5. InsertedOnce'
    BY <2>1 DEF ChecksInv, InsertedOnce, Inserted
  <2>6. ASSUME NEW o \in Ids \ torn' PROVE InOrder(o)'
    <3>1. InOrder(o) /\ Undisturbed(o)
      BY <2>1, <2>2 DEF ChecksInv
    <3>2. Alone(o)'
      BY <2>1, <3>1 DEF InOrder, Alone, Touches
    <3>3. \A j \in Slots : (o \in Touches(req[j]) => Knows(req[j], o))'
      BY <2>1, <3>1, KnowsStays DEF InOrder, Touches
    <3>4. \A j \in Slots : /\ Reckoning(req[j], o) => Reckoning(req[j], o)'
                           /\ Striking(req[j], o) => Striking(req[j], o)'
                           /\ Splitting(req[j], o) => Splitting(req[j], o)'
                           /\ req'[j] = req[j]
      BY <2>1, <3>1 DEF Reckoning, Striking, Splitting, Undisturbed
    <3>5. \A j \in Slots : req'[j].op = "split" /\ req'[j].order = o =>
             \/ req[j].op = "split" /\ req[j].order = o /\ req[j].pc # "check"
             \/ req'[j].pc = "check" \/ Splitting(req[j], o)'
      BY <3>4
    <3>6. Reckoned(o)' /\ Fed(o)' /\ Covered(o)'
      BY <3>1, <3>4, <3>5, ReckonedStays, FedStays, CoveredStays DEF InOrder
    <3> QED
      BY <3>2, <3>3, <3>6 DEF InOrder
  <2> QED
    BY <2>2, <2>3, <2>4, <2>5, <2>6 DEF ChecksInv
<1>2. ASSUME NEW i \in Slots, Arrivals(i) PROVE ChecksInv'
  BY <1>2, ArrivalsStep
<1>3. ASSUME NEW i \in Slots, Creates(i) PROVE ChecksInv'
  BY <1>3, InsertsOrderStep, InsertsLinesStep, LinesFailStep, LooksForJobStep, InsertsJobStep
     DEF Creates
<1>4. ASSUME NEW i \in Slots, Rounds(i) PROVE ChecksInv'
  BY <1>4, AppendChecksStep, AppendNumbersStep, ReadsLinesStep, AppendBillsStep DEF Rounds
<1>5. ASSUME NEW i \in Slots, Splits(i) PROVE ChecksInv'
  BY <1>5, SplitChecksStep, SplitInsertsStep, SplitRetiresStep DEF Splits
<1>6. ASSUME NEW i \in Slots, Merges(i) PROVE ChecksInv'
  BY <1>6, MergeReadsSourceStep, MergeReadsTargetStep, CarriesStep, MergeBillsStep,
     MergeClosesStep, MoveBillsStep DEF Merges
<1>7. ASSUME NEW i \in Slots, Voids(i) PROVE ChecksInv'
  BY <1>7, VoidChecksStep, VoidCancelsStep, VoidStrikesStep DEF Voids
<1>8. ASSUME NEW i \in Slots, Dies(i) PROVE ChecksInv'
  BY <1>8, DiesStep
<1>9. ASSUME NEW x \in Ids, Settles(x) PROVE ChecksInv'
  BY <1>9, SettlesStep
<1> QED
  BY <1>1, <1>2, <1>3, <1>4, <1>5, <1>6, <1>7, <1>8, <1>9 DEF BillsNext

\* The inductive invariant of the checks: the types, what each request has found
\* out, and that an order nobody tore is reckoned, fed and covered.
THEOREM ChecksAreKept == BillsSpec => []ChecksInv
<1>1. BillsInit => ChecksInv
  BY BillsStart
<1>2. ChecksInv /\ [BillsNext]_billsVars => ChecksInv'
  BY BillsStep
<1> QED
  BY <1>1, <1>2, PTL DEF BillsSpec

\* With nobody about an order, what is said of it but for a request holds outright.
LEMMA KeptWhenQuiet ==
  ASSUME ChecksInv, NEW o \in Ids \ torn, Quiet(o)
  PROVE  /\ Subtotal(o) > 0 =>
              orders[o].total = Subtotal(o) + (IF o \in flat THEN 0 ELSE orders[o].extra)
         /\ orders[o].status = "cancelled" /\ orders[o].paid # "split" =>
              \A n \in LinesOn(o) \ astray : lines[n].status = "off"
         /\ Parts(o) # {} => orders[o].voided
         /\ Parts(o) # {} /\ o \notin flat => SharesOf(o) = orders[o].total
<1>1. InOrder(o)
  BY DEF ChecksInv
<1>2. ASSUME NEW i \in Slots
      PROVE  ~Reckoning(req[i], o) /\ ~Striking(req[i], o) /\ ~Splitting(req[i], o)
  <2>1. req[i].op # "none" => req[i].order \in Ids
    BY DEF ChecksInv, Sane
  <2> QED
    BY <2>1, Elsewhere DEF Quiet
<1> QED
  BY <1>1, <1>2 DEF InOrder, Reckoned, Fed, Covered

\* An open check whose requests neither met nor failed comes to the lines on it and
\* its extras: BillIsItsLines (orders.js:1636-1653, 1823-1829, 1854-1859).
THEOREM BillsAreTheirLines == BillsSpec => []BillIsItsLines
<1>1. ChecksInv => BillIsItsLines
  <2> SUFFICES ASSUME ChecksInv, NEW o \in Ids \ torn, Quiet(o), Subtotal(o) > 0
               PROVE  orders[o].total = Subtotal(o) + (IF o \in flat THEN 0 ELSE orders[o].extra)
    BY DEF BillIsItsLines
  <2> QED
    BY KeptWhenQuiet
<1> QED
  BY <1>1, ChecksAreKept, PTL

\* A check that was split is retired and its parts are worth what it was:
\* SplitCoversBill (orders.js:1702-1806).
THEOREM SplitsCoverBills == BillsSpec => []SplitCoversBill
<1>1. ChecksInv => SplitCoversBill
  <2> SUFFICES ASSUME ChecksInv, NEW o \in Ids \ (torn \cup flat), Parts(o) # {}, Quiet(o)
               PROVE  orders[o].voided /\ SharesOf(o) = orders[o].total
    BY DEF SplitCoversBill, SharesOf
  <2> QED
    BY KeptWhenQuiet
<1> QED
  BY <1>1, ChecksAreKept, PTL

\* No void, merge or split leaves a line that is to be made on an order that is
\* gone: FoodIsBilled (orders.js:1822-1830, 2513-2519).
THEOREM FoodStaysBilled == BillsSpec => []FoodIsBilled
<1>1. ChecksInv => FoodIsBilled
  <2> SUFFICES ASSUME ChecksInv, NEW n \in DOMAIN lines \ astray, NEW o, o = lines[n].order,
                      lines[n].status = "open", Quiet(o), o \notin torn,
                      orders[o].status = "cancelled", orders[o].paid # "split"
               PROVE  FALSE
    BY DEF FoodIsBilled
  <2>1. o \in Ids /\ n \in LinesOn(o)
    BY LinesAreFinite DEF ChecksInv, LineRow, LinesOn
  <2>2. lines[n].status = "off"
    BY <2>1, KeptWhenQuiet
  <2> QED
    BY <2>2
<1> QED
  BY <1>1, ChecksAreKept, PTL

=============================================================================
