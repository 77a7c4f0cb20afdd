-------------------------------- MODULE Quota --------------------------------
(***************************************************************************)
(* The read meter and the modes it sets (lib/quota.js).  Each isolate of   *)
(* the Worker counts the rows its own statements read, stores the day's    *)
(* greatest count in KV, and looks there for what the others stored; the   *)
(* mode follows the greater of the two.  No lock: a get and the put that   *)
(* follows it, or a get and the use of its answer, have anything between   *)
(* them, midnight (UTC) included.                                          *)
(*                                                                         *)
(* KV is external: a get is answered with what was stored at some moment   *)
(* since it was sent, a put stores.  Minutes are not counted: whether the  *)
(* last look is over a minute old, or the last store half an hour, changes *)
(* when the time passes.                                                   *)
(***************************************************************************)
EXTENDS Integers, FiniteSets

CONSTANTS
  MaxIsolates,       \* bound: the Worker's instances
  Budget,            \* rows the plan allows a day
  FLUSH_DELTA_ROWS,  \* unstored rows that are worth a put
  RowCounts,         \* how many rows a statement may read
  Loads              \* bounds: how often each thing happens in a behaviour, a set of
                     \* records; a behaviour keeps within one of them

Isolates == 1 .. MaxIsolates

\* What a load limits: the isolates that serve, and how often each thing happens.
LoadKinds == {"isolates", "reads", "looks", "kvFaults", "pins", "midnights", "evictions",
              "polls", "writes", "crons", "dbFaults", "changes", "connects", "leaves", "overlaps"}

ASSUME QuotaAssumption ==
  /\ MaxIsolates \in Nat /\ Budget \in Nat \ {0}
  /\ FLUSH_DELTA_ROWS \in Nat /\ RowCounts \subseteq Nat \ {0}
ASSUME LoadsAssumption ==
  /\ Loads \subseteq [LoadKinds -> Nat]
  /\ \A load \in Loads : load["isolates"] <= MaxIsolates

ModeNames == {"normal", "conserve", "emergency", "critical"}
Unpinned == ""           \* no mode is pinned
Idle == [at |-> "idle"]

VARIABLES
  today,      \* the date, UTC
  meter,      \* meter[i]: the module state of isolate i
  looks,      \* looks[i]: refreshes that wait for KV
  flush,      \* flush[i]: the store under way, or Idle
  pinning,    \* pinning[i]: a mode stored in KV that i has yet to take over, or None
  kv,         \* the keys: day[d], the count stored for day d, and override
  rowsRead,   \* history: rows read on each day by all isolates
  crossed,    \* history: a look sent before midnight was taken for the day after
  left        \* what may still happen of each kind

quotaVars == <<today, meter, looks, flush, pinning, kv, rowsRead, crossed>>

Nothing == "nothing"

\* Use one of what the load still allows.
Spend(what) ==
  /\ left[what] > 0
  /\ left' = [left EXCEPT ![what] = @ - 1]

\* The isolates that serve under this load.
Serving == 1 .. left["isolates"]

-----------------------------------------------------------------------------
(* One isolate's state.                                                    *)

\* A fresh isolate: lastFlushAt is 0, so a store is due; kv.at is 0, so is a look.
Cold(day) ==
  [day |-> day, local |-> 0, reads |-> 0, override |-> Unpinned, looked |-> FALSE,
   due |-> TRUE, flushedLocal |-> 0, mode |-> "normal", cronTicks |-> 0]

\* The count it had of yesterday is left in the view.
RolloverKeepsView(m) ==
  IF m.day = today THEN m
  ELSE [m EXCEPT !.day = today, !.local = 0, !.looked = FALSE, !.due = TRUE, !.flushedLocal = 0]

RolloverIfNeeded(m) ==
  IF m.day = today THEN m
  ELSE [m EXCEPT !.day = today, !.local = 0, !.reads = 0, !.looked = FALSE,
                 !.due = TRUE, !.flushedLocal = 0]

Greater(a, b) == IF a > b THEN a ELSE b

EstimateToday(m) == Greater(m.reads, m.local)

ModeForEstimate(rows, override) ==
  LET Reaches(percent) == rows * 100 >= percent * Budget
  IN CASE override # Unpinned -> override
       [] override = Unpinned /\ Reaches(95) -> "critical"
       [] override = Unpinned /\ Reaches(85) /\ ~Reaches(95) -> "emergency"
       [] override = Unpinned /\ Reaches(70) /\ ~Reaches(85) -> "conserve"
       [] OTHER -> "normal"

RecomputeMode(m) == [m EXCEPT !.mode = ModeForEstimate(EstimateToday(m), m.override)]

Mode(i) == meter[i].mode

-----------------------------------------------------------------------------
QuotaInit ==
  /\ today = 0
  /\ meter = [i \in Isolates |-> Cold(0)]
  /\ looks = [i \in Isolates |-> {}]
  /\ flush = [i \in Isolates |-> Idle]
  /\ pinning = [i \in Isolates |-> Nothing]
  /\ kv = [day |-> [d \in {0, 1} |-> 0], override |-> Unpinned]
  /\ rowsRead = [d \in {0, 1} |-> 0]
  /\ crossed = FALSE
  /\ left \in Loads

\* A statement was answered, and its meta says how many rows it read.
CountRowsRead(i, n) ==
  /\ Spend("reads")
  /\ meter' = [meter EXCEPT ![i] =
       LET m == RolloverIfNeeded(@) IN RecomputeMode([m EXCEPT !.local = @ + n])]
  /\ rowsRead' = [rowsRead EXCEPT ![today] = @ + n]
  /\ UNCHANGED <<today, looks, flush, pinning, kv, crossed>>

\* The second half of a tick: store, unless a store is under way, when the rows
\* since the last one are many or the last one is long ago.
WorthAPut(m) ==
  /\ m.local > m.flushedLocal
  /\ m.local - m.flushedLocal >= FLUSH_DELTA_ROWS \/ m.due

FlushIfDue(i, m) ==
  /\ meter' = [meter EXCEPT ![i] = m]
  /\ flush' = IF WorthAPut(m) /\ flush[i] = Idle
              THEN [flush EXCEPT ![i] = [at |-> "get", key |-> m.day]] ELSE flush

\* A request or the cron ticks: look into KV, unless it did within the minute.
QuotaTick(i) ==
  LET m == RolloverIfNeeded(meter[i]) IN
  /\ IF m.looked
     THEN FlushIfDue(i, RecomputeMode(m)) /\ UNCHANGED <<looks, left>>
     ELSE /\ Spend("looks")
          /\ meter' = [meter EXCEPT ![i] = [m EXCEPT !.looked = TRUE]]
          /\ looks' = [looks EXCEPT ![i] = @ \cup
               {[key |-> m.day, reads |-> kv.day[m.day], override |-> kv.override]}]
          /\ flush' = flush
  /\ UNCHANGED <<today, pinning, kv, rowsRead, crossed>>

\* KV answers, for the day it was asked about: with what it held then, or now.
LookAnswered(i) ==
  \E look \in looks[i] :
    /\ \E reads \in {look.reads, kv.day[look.key]}, override \in {look.override, kv.override} :
         FlushIfDue(i, RecomputeMode([meter[i] EXCEPT !.reads = reads, !.override = override]))
    /\ looks' = [looks EXCEPT ![i] = @ \ {look}]
    /\ crossed' = (crossed \/ look.key # meter[i].day)
    /\ UNCHANGED <<today, pinning, kv, rowsRead, left>>

\* KV fails: the last known numbers stand.
LookFails(i) ==
  /\ Spend("kvFaults")
  /\ \E look \in looks[i] : looks' = [looks EXCEPT ![i] = @ \ {look}]
  /\ FlushIfDue(i, RecomputeMode(meter[i]))
  /\ UNCHANGED <<today, pinning, kv, rowsRead, crossed>>

\* The stored count is known: put the greatest of the counts, if that is greater.
Stored(i) ==
  /\ flush' = [flush EXCEPT ![i] = Idle]
  /\ meter' = [meter EXCEPT ![i] = [@ EXCEPT !.due = FALSE, !.flushedLocal = meter[i].local]]

FlushLooked(i) ==
  LET key == flush[i].key
      merged == Greater(kv.day[key], EstimateToday(meter[i]))
  IN
  /\ flush[i].at = "get"
  /\ IF merged > kv.day[key]
     THEN flush' = [flush EXCEPT ![i] = [at |-> "put", key |-> key, merged |-> merged]] /\ meter' = meter
     ELSE Stored(i)
  /\ UNCHANGED <<today, looks, pinning, kv, rowsRead, crossed, left>>

FlushPuts(i) ==
  /\ flush[i].at = "put"
  /\ kv' = [kv EXCEPT !.day[flush[i].key] = flush[i].merged]
  /\ Stored(i)
  /\ UNCHANGED <<today, looks, pinning, rowsRead, crossed, left>>

FlushFails(i) ==
  /\ Spend("kvFaults")
  /\ flush[i] # Idle
  /\ flush' = [flush EXCEPT ![i] = Idle]
  /\ UNCHANGED <<today, meter, looks, pinning, kv, rowsRead, crossed>>

\* A manager pins a mode, or gives it back to the meter: first in KV, then here.
PinModeInKv(i, mode) ==
  /\ Spend("pins")
  /\ pinning[i] = Nothing
  /\ kv' = [kv EXCEPT !.override = mode]
  /\ pinning' = [pinning EXCEPT ![i] = mode]
  /\ UNCHANGED <<today, meter, looks, flush, rowsRead, crossed>>

PinMode(i) ==
  /\ pinning[i] # Nothing
  /\ meter' = [meter EXCEPT ![i] = RecomputeMode([@ EXCEPT !.override = pinning[i]])]
  /\ pinning' = [pinning EXCEPT ![i] = Nothing]
  /\ UNCHANGED <<today, looks, flush, kv, rowsRead, crossed, left>>

\* Time: a minute since the last look, half an hour since the last store, midnight.
MinutePasses(i) ==
  /\ meter[i].looked
  /\ meter' = [meter EXCEPT ![i].looked = FALSE]
  /\ UNCHANGED <<today, looks, flush, pinning, kv, rowsRead, crossed, left>>

HalfHourPasses(i) ==
  /\ ~meter[i].due
  /\ meter' = [meter EXCEPT ![i] = [@ EXCEPT !.due = TRUE, !.looked = FALSE]]
  /\ UNCHANGED <<today, looks, flush, pinning, kv, rowsRead, crossed, left>>

Midnight ==
  /\ Spend("midnights")
  /\ today = 0
  /\ today' = 1
  /\ UNCHANGED <<meter, looks, flush, pinning, kv, rowsRead, crossed>>

\* What the meter loses when its isolate is evicted.
Evicted(i) ==
  /\ meter' = [meter EXCEPT ![i] = Cold(today)]
  /\ looks' = [looks EXCEPT ![i] = {}]
  /\ flush' = [flush EXCEPT ![i] = Idle]
  /\ pinning' = [pinning EXCEPT ![i] = Nothing]
  /\ UNCHANGED <<today, kv, rowsRead, crossed>>

QuotaNext ==
  \/ \E i \in Serving, n \in RowCounts : CountRowsRead(i, n)
  \/ \E i \in Serving, mode \in ModeNames \cup {Unpinned} : PinModeInKv(i, mode)
  \/ \E i \in Serving : \/ QuotaTick(i) \/ LookAnswered(i) \/ LookFails(i)
                         \/ FlushLooked(i) \/ FlushPuts(i) \/ FlushFails(i)
                         \/ PinMode(i) \/ MinutePasses(i) \/ HalfHourPasses(i)
  \/ Midnight

-----------------------------------------------------------------------------
\* The day's stored count never says more was read today than was: a breaker that
\* counts a reading twice, or yesterday's for today's, would stop the boards and the
\* sweeps of a day that has budget (quota.js:95-105, 182-186).  It does say so
\* (crossed) where a look sent before midnight is answered after the isolate began
\* the new day (159-168): yesterday's count becomes today's.
TodayIsNotOverstated == kv.day[today] <= rowsRead[today] \/ crossed
=============================================================================
