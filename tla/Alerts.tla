-------------------------------- MODULE Alerts --------------------------------
(***************************************************************************)
(* The alerts of the floor: the sweep that judges every row by the SLA     *)
(* rules and reconciles the table of alerts with what it found, the ping   *)
(* of a ticket that just became ready, and the acknowledgements            *)
(* (handlers/alerts.js, lib/rules.js, raiseReadyNowPing of                 *)
(* handlers/orders.js).                                                    *)
(*                                                                         *)
(* No index makes an alert unique: a sweep reads the rows, then the live   *)
(* alerts, and then writes one statement for each difference, while pings, *)
(* acknowledgements and another sweep do the same.  What the rules judge   *)
(* is the state of the other modules; here it changes as it likes.         *)
(***************************************************************************)
EXTENDS Integers, FiniteSets, Functions

CONSTANTS
  Things,       \* what the rules judge: orders, jobs, tables, items, ...
  RowsOf,       \* RowsOf[t]: the rows thing t may have in the run
  FirstRows,    \* FirstRows[t]: those it may have at first
  Th,           \* the thresholds, by name
  People,       \* who uses the alerts: a set of [role, id]
  Lanes,        \* sweeps, pings and acknowledgements under way at once
  Cron,         \* the slot of the minute's sweep, which comes again and again
  MaxChanges,   \* bound: changes of the rows
  MaxRequests,  \* bound: pings, acknowledgements and sweeps that overlap the minute's
  MaxCuts       \* bound: requests cut short

RowKinds ==
  {"order", "delivery", "reservation", "table", "timeclock", "inventory", "menu"}

\* RULE_IDS.
Rules == {"newUnaccepted", "preparing", "readyNow", "readyUnserved", "servedUnpaid",
          "unassigned", "transit", "noShow", "seated", "forgot", "late", "low", "86ed"}

Nobody == ""

\* What a rule reads of a row: its state, the minutes since that state's stamp, what
\* is owed or left, the station of its lines and the waiter a ping is meant for.
Row == [kind : RowKinds, status : STRING, age : Nat, left : Nat, unpaid : BOOLEAN,
        delivery : BOOLEAN, station : {"", "bar", "kitchen", "mixed"}, waiter : STRING]

ASSUME CronAssumption   == Cron \in Lanes
ASSUME ThingsAssumption ==
  \A t \in Things : RowsOf[t] \subseteq Row /\ FirstRows[t] \subseteq RowsOf[t]
ASSUME ThAssumption     == \A n \in DOMAIN Th : Th[n] \in Nat \ {0}
ASSUME AlertBoundsAssumption ==
  MaxChanges \in Nat /\ MaxRequests \in Nat /\ MaxCuts \in Nat

VARIABLES
  rows,      \* rows[t]: the row of thing t
  alerts,    \* the rows of alerts by id, but for resolved ones nobody is about to write
  req,       \* req[i]: the sweep or request in slot i, with the history off: the keys that
             \* were at some moment since it began not in breach, or whose read failed
  changes,   \* how often rows changed
  requests,  \* how many requests came, the minute's sweeps apart
  cuts,      \* how many were cut short
  torn       \* history: keys that two raisers or a late acknowledgement met on

counts     == <<changes, requests, cuts>>
alertsVars == <<rows, alerts, req, counts, torn>>

-----------------------------------------------------------------------------
(* lib/rules.js.                                                           *)

\* What a rule raises; the sweep keeps one row for each rule and thing.
Violation(rule, sev, t, station, target) ==
  [rule |-> rule, thing |-> t, severity |-> sev, station |-> station, target |-> target]

DedupeKey(v) == [rule |-> v.rule, thing |-> v.thing]

Keys == [rule : Rules, thing : Things]

\* At most one stage rule, by the order's one status.
StageRule(r) ==
  CASE r.status = "new" /\ r.age > Th.newUnaccepted -> "newUnaccepted"
    [] r.status = "preparing" /\ r.age > Th.preparingWarn -> "preparing"
    [] r.status = "ready" /\ ~r.delivery /\ r.age > Th.readyUnserved -> "readyUnserved"
    [] r.status \in {"served", "fulfilled"} /\ r.unpaid /\ r.age > Th.servedUnpaid
         -> "servedUnpaid"
    [] OTHER -> ""

StageSeverity(r) ==
  IF r.status = "preparing" /\ r.age > Th.preparingCritical THEN "critical" ELSE "warning"

EvaluateOrder(t, r) ==
  IF StageRule(r) = "" THEN {}
  ELSE {Violation(StageRule(r), StageSeverity(r), t, r.station, Nobody)}

\* The ping, aimed at the waiter of the table or whoever took the order; the sweep's
\* own rule does not leave deliveries out.
EvaluateOrderReadyNow(t, r) ==
  IF r.status = "ready" THEN {Violation("readyNow", "warning", t, r.station, r.waiter)}
                        ELSE {}

\* The other kinds have one rule for a state.
OtherRule(r) ==
  CASE r.kind = "delivery" /\ r.status = "ready" /\ r.waiter = Nobody
         /\ r.age > Th.deliveryUnassigned -> "unassigned"
    [] r.kind = "delivery" /\ r.status \in {"picked_up", "out_for_delivery"}
         /\ r.age > Th.deliveryTransitMax -> "transit"
    [] r.kind = "reservation" /\ r.status \in {"new", "confirmed"}
         /\ r.age > Th.reservationNoShow -> "noShow"
    [] r.kind = "table" /\ r.status = "occupied" /\ r.age > Th.tableSeatedMax -> "seated"
    [] r.kind = "timeclock" /\ r.status = "active" /\ r.age > Th.forgotClockOut -> "forgot"
    [] r.kind = "inventory" /\ r.left <= Th.reorderPoint -> "low"
    [] r.kind = "menu" /\ r.left = 0 -> "86ed"
    [] OTHER -> ""

OtherSeverity(r) == IF r.kind = "inventory" /\ r.left = 0 THEN "critical" ELSE "warning"

EvaluateOther(t, r) ==
  IF OtherRule(r) = "" THEN {}
  ELSE {Violation(OtherRule(r), OtherSeverity(r), t, "", Nobody)}

Evaluate(t, r) == IF r.kind = "order"
                  THEN EvaluateOrder(t, r) \cup EvaluateOrderReadyNow(t, r)
                  ELSE EvaluateOther(t, r)

\* evaluateAll, of what a query has found.
EvaluateAll(S) == UNION {Evaluate(t, rows[t]) : t \in S}

\* The queries of loadSweepRows, two of them about orders.
Queries == {"stage", "unpaid"} \cup (RowKinds \ {"order"})

\* Mutant: the sweep forgets orders that are ready.
LoadedShort(q, r) ==
  CASE q = "stage"  -> r.kind = "order" /\ r.status \in {"new", "confirmed", "preparing"}
    [] q = "unpaid" -> r.kind = "order" /\ r.status \in {"served", "fulfilled"} /\ r.unpaid
    [] OTHER        -> r.kind = q

Loaded(q, r) ==
  CASE q = "stage"  -> r.kind = "order"
                         /\ r.status \in {"new", "confirmed", "preparing", "ready"}
    [] q = "unpaid" -> r.kind = "order" /\ r.status \in {"served", "fulfilled"} /\ r.unpaid
    [] OTHER        -> r.kind = q

\* The conditions that hold now.
Breaches == {DedupeKey(v) : v \in EvaluateAll(Things)}

-----------------------------------------------------------------------------
(* Who sees what: RULE_AUDIENCE.                                           *)

All(roles)          == [shape |-> "all", kitchen |-> roles, bar |-> {}]
Split(kitchen, bar) == [shape |-> "split", kitchen |-> kitchen, bar |-> bar]
Targeted(roles)     == [shape |-> "targeted", kitchen |-> roles, bar |-> {}]

Chefs == {"head-chef", "assistant-chef"}

RuleAudience == [r \in Rules |->
  CASE r \in {"preparing", "newUnaccepted"} -> Split(Chefs, {"barista"})
    [] r = "readyUnserved" -> Split(Chefs \cup {"head-waiter"}, {"barista", "head-waiter"})
    [] r = "readyNow"      -> Targeted({"head-waiter", "cashier"})
    [] r = "servedUnpaid"  -> All({"cashier", "head-waiter"})
    [] r \in {"unassigned", "transit"} -> All({"delivery-staff"})
    [] r \in {"noShow", "seated"}      -> All({"head-waiter"})
    [] OTHER -> All({})]

Bucket(spec, station) == CASE station = "bar"   -> spec.bar
                           [] station = "mixed" -> spec.bar \cup spec.kitchen
                           [] OTHER             -> spec.kitchen

\* alertVisibleTo: the manager sees all; a targeted row is for one person.
AlertVisibleTo(row, who) ==
  LET spec == RuleAudience[row.rule]
  IN \/ who.role = "manager"
     \/ spec.shape = "all" /\ who.role \in spec.kitchen
     \/ /\ spec.shape = "targeted" /\ who.role \in spec.kitchen
        /\ row.target \in {Nobody, who.id}
     \/ spec.shape = "split" /\ who.role \in Bucket(spec, row.station)

-----------------------------------------------------------------------------
(* State.                                                                  *)

Pcs == {"free", "load", "live", "write", "look", "aim", "insert", "sign"}

FreeLane == [op |-> "none", pc |-> "free", todo |-> {}, wanted |-> {},
             fresh |-> {}, ids |-> {}, off |-> {}]

AlertsInit ==
  /\ rows \in {f \in [Things -> UNION {FirstRows[t] : t \in Things}] :
                 \A t \in Things : f[t] \in FirstRows[t]}
  /\ alerts = <<>>
  /\ req = [i \in Lanes |-> FreeLane]
  /\ changes = 0 /\ requests = 0 /\ cuts = 0 /\ torn = {}

At(i, pc) == req[i].pc = pc

\* The rows a request under way will write, whatever becomes of them.
Pending(R) == UNION {R[i].ids \cup {f.id : f \in R[i].fresh} : i \in Lanes}

\* Request i goes on as r and leaves the rows A: a resolved row that no request is
\* about to write is never heard of again, and is forgotten.
Leaves(i, r, A) ==
  /\ req' = [req EXCEPT ![i] = r]
  /\ alerts' = Restrict(A, {n \in DOMAIN A : \/ A[n].status # "resolved"
                                            \/ n \in Pending(req')})

Goes(i, r) == Leaves(i, r, alerts)
Answers(i) == Goes(i, FreeLane)

Inserted(row) ==
  LET n == CHOOSE n \in 1 .. Cardinality(DOMAIN alerts) + 1 : n \notin DOMAIN alerts
  IN [m \in DOMAIN alerts \cup {n} |-> IF m = n THEN row ELSE alerts[m]]

Live(k) == {n \in DOMAIN alerts : DedupeKey(alerts[n]) = k /\ alerts[n].status # "resolved"}

\* A row changes under whatever is under way.
Changes(t, r) ==
  /\ changes < MaxChanges /\ r # rows[t] /\ r.kind = rows[t].kind
  /\ rows' = [rows EXCEPT ![t] = r]
  /\ req' = [i \in Lanes |-> IF req[i].op # "sweep" THEN req[i]
                             ELSE [req[i] EXCEPT !.off = @ \cup (Keys \ Breaches')]]
  /\ changes' = changes + 1
  /\ UNCHANGED <<alerts, requests, cuts, torn>>

\* The keys a request under way may raise.
Raises(i) == CASE req[i].op = "sweep" -> Keys
               [] req[i].op = "ping"  -> {DedupeKey(v) : v \in req[i].wanted}
               [] OTHER -> {}

Begins(i, r, keys) ==
  /\ At(i, "free") /\ Goes(i, r)
  /\ IF i = Cron THEN UNCHANGED requests
                 ELSE requests < MaxRequests /\ requests' = requests + 1
  /\ torn' = torn \cup UNION {keys \cap Raises(j) : j \in Lanes \ {i}}
  /\ UNCHANGED <<rows, changes, cuts>>

-----------------------------------------------------------------------------
(* runAlertSweep.                                                          *)

\* The queries that can find anything of a thing; the others read nothing.
MayLoad(q, t) == \E r \in RowsOf[t] : r.kind = rows[t].kind /\ Loaded(q, r)

SweepBegins(i) == Begins(i, [FreeLane EXCEPT !.op = "sweep", !.pc = "load",
                  !.off = Keys \ Breaches,
                  !.todo = {q \in Queries : \E t \in Things : MayLoad(q, t)}],
            Keys)

\* The queries run side by side, each reading its table at its own moment.
SweepLoads(i, q) ==
  LET left == req[i].todo \ {q}
  IN /\ At(i, "load") /\ q \in req[i].todo
     /\ Goes(i, [req[i] EXCEPT !.pc = IF left = {} THEN "live" ELSE "load", !.todo = left,
                   !.wanted = @ \cup EvaluateAll({t \in Things : Loaded(q, rows[t])})])
     /\ UNCHANGED <<rows, counts, torn>>

\* A failed read of the stock or of the menu counts as one that found nothing.
SweepLoadFails(i, q) ==
  LET left == req[i].todo \ {q}
  IN /\ At(i, "load") /\ q \in req[i].todo \cap {"inventory", "menu"} /\ cuts < MaxCuts
     /\ cuts' = cuts + 1
     /\ Goes(i, [req[i] EXCEPT !.pc = IF left = {} THEN "live" ELSE "load", !.todo = left,
                   !.off = @ \cup {k \in Keys : rows[k.thing].kind = q}])
     /\ UNCHANGED <<rows, changes, requests, torn>>

NewAlert(v) == [rule |-> v.rule, thing |-> v.thing, severity |-> v.severity,
                status |-> "open", station |-> v.station, target |-> v.target]

Outdated(row, v) ==
  /\ row.status = "open"
  /\ row.severity # v.severity \/ row.station # v.station \/ row.target # v.target

Telling(S, v) == {n \in S : DedupeKey(alerts[n]) = DedupeKey(v)}

\* Mutant: the sweep looks for open rows only, and raises again what was acknowledged.
ExistingOpen == {{n \in DOMAIN alerts : alerts[n].status = "open"}}

\* One violation to each live row of its key: what no row tells is to be raised, an open
\* row that differs to be refreshed, a row not wanted to be resolved; an acknowledged one
\* "is the floor's problem now".  Of two rows of one key the last read stands.
Existing == {S \in SUBSET {n \in DOMAIN alerts : alerts[n].status # "resolved"} :
               \A n \in DOMAIN alerts : alerts[n].status # "resolved" =>
                 Cardinality(Telling(S, alerts[n])) = 1}

\* Mutant: an acknowledged row is left to whoever signed it.
UnwantedOpen(S, wanted) ==
  {n \in S : alerts[n].status = "open" /\ \A v \in wanted : n \notin Telling(S, v)}

Unwanted(S, wanted) == {n \in S : \A v \in wanted : n \notin Telling(S, v)}

\* A sweep with nothing left to write is done.
Rest(r) == IF r.wanted = {} /\ r.fresh = {} /\ r.ids = {} THEN FreeLane ELSE r

SweepReadsLive(i) ==
  LET wanted == req[i].wanted
  IN /\ At(i, "live")
     /\ \E S \in Existing :
          Goes(i, Rest([req[i] EXCEPT !.pc = "write",
            !.wanted = {v \in wanted : Telling(S, v) = {}},
            !.fresh  = {f \in [id : S, v : wanted] :
                          f.id \in Telling(S, f.v) /\ Outdated(alerts[f.id], f.v)},
            !.ids    = Unwanted(S, wanted)]))
     /\ UNCHANGED <<rows, counts, torn>>

SweepRaises(i) ==
  LET v == CHOOSE v \in req[i].wanted : TRUE
  IN /\ At(i, "write") /\ req[i].wanted # {}
     /\ Leaves(i, Rest([req[i] EXCEPT !.wanted = @ \ {v}]), Inserted(NewAlert(v)))
     /\ UNCHANGED <<rows, counts, torn>>

SweepRefreshes(i) ==
  LET f == CHOOSE f \in req[i].fresh : TRUE
  IN /\ At(i, "write") /\ req[i].fresh # {}
     /\ Leaves(i, Rest([req[i] EXCEPT !.fresh = @ \ {f}]),
          [alerts EXCEPT ![f.id].severity = f.v.severity, ![f.id].station = f.v.station,
                         ![f.id].target = f.v.target])
     /\ UNCHANGED <<rows, counts, torn>>

SweepResolves(i) ==
  LET n == CHOOSE n \in req[i].ids : TRUE
  IN /\ At(i, "write") /\ req[i].wanted = {} /\ req[i].fresh = {}
     /\ Leaves(i, Rest([req[i] EXCEPT !.ids = @ \ {n}]),
               [alerts EXCEPT ![n].status = "resolved"])
     /\ UNCHANGED <<rows, counts, torn>>

-----------------------------------------------------------------------------
(* raiseReadyNowPing, behind the tap that made the ticket ready (Kitchen). *)

PingBegins(i, t) ==
  /\ i # Cron
  /\ rows[t].kind = "order" /\ rows[t].status = "ready" /\ ~rows[t].delivery
  /\ Begins(i, [FreeLane EXCEPT !.op = "ping", !.pc = "look",
                                !.wanted = EvaluateOrderReadyNow(t, rows[t])],
            {[rule |-> "readyNow", thing |-> t]})

Pinged(i) == CHOOSE v \in req[i].wanted : TRUE

\* A live row is aimed if nobody was named on it; else one is inserted.
PingLooks(i) ==
  /\ At(i, "look") /\ req[i].op = "ping"
  /\ LET live == Live(DedupeKey(Pinged(i)))
     IN IF live = {} THEN Goes(i, [req[i] EXCEPT !.pc = "insert"])
        ELSE \E n \in live :
          IF alerts[n].target = Nobody /\ Pinged(i).target # Nobody
          THEN Goes(i, [req[i] EXCEPT !.pc = "aim", !.ids = {n}])
          ELSE Answers(i)
  /\ UNCHANGED <<rows, counts, torn>>

PingAims(i) ==
  /\ At(i, "aim")
  /\ Leaves(i, FreeLane, [n \in DOMAIN alerts |->
       IF n \in req[i].ids THEN [alerts[n] EXCEPT !.target = Pinged(i).target]
                           ELSE alerts[n]])
  /\ UNCHANGED <<rows, counts, torn>>

PingInserts(i) ==
  /\ At(i, "insert")
  /\ Leaves(i, FreeLane, Inserted(NewAlert(Pinged(i))))
  /\ UNCHANGED <<rows, counts, torn>>

-----------------------------------------------------------------------------
(* acknowledgeOne, acknowledgeAll.                                         *)

\* One row by its id, if whoever asks may see it; or, for a manager, all open ones.
AckBegins(i, who) ==
  /\ i # Cron
  /\ \E S \in {{n} : n \in DOMAIN alerts}
                \cup (IF who.role = "manager"
                      THEN {{n \in DOMAIN alerts : alerts[n].status = "open"}} ELSE {}) :
       /\ S # {}
       /\ \A n \in S : alerts[n].status # "resolved" /\ AlertVisibleTo(alerts[n], who)
       /\ Begins(i, [FreeLane EXCEPT !.op = "ack", !.pc = "sign", !.ids = S], {})

\* The row as it is by now, whatever became of it.
AckSigns(i) == \E n \in req[i].ids :
  /\ At(i, "sign")
  /\ Leaves(i, IF req[i].ids = {n} THEN FreeLane ELSE [req[i] EXCEPT !.ids = @ \ {n}],
            [alerts EXCEPT ![n].status = "acknowledged"])
  /\ torn' = torn \cup IF alerts[n].status = "resolved" THEN {DedupeKey(alerts[n])} ELSE {}
  /\ UNCHANGED <<rows, counts>>

\* Any of them may be cut short.
Dies(i) ==
  /\ ~At(i, "free") /\ cuts < MaxCuts
  /\ cuts' = cuts + 1
  /\ Answers(i)
  /\ UNCHANGED <<rows, changes, requests, torn>>

-----------------------------------------------------------------------------
SweepSteps(i) == \/ \E q \in Queries : SweepLoads(i, q)
                 \/ SweepReadsLive(i) \/ SweepRaises(i)
                 \/ SweepRefreshes(i) \/ SweepResolves(i)
PingSteps(i)  == PingLooks(i) \/ PingAims(i) \/ PingInserts(i)
Steps(i)      == SweepSteps(i) \/ PingSteps(i) \/ AckSigns(i)

AlertsNext ==
  \/ \E i \in Lanes : \/ SweepBegins(i) \/ Steps(i) \/ Dies(i)
                      \/ \E q \in Queries : SweepLoadFails(i, q)
                      \/ \E t \in Things : PingBegins(i, t)
                      \/ \E who \in People : AckBegins(i, who)
  \/ \E t \in Things : \E r \in RowsOf[t] : Changes(t, r)

AlertsSpec == AlertsInit /\ [][AlertsNext]_alertsVars

\* The cron comes every minute, and what it started goes on.
FairAlerts == /\ AlertsSpec
              /\ WF_alertsVars(SweepBegins(Cron))
              /\ \A i \in Lanes : WF_alertsVars(Steps(i))

-----------------------------------------------------------------------------
(* Properties.                                                             *)

\* "One row per (rule, entity) while the condition holds" (alerts.js:11-12), unless
\* two raisers overlapped or an acknowledgement came after the row was resolved.
OneRowPerBreach == \A k \in Keys \ torn : Cardinality(Live(k)) <= 1

\* An alert is resolved by a sweep only if its condition was off at some moment since
\* that sweep began, however the rows changed between its eight reads, its read of the
\* live alerts and its writes (alerts.js:64-107, 280-288); or if the read of the stock
\* or of the menu failed, which the code takes for an empty one (alerts.js:95-96).
ResolvedWhenCleared == [][\A i \in Lanes, n \in DOMAIN alerts :
  req[i].op = "sweep" /\ req'[i] # req[i] /\ alerts[n].status # "resolved"
    /\ (n \in DOMAIN alerts' => alerts'[n].status = "resolved")
      => DedupeKey(alerts[n]) \in req[i].off]_alertsVars

\* Once the rows stand still, the live alerts come to tell exactly what is in breach,
\* whatever duplicates, late signatures and half sweeps left behind: "the next minute
\* tries again" (index.js:475-486).
AlertsFollow ==
  <>[][FALSE]_rows => <>[](\A k \in Keys : k \in Breaches <=> Live(k) # {})

===============================================================================
