-------------------------------- MODULE MCAlerts --------------------------------
(* Alerts for TLC: one thing of any kind that changes under what is at work.   *)
EXTENDS Alerts, TLC

CONSTANT x

R(kind, status, age, left) ==
  [kind |-> kind, status |-> status, age |-> age, left |-> left, unpaid |-> TRUE,
   delivery |-> FALSE, station |-> IF kind = "order" THEN "mixed" ELSE "",
   waiter |-> IF kind = "order" THEN "w1" ELSE ""]

Unaimed == [R("order", "ready", 0, 0) EXCEPT !.waiter = ""]
Tickets == {R("order", "preparing", 2, 0), Unaimed,
            R("order", "ready", 0, 0), R("order", "served", 2, 0)}
Others  == {R("delivery", "ready", 2, 0), R("delivery", "picked_up", 2, 0),
            R("reservation", "confirmed", 2, 0), R("reservation", "released", 2, 0),
            R("table", "occupied", 2, 0), R("table", "available", 2, 0),
            R("timeclock", "active", 2, 0), R("timeclock", "completed", 2, 0),
            R("inventory", "", 0, 1), R("inventory", "", 0, 0), R("menu", "", 0, 0),
            R("menu", "", 0, 1)}

MCRows  == [t \in Things |-> Tickets \cup Others]
MCFirst == [t \in Things |-> {R("order", "preparing", 2, 0), Unaimed} \cup Others]

MCTh == [newUnaccepted |-> 1, preparingWarn |-> 1, preparingCritical |-> 2,
         readyUnserved |-> 1, servedUnpaid |-> 1, deliveryUnassigned |-> 1,
         deliveryTransitMax |-> 1, reservationNoShow |-> 1, tableSeatedMax |-> 1,
         forgotClockOut |-> 1, reorderPoint |-> 1]

MCPeople == {[role |-> "manager", id |-> "m"], [role |-> "head-waiter", id |-> "w1"],
             [role |-> "head-waiter", id |-> "w2"], [role |-> "barista", id |-> "b"]}
=================================================================================
