---------------------------- MODULE KitchenProofs ----------------------------
(***************************************************************************)
(* Proofs about Kitchen, for any orders, lines, roles, requests that       *)
(* overlap and requests that are cut short.                                *)
(***************************************************************************)
EXTENDS Kitchen, SequenceTheorems, TLAPS

\* The states of orders, lines and jobs.
Words == JobStates \cup {"served", "fulfilled", "completed"}

OrderRow == [status : Words, voided : BOOLEAN, paid : BOOLEAN]
LineRow  == [order : Orders, station : Stations, status : Words]
JobRow   == [status : Words, settled : BOOLEAN]

\* The fields of a request; their values matter only as far as Fits goes.
Fields == DOMAIN FreeSlot

\* The statements of each operation.
PcsOf == [none |-> {"free"}, accept |-> {"check", "accepted"},
          tap |-> {"line", "before", "lines", "roll", "look", "ping"},
          ticket |-> {"check", "write", "behind", "move", "derive", "store", "job",
                      "jobWrite", "look", "ping"},
          round |-> {"check", "insert", "lines", "roll"},
          sweep |-> {"stale", "close", "serve"},
          void |-> {"check", "cancel", "strike", "drop"},
          advance |-> {"fetch", "jobMove", "paid", "order"},
          settle |-> {"check", "settled", "closing"}, assign |-> {"job"}]

\* What a request is about at its statement.
Fits(r) ==
  /\ DOMAIN r = Fields
  /\ r.op \in DOMAIN PcsOf /\ r.pc \in PcsOf[r.op]
  /\ r.want \in Words /\ r.rolled \in Words
  /\ r.op \notin {"none", "sweep"} => r.order \in Orders
  /\ r.op \in {"none", "sweep"} /\ r.pc # "serve" => r.order = "none"
  /\ r.op # "sweep" \/ r.pc = "stale" => r.stale = {}
  /\ r.stale \subseteq Orders
  /\ r.pc = "serve" => r.order \in r.stale

\* The lines a scoped handoff has read are its order's.
Grasps(i) == At(i, "move") => req[i].behind \subseteq LinesOn(req[i].order)

RowsType ==
  /\ orders \in [Orders -> OrderRow] /\ jobs \in [Orders -> JobRow]
  /\ pings \in [Orders -> Nat] /\ lines \in Seq(LineRow)

Shape == RowsType /\ DOMAIN req = Slots /\ \A i \in Slots : Fits(req[i]) /\ Grasps(i)

-----------------------------------------------------------------------------
(* An order that nobody writes, and one that somebody does.                *)

\* What a status says of the lines.
Fair(s, S) ==
  /\ s = "ready" => S \subseteq {"ready", "served"}
  /\ s \in {"served", "fulfilled", "completed"} => S \subseteq {"served"}

Made(p)     == p \notin Delivery => Fair(orders[p].status, StatesOf(p))
Few(p)      == p \notin Delivery => pings[p] <= 1
Said(p)     == Few(p) /\ (p \notin Delivery /\ orders[p].status = "ready" => pings[p] = 1)
Gone(p)     == p \notin tapped /\ orders[p].voided /\ ~jobs[p].settled =>
                 orders[p].status = "cancelled"
Together(p) == p \in Delivery => (orders[p].voided <=> jobs[p].status = "cancelled")

Right(p)  == Made(p) /\ Said(p) /\ Gone(p) /\ Together(p)
Stands(p) == ~orders[p].voided

\* What was read of the status still tells whether the order was ready.
Recalls(i, p) == req[i].before = "ready" <=> orders[p].status = "ready"

\* A ticket that became ready is to be announced.
Announces(i, p) ==
  /\ Made(p) /\ Gone(p) /\ Few(p) /\ p \notin Delivery /\ orders[p].status = "ready"
  /\ At(i, "ping") => pings[p] = 0

TapHas(i, p) ==
  /\ At(i, "line") => Right(p)
  /\ req[i].pc \in {"before", "lines", "roll"} =>
       Said(p) /\ Together(p) /\ (orders[p].voided => p \in tapped)
  /\ req[i].pc \in {"lines", "roll"} => Recalls(i, p)
  /\ At(i, "roll") => Fair(req[i].rolled, StatesOf(p))
  /\ req[i].pc \in {"look", "ping"} => Announces(i, p)

\* The status as it was asked for, but that a new order may have been accepted since.
Asked(i, p) == \/ orders[p].status = req[i].want
               \/ req[i].want = "new" /\ orders[p].status = "confirmed"

Written(i, p) == IF req[i].scope # "none" THEN Recalls(i, p) /\ Said(p)
                 ELSE /\ Asked(i, p) /\ req[i].rolled = req[i].want /\ Few(p)
                      /\ req[i].before = "ready" => Said(p)

TicketHas(i, p) ==
  /\ At(i, "check") => Right(p)
  /\ ~At(i, "check") => Stands(p)
  /\ req[i].pc \notin {"look", "ping"} => Together(p)
  /\ At(i, "write") => Recalls(i, p) /\ Said(p)
  /\ At(i, "behind") => Written(i, p)
  /\ req[i].pc \in {"move", "derive", "store"} => Recalls(i, p) /\ Said(p)
  /\ At(i, "store") => Fair(req[i].rolled, StatesOf(p))
  /\ req[i].pc \in {"job", "jobWrite"} => p \in Delivery
  /\ At(i, "jobWrite") => req[i].rolled \in Mirrored
  /\ req[i].pc \in {"look", "ping"} => Announces(i, p)

RoundHas(i, p) ==
  /\ req[i].pc \in {"check", "insert"} => Right(p)
  /\ ~At(i, "check") => Stands(p)
  /\ req[i].pc \in {"lines", "roll"} => Said(p) /\ Together(p)
  /\ At(i, "lines") => "new" \in StatesOf(p)
  /\ At(i, "roll") => req[i].rolled # "ready" /\ Fair(req[i].rolled, StatesOf(p))

SweepHas(i, p) ==
  /\ p \notin Delivery /\ Stands(p) /\ Said(p)
  /\ IF At(i, "serve") /\ req[i].order = p THEN orders[p].status = "completed" ELSE Made(p)

VoidHas(i, p) ==
  /\ req[i].pc \in {"check", "cancel"} => Right(p)
  /\ req[i].pc \in {"strike", "drop"} =>
       orders[p].voided /\ orders[p].status = "cancelled" /\ Few(p)

AdvanceHas(i, p) ==
  /\ p \in Delivery
  /\ At(i, "fetch") => Right(p)
  /\ ~At(i, "fetch") => Stands(p)
  /\ At(i, "jobMove") => Together(p)
  /\ At(i, "paid") => Together(p) /\ req[i].want = "delivered"
  /\ At(i, "order") => IF req[i].want = "cancelled" THEN jobs[p].status = "cancelled"
                                                    ELSE Together(p)

SettleHas(i, p) ==
  /\ p \in Delivery
  /\ ~At(i, "closing") => Right(p)
  /\ At(i, "closing") => Together(p) /\ jobs[p].settled

\* What holds of order p while request i is about it.
Has(i, p) ==
  /\ req[i].op = "tap" => TapHas(i, p)
  /\ req[i].op = "ticket" => TicketHas(i, p)
  /\ req[i].op = "round" => RoundHas(i, p)
  /\ req[i].op = "sweep" => SweepHas(i, p)
  /\ req[i].op = "void" => VoidHas(i, p)
  /\ req[i].op = "advance" => AdvanceHas(i, p)
  /\ req[i].op = "settle" => SettleHas(i, p)
  /\ req[i].op = "assign" => p \in Delivery /\ Right(p)

\* An order whose requests never met has one at most.
Alone == \A p \in Orders \ torn : \A i, j \in Slots :
  p \in Touches(req[i]) /\ p \in Touches(req[j]) => i = j

Held == \A p \in Orders \ torn :
  /\ (\A i \in Slots : p \notin Touches(req[i])) => Right(p)
  /\ \A i \in Slots : p \in Touches(req[i]) => Has(i, p)

PassInv == Shape /\ Alone /\ Held

-----------------------------------------------------------------------------
(* States and lines.                                                       *)

LEMMA Flow ==
  /\ ItemStates = {"new", "preparing", "ready", "served"}
  /\ BehindStates("ready") = {"new", "preparing"}
  /\ BehindStates("served") = {"new", "preparing", "ready"}
<1>1. ItemStates = {"new", "preparing", "ready", "served"}
  BY DEF ItemStates, ItemFlow
<1>2. DOMAIN ItemFlow = 1 .. 4 /\ Len(ItemFlow) = 4
  BY DEF ItemFlow
<1>3. ItemFlow[1] = "new" /\ ItemFlow[2] = "preparing" /\ ItemFlow[3] = "ready" /\ ItemFlow[4] = "served"
  BY DEF ItemFlow
<1>4. FlowIndex("ready") = 3 /\ FlowIndex("served") = 4
  <2>1. (CHOOSE k \in DOMAIN ItemFlow : ItemFlow[k] = "ready") = 3
    BY <1>2, <1>3
  <2>2. (CHOOSE k \in DOMAIN ItemFlow : ItemFlow[k] = "served") = 4
    BY <1>2, <1>3
  <2> QED
    BY <2>1, <2>2, <1>1 DEF FlowIndex
<1>5. 1 .. 3 - 1 = {1, 2} /\ 1 .. 4 - 1 = {1, 2, 3}
  OBVIOUS
<1>6. BehindStates("ready") = {ItemFlow[k] : k \in {1, 2}}
  BY <1>4, <1>5 DEF BehindStates
<1>7. BehindStates("served") = {ItemFlow[k] : k \in {1, 2, 3}}
  BY <1>4, <1>5 DEF BehindStates
<1> QED
  BY <1>1, <1>3, <1>6, <1>7

\* What the lines come to is fair to them, and is not ready while one is new.
LEMMA DerivedIsFair ==
  ASSUME NEW S
  PROVE  /\ DeriveOrderStatus(S) \in Words
         /\ Fair(DeriveOrderStatus(S), S)
         /\ "new" \in S => DeriveOrderStatus(S) # "ready"
         /\ DeriveOrderStatus(S) = "none" => S = {}
<1>1. CASE S = {}
  BY <1>1 DEF DeriveOrderStatus, Fair, Words, JobStates
<1>2. CASE S = {"served"}
  BY <1>2 DEF DeriveOrderStatus, Fair, Words, JobStates
<1>3. CASE S = {"new"}
  BY <1>3 DEF DeriveOrderStatus, Fair, Words, JobStates
<1>4. CASE "ready" \in S /\ S \subseteq {"ready", "served"}
  BY <1>4 DEF DeriveOrderStatus, Fair, Words, JobStates
<1>5. CASE S # {} /\ S # {"served"} /\ S # {"new"} /\ ~("ready" \in S /\ S \subseteq {"ready", "served"})
  BY <1>5 DEF DeriveOrderStatus, Fair, Words, JobStates
<1> QED
  BY <1>1, <1>2, <1>3, <1>4, <1>5

LEMMA EffectiveIsFair ==
  ASSUME NEW S, NEW d \in Words, NEW want \in Words, Fair(d, S), d = "none" => S = {}
  PROVE  /\ EffectiveStatus(d, want) \in Words
         /\ Fair(EffectiveStatus(d, want), S)
<1>1. CASE d = "none"
  BY <1>1 DEF EffectiveStatus, Fair
<1>2. CASE d = "served" /\ want = "fulfilled"
  BY <1>2 DEF EffectiveStatus, Fair
<1>3. CASE d # "none" /\ ~(d = "served" /\ want = "fulfilled")
  BY <1>3 DEF EffectiveStatus
<1> QED
  BY <1>1, <1>2, <1>3

LEMMA SeqIsFunction ==
  ASSUME NEW S, NEW s PROVE s \in Seq(S) <=> \E n \in Nat : s \in [1 .. n -> S]
BY SeqDef

\* The lines keep their orders, and those of an order but o their states.
KeepsBut(o) ==
  /\ \A p \in Orders : LinesOn(p) \subseteq LinesOn(p)'
  /\ \A p \in Orders \ {o} : StatesOf(p)' = StatesOf(p)

LEMMA LinesMove ==
  ASSUME RowsType, NEW o \in Orders, NEW S, NEW s \in Words, lines' = Advanced(S, s),
         \A n \in S \cap DOMAIN lines : lines[n].order = o
  PROVE  /\ lines' \in Seq(LineRow) /\ KeepsBut(o) /\ LinesOn(o)' = LinesOn(o)
         /\ \A n \in DOMAIN lines : lines'[n].status = IF n \in S THEN s ELSE lines[n].status
<1>1. PICK n \in Nat : lines \in [1 .. n -> LineRow]
  BY SeqIsFunction DEF RowsType
<1>2. lines' \in [1 .. n -> LineRow]
  BY <1>1 DEF Advanced, LineRow
<1>3. DOMAIN lines' = DOMAIN lines
  BY <1>1, <1>2
<1>4. \A k \in DOMAIN lines : /\ lines'[k].order = lines[k].order
                              /\ lines'[k].status = IF k \in S THEN s ELSE lines[k].status
                              /\ lines[k].order # o => lines'[k] = lines[k]
  BY <1>1 DEF Advanced, LineRow
<1>5. \A p \in Orders : LinesOn(p)' = LinesOn(p)
  BY <1>3, <1>4 DEF LinesOn
<1>6. \A p \in Orders \ {o} : StatesOf(p)' = StatesOf(p)
  <2> TAKE p \in Orders \ {o}
  <2>1. \A k \in LinesOn(p) : lines'[k].status = lines[k].status
    BY <1>4 DEF LinesOn
  <2> QED
    BY <2>1, <1>5 DEF StatesOf
<1>7. lines' \in Seq(LineRow)
  BY <1>2, SeqIsFunction
<1> QED
  BY <1>4, <1>5, <1>6, <1>7 DEF KeepsBut

LEMMA LineTapped ==
  ASSUME RowsType, NEW o \in Orders, NEW k, NEW s \in Words, lines[k].order = o,
         lines' = [lines EXCEPT ![k].status = s]
  PROVE  lines' \in Seq(LineRow) /\ KeepsBut(o)
<1>1. PICK n \in Nat : lines \in [1 .. n -> LineRow]
  BY SeqIsFunction DEF RowsType
<1>2. lines' \in [1 .. n -> LineRow] /\ DOMAIN lines' = DOMAIN lines
  BY <1>1 DEF LineRow
<1>3. \A m \in DOMAIN lines : /\ lines'[m].order = lines[m].order
                              /\ lines[m].order # o => lines'[m] = lines[m]
  BY <1>1 DEF LineRow
<1>4. \A p \in Orders : LinesOn(p)' = LinesOn(p)
  BY <1>2, <1>3 DEF LinesOn
<1>5. \A p \in Orders \ {o} : StatesOf(p)' = StatesOf(p)
  <2> TAKE p \in Orders \ {o}
  <2>1. \A m \in LinesOn(p) : lines'[m].status = lines[m].status
    BY <1>3 DEF LinesOn
  <2> QED
    BY <2>1, <1>4 DEF StatesOf
<1>6. lines' \in Seq(LineRow)
  BY <1>2, SeqIsFunction
<1> QED
  BY <1>4, <1>5, <1>6 DEF KeepsBut

LEMMA LineAdded ==
  ASSUME RowsType, NEW o \in Orders, NEW s \in Stations,
         lines' = Append(lines, [order |-> o, station |-> s, status |-> "new"])
  PROVE  lines' \in Seq(LineRow) /\ KeepsBut(o) /\ "new" \in StatesOf(o)'
<1> DEFINE e == [order |-> o, station |-> s, status |-> "new"]
<1>1. e \in LineRow
  BY DEF LineRow, Words, JobStates
<1> lines \in Seq(LineRow)
  BY DEF RowsType
<1>2. /\ lines' \in Seq(LineRow) /\ Len(lines) \in Nat /\ Len(lines') = Len(lines) + 1
      /\ \A m \in 1 .. Len(lines) : lines'[m] = lines[m]
      /\ lines'[Len(lines) + 1] = e
  BY <1>1
<1>3. DOMAIN lines = 1 .. Len(lines) /\ DOMAIN lines' = 1 .. Len(lines) + 1
  BY <1>1, <1>2
<1>4. \A p \in Orders : LinesOn(p) \subseteq LinesOn(p)'
  BY <1>2, <1>3 DEF LinesOn
<1>5. \A p \in Orders \ {o} : LinesOn(p)' = LinesOn(p)
  BY <1>2, <1>3 DEF LinesOn
<1>6. \A p \in Orders \ {o} : StatesOf(p)' = StatesOf(p)
  <2> TAKE p \in Orders \ {o}
  <2>1. \A m \in LinesOn(p) : lines'[m].status = lines[m].status
    BY <1>2, <1>3 DEF LinesOn
  <2> QED
    BY <2>1, <1>5 DEF StatesOf
<1>7. Len(lines) + 1 \in LinesOn(o)'
  BY <1>2, <1>3 DEF LinesOn
<1>8. "new" \in StatesOf(o)'
  BY <1>2, <1>7, Flow DEF StatesOf
<1> QED
  BY <1>2, <1>4, <1>6, <1>8 DEF KeepsBut

-----------------------------------------------------------------------------
(* A step of one request.                                                  *)

\* The rows of order p are left alone, but for its payment, its acceptance and a ping
\* that nobody waits for any more.
Alike(p) ==
  /\ \/ orders'[p].status = orders[p].status
     \/ orders[p].status = "new" /\ orders'[p].status = "confirmed"
  /\ orders'[p].voided = orders[p].voided /\ jobs'[p] = jobs[p]
  /\ pings'[p] = pings[p] \/ (orders[p].status # "ready" /\ pings'[p] = 0)
  /\ StatesOf(p)' = StatesOf(p) /\ (p \in tapped' <=> p \in tapped)

LEMMA RightStays ==
  ASSUME NEW p, Alike(p), Right(p) PROVE Right(p)'
BY DEF Alike, Right, Made, Fair, Said, Few, Gone, Together

LEMMA HasStays ==
  ASSUME NEW p, NEW i, Alike(p), req'[i] = req[i], Has(i, p) PROVE Has(i, p)'
<1> USE DEF Alike
<1>1. /\ Right(p) => Right(p)'
      /\ Said(p) => Said(p)'
      /\ Few(p) => Few(p)'
      /\ Made(p) => Made(p)'
  BY RightStays DEF Said, Few, Made, Fair
<1>2. /\ Gone(p) => Gone(p)'
      /\ Together(p) => Together(p)'
      /\ Stands(p) => Stands(p)'
  BY DEF Gone, Together, Stands
<1>3. Announces(i, p) => Announces(i, p)'
  BY <1>1, <1>2 DEF Announces, At
<1>4. /\ Recalls(i, p) => Recalls(i, p)'
      /\ Written(i, p) => Written(i, p)'
  BY <1>1 DEF Recalls, Written, Asked
<1>5. TapHas(i, p) => TapHas(i, p)'
  BY <1>1, <1>2, <1>3, <1>4 DEF TapHas, At
<1>6. TicketHas(i, p) => TicketHas(i, p)'
  BY <1>1, <1>2, <1>3, <1>4 DEF TicketHas, At
<1>7. /\ RoundHas(i, p) => RoundHas(i, p)'
      /\ SweepHas(i, p) => SweepHas(i, p)'
  BY <1>1, <1>2 DEF RoundHas, SweepHas, At
<1>8. VoidHas(i, p) => VoidHas(i, p)'
  BY <1>1, <1>2 DEF VoidHas
<1>9. /\ AdvanceHas(i, p) => AdvanceHas(i, p)'
      /\ SettleHas(i, p) => SettleHas(i, p)'
  BY <1>1, <1>2 DEF AdvanceHas, SettleHas, At
<1> QED
  BY <1>1, <1>5, <1>6, <1>7, <1>8, <1>9 DEF Has

\* What the step of request i does to an order.
Turns(i, p) ==
  /\ p \in Touches(req[i]) /\ Has(i, p) =>
       IF p \in Touches(req'[i]) THEN Has(i, p)' ELSE Right(p)'
  /\ p \notin Touches(req[i]) /\ Right(p) /\ p \in Touches(req'[i]) => Has(i, p)'

LEMMA Stepping ==
  ASSUME Alone, Held, NEW i \in Slots, \A j \in Slots \ {i} : req'[j] = req[j],
         torn \subseteq torn',
         \A p \in Orders \ torn' :
           /\ p \in Touches(req'[i]) \ Touches(req[i]) =>
                \A j \in Slots \ {i} : p \notin Touches(req[j])
           /\ p \notin Touches(req[i]) => Alike(p)
           /\ Turns(i, p)
  PROVE  Alone' /\ Held'
<1>1. Alone'
  BY DEF Alone
<1>2. ASSUME NEW p \in Orders \ torn', \A j \in Slots : p \notin Touches(req'[j])
      PROVE  Right(p)'
  <2>1. \A j \in Slots \ {i} : p \notin Touches(req[j])
    BY <1>2
  <2>2. CASE p \in Touches(req[i])
    BY <1>2, <2>2 DEF Held, Turns
  <2>3. CASE p \notin Touches(req[i])
    <3>1. Right(p)
      BY <2>1, <2>3 DEF Held
    <3> QED
      BY <2>3, <3>1, RightStays
  <2> QED
    BY <2>2, <2>3
<1>3. ASSUME NEW p \in Orders \ torn', NEW j \in Slots, p \in Touches(req'[j])
      PROVE  Has(j, p)'
  <2>1. CASE j # i
    <3>1. p \in Touches(req[j]) /\ req'[j] = req[j]
      BY <1>3, <2>1
    <3>2. Has(j, p)
      BY <3>1 DEF Held
    <3>3. p \notin Touches(req[i])
      BY <3>1, <2>1 DEF Alone
    <3> QED
      BY <3>1, <3>2, <3>3, HasStays
  <2>2. CASE j = i /\ p \in Touches(req[i])
    BY <1>3, <2>2 DEF Held, Turns
  <2>3. CASE j = i /\ p \notin Touches(req[i])
    <3>1. \A k \in Slots : p \notin Touches(req[k])
      BY <1>3, <2>3
    <3>2. Right(p)
      BY <3>1 DEF Held
    <3> QED
      BY <1>3, <2>3, <3>2 DEF Turns
  <2> QED
    BY <2>1, <2>2, <2>3
<1>4. Held'
  BY <1>2, <1>3 DEF Held
<1> QED
  BY <1>1, <1>4

\* Only the request in slot i changes.
LEMMA OneGoes ==
  ASSUME DOMAIN req = Slots, NEW i \in Slots, NEW r, Goes(i, r)
  PROVE  DOMAIN req' = Slots /\ req'[i] = r /\ \A j \in Slots \ {i} : req'[j] = req[j]
BY DEF Goes

LEMMA IdleFits == Fits(FreeSlot) /\ Touches(FreeSlot) = {} /\ FreeSlot.pc = "free" /\ FreeSlot.op = "none"
BY DEF FreeSlot, Fits, Fields, PcsOf, Words, JobStates, Touches

LEMMA GraspsOn ==
  ASSUME Shape, NEW j \in Slots, req'[j] = req[j], \A p \in Orders : LinesOn(p) \subseteq LinesOn(p)'
  PROVE  Fits(req'[j]) /\ Grasps(j)'
<1>1. At(j, "move") => req[j].order \in Orders
  BY DEF Shape, Fits, PcsOf, At
<1> QED
  BY <1>1 DEF Shape, Grasps, At

\* The statements tell the operation.
LEMMA Tells ==
  ASSUME Shape, NEW i \in Slots
  PROVE  /\ req[i].pc \in {"line", "before"} => req[i].op = "tap"
         /\ At(i, "lines") => req[i].op \in {"tap", "round"}
         /\ At(i, "roll") => req[i].op \in {"tap", "round"}
         /\ req[i].pc \in {"look", "ping"} => req[i].op \in {"tap", "ticket"}
         /\ req[i].pc \in {"write", "behind", "move", "derive", "store", "jobWrite"} =>
              req[i].op = "ticket"
         /\ At(i, "accepted") => req[i].op = "accept"
         /\ At(i, "insert") => req[i].op = "round"
         /\ req[i].pc \in {"stale", "close", "serve"} => req[i].op = "sweep"
         /\ req[i].pc \in {"cancel", "strike", "drop"} => req[i].op = "void"
         /\ req[i].pc \in {"fetch", "jobMove", "paid", "order"} => req[i].op = "advance"
         /\ req[i].pc \in {"settled", "closing"} => req[i].op = "settle"
         /\ At(i, "free") => req[i].op = "none"
         /\ req[i].op = "none" => Touches(req[i]) = {}
         /\ req[i].op = "accept" => Touches(req[i]) = {}
         /\ req[i].op \notin {"none", "accept", "sweep"} => Touches(req[i]) = {req[i].order}
         /\ req[i].op \notin {"none", "sweep"} => req[i].order \in Orders
<1>1. /\ req[i].op \in DOMAIN PcsOf /\ req[i].pc \in PcsOf[req[i].op]
      /\ req[i].op \notin {"none", "sweep"} => req[i].order \in Orders
      /\ req[i].op \in {"none", "sweep"} /\ req[i].pc # "serve" => req[i].order = "none"
      /\ req[i].op # "sweep" => req[i].stale = {}
  BY DEF Shape, Fits
<1>2. req[i].op = "none" => req[i].pc = "free"
  BY <1>1 DEF PcsOf
<1> QED
  BY <1>1, <1>2, NamesAssumption DEF PcsOf, At, Touches

\* Orders other than o are left alone, lines apart.
OnlyOn(o) ==
  /\ \A p \in Orders \ {o} : /\ orders'[p] = orders[p] /\ jobs'[p] = jobs[p]
                             /\ pings'[p] = pings[p] /\ (p \in tapped' <=> p \in tapped)
  /\ KeepsBut(o)

\* Request i goes on as r with its order o, or is answered.
LEMMA OneStep ==
  ASSUME PassInv, RowsType', NEW i \in Slots, NEW o \in Orders, NEW r, req[i].order = o,
         req[i].op \notin {"none", "accept", "sweep"}, Goes(i, r), Fits(r),
         r.op = "none" \/ (r.op = req[i].op /\ r.order = o),
         r.pc = "move" => r.behind \subseteq LinesOn(o)',
         torn' = torn, OnlyOn(o),
         o \notin torn /\ Has(i, o) => IF r.op = "none" THEN Right(o)' ELSE Has(i, o)'
  PROVE  PassInv'
<1> Shape /\ Alone /\ Held /\ RowsType /\ DOMAIN req = Slots
  BY DEF PassInv, Shape
<1>1. DOMAIN req' = Slots /\ req'[i] = r /\ \A j \in Slots \ {i} : req'[j] = req[j]
  BY OneGoes
<1>2. \A j \in Slots \ {i} : Fits(req'[j]) /\ Grasps(j)'
  BY <1>1, GraspsOn DEF OnlyOn, KeepsBut
<1>3. Grasps(i)'
  <2>1. r.pc = "move" => r.op = req[i].op
    BY DEF Fits, PcsOf
  <2> QED
    BY <1>1, <2>1 DEF Grasps, At
<1>4. Shape'
  BY <1>1, <1>2, <1>3 DEF Shape
<1>5. Touches(req[i]) = {o}
  BY Tells
<1>6. Touches(req'[i]) = IF r.op = "none" THEN {} ELSE {o}
  BY <1>1, NamesAssumption DEF Touches, Fits, PcsOf
<1>7. \A p \in Orders \ {o} : Alike(p)
  BY DEF OnlyOn, KeepsBut, Alike
<1>8. \A p \in Orders \ torn' : Turns(i, p)
  BY <1>5, <1>6 DEF Turns
<1>9. Alone' /\ Held'
  BY <1>1, <1>5, <1>6, <1>7, <1>8, Stepping
<1> QED
  BY <1>4, <1>9 DEF PassInv

\* The same, of a statement that only reads.
LEMMA OneRead ==
  ASSUME PassInv, NEW i \in Slots, NEW o \in Orders, NEW r, req[i].order = o,
         req[i].op \notin {"none", "accept", "sweep"}, Goes(i, r), Fits(r),
         r.op = "none" \/ (r.op = req[i].op /\ r.order = o),
         r.pc = "move" => r.behind \subseteq LinesOn(o),
         UNCHANGED <<rows, torn, tapped>>,
         o \notin torn /\ Has(i, o) => IF r.op = "none" THEN Right(o) ELSE Has(i, o)'
  PROVE  PassInv'
<1> /\ orders' = orders /\ lines' = lines /\ jobs' = jobs /\ pings' = pings /\ torn' = torn
    /\ tapped' = tapped
  BY DEF rows
<1>1. RowsType'
  BY DEF PassInv, Shape, RowsType
<1>2. /\ \A p : LinesOn(p)' = LinesOn(p) /\ StatesOf(p)' = StatesOf(p)
      /\ OnlyOn(o)
  BY DEF OnlyOn, KeepsBut, LinesOn, StatesOf
<1>3. Right(o) => Right(o)'
  BY <1>2, RightStays DEF Alike
<1> QED
  BY <1>1, <1>2, <1>3, OneStep

\* A request at its next statement.
OnTo(r, pc) == [r EXCEPT !.pc = pc]

LEMMA FitsOn ==
  ASSUME NEW r, Fits(r), r.op \notin {"none", "sweep"}, NEW pc \in PcsOf[r.op]
  PROVE  Fits(OnTo(r, pc)) /\ OnTo(r, pc).op = r.op /\ OnTo(r, pc).order = r.order
         /\ OnTo(r, pc).pc = pc /\ OnTo(r, pc).want = r.want
         /\ OnTo(r, pc).rolled = r.rolled /\ OnTo(r, pc).before = r.before
         /\ OnTo(r, pc).scope = r.scope /\ OnTo(r, pc).behind = r.behind
BY DEF OnTo, Fits, Fields, FreeSlot, PcsOf

LEMMA Begun ==
  ASSUME PassInv, NEW i \in Slots
  PROVE  Shape /\ Fits(req[i]) /\ DOMAIN req = Slots /\ RowsType
BY DEF PassInv, Shape

\* The two rows of a status.
LEMMA StatusWritten ==
  ASSUME RowsType, NEW o \in Orders, NEW s \in Words, orders' = [orders EXCEPT ![o].status = s]
  PROVE  /\ orders' \in [Orders -> OrderRow] /\ \A p \in Orders \ {o} : orders'[p] = orders[p]
         /\ orders'[o].status = s /\ orders'[o].voided = orders[o].voided
BY DEF RowsType, OrderRow

LEMMA JobWritten ==
  ASSUME RowsType, NEW o \in Orders, NEW s \in Words, jobs' = [jobs EXCEPT ![o].status = s]
  PROVE  /\ jobs' \in [Orders -> JobRow] /\ \A p \in Orders \ {o} : jobs'[p] = jobs[p]
         /\ jobs'[o].status = s /\ jobs'[o].settled = jobs[o].settled
BY DEF RowsType, JobRow

\* While the lines are left alone, so is what is read of them.
LEMMA LinesRest ==
  ASSUME lines' = lines
  PROVE  \A p : LinesOn(p)' = LinesOn(p) /\ StatesOf(p)' = StatesOf(p)
BY DEF LinesOn, StatesOf

-----------------------------------------------------------------------------
(* A line is tapped, and the round rolls up as a tap does.                 *)

LEMMA TapWritesLineKept ==
  ASSUME PassInv, NEW i \in Slots, TapWritesLine(i) PROVE PassInv'
<1> Shape /\ Fits(req[i]) /\ DOMAIN req = Slots /\ RowsType
  BY Begun
<1>1. req[i].op = "tap" /\ At(i, "line") /\ req[i].want \in Words
  BY Tells DEF TapWritesLine, At, Fits
<1>2. PICK o \in Orders : req[i].order = o
  BY <1>1, Tells
<1>3. /\ orders' = orders /\ jobs' = jobs /\ pings' = pings /\ torn' = torn
      /\ tapped' = IF orders[o].voided THEN tapped \cup {o} ELSE tapped
  BY <1>2 DEF TapWritesLine
<1>4. CASE lines[req[i].line].order = o
  <2>1. lines' = [lines EXCEPT ![req[i].line].status = req[i].want] /\ Goes(i, OnTo(req[i], "before"))
    BY <1>2, <1>4 DEF TapWritesLine, Steps, OnTo
  <2>2. lines' \in Seq(LineRow) /\ KeepsBut(o)
    BY <1>1, <1>4, <2>1, LineTapped
  <2>3. RowsType' /\ OnlyOn(o)
    BY <1>3, <2>2 DEF RowsType, OnlyOn
  <2> DEFINE r == OnTo(req[i], "before")
  <2>4. Fits(r) /\ r.op = "tap" /\ r.order = o /\ r.pc = "before"
    BY <1>1, <1>2, FitsOn DEF PcsOf
  <2>5. req'[i] = r
    BY <2>1, OneGoes
  <2>6. Has(i, o) => Has(i, o)'
    BY <1>1, <1>3, <2>4, <2>5 DEF Has, TapHas, At, Right, Said, Few, Together
  <2> QED
    BY <1>1, <1>2, <1>3, <2>1, <2>3, <2>4, <2>6, OneStep
<1>5. CASE lines[req[i].line].order # o
  <2>1. lines' = lines /\ Goes(i, FreeSlot)
    BY <1>2, <1>5 DEF TapWritesLine, Answers
  <2>2. RowsType' /\ OnlyOn(o)
    BY <1>3, <2>1, LinesRest DEF RowsType, OnlyOn, KeepsBut
  <2>3. Has(i, o) => Right(o)'
    BY <1>1, <1>3, <2>1, LinesRest DEF Has, TapHas, At, Right, Said, Few, Together, Made, Gone
  <2> QED
    BY <1>1, <1>2, <1>3, <2>1, <2>2, <2>3, IdleFits, OneStep
<1> QED
  BY <1>4, <1>5

LEMMA TapReadsOrderKept ==
  ASSUME PassInv, NEW i \in Slots, TapReadsOrder(i) PROVE PassInv'
<1> Shape /\ Fits(req[i]) /\ DOMAIN req = Slots
  BY Begun
<1>1. req[i].op = "tap" /\ At(i, "before")
  BY Tells DEF TapReadsOrder, At
<1>2. PICK o \in Orders : req[i].order = o
  BY <1>1, Tells
<1> DEFINE r == [req[i] EXCEPT !.pc = "lines", !.before = orders[o].status]
<1>3. Goes(i, r) /\ UNCHANGED <<rows, torn, tapped>>
  BY <1>2 DEF TapReadsOrder, history
<1>4. Fits(r) /\ r.op = "tap" /\ r.order = o /\ r.pc = "lines" /\ r.before = orders[o].status
  BY <1>1, <1>2 DEF Fits, Fields, FreeSlot, PcsOf
<1>5. req'[i] = r
  BY <1>3, OneGoes
<1>6. Has(i, o) => Has(i, o)'
  BY <1>1, <1>3, <1>4, <1>5
     DEF Has, TapHas, At, Said, Few, Together, Recalls, rows
<1> QED
  BY <1>1, <1>2, <1>3, <1>4, <1>6, OneRead

LEMMA ReadsLinesKept ==
  ASSUME PassInv, NEW i \in Slots, ReadsLines(i) PROVE PassInv'
<1> Shape /\ Fits(req[i]) /\ DOMAIN req = Slots
  BY Begun
<1>1. req[i].op \in {"tap", "round"} /\ At(i, "lines")
  BY Tells DEF ReadsLines
<1>2. PICK o \in Orders : req[i].order = o
  BY <1>1, Tells
<1> DEFINE rolled == DeriveOrderStatus(StatesOf(o))
           r == [req[i] EXCEPT !.pc = "roll", !.rolled = rolled]
<1>3. /\ UNCHANGED <<rows, torn, tapped>>
      /\ IF rolled = "none" THEN Goes(i, FreeSlot) ELSE Goes(i, r)
  BY <1>2 DEF ReadsLines, history, Answers
<1>4. /\ rolled \in Words /\ Fair(rolled, StatesOf(o))
      /\ rolled = "none" => StatesOf(o) = {}
      /\ "new" \in StatesOf(o) => rolled # "ready"
  BY DerivedIsFair
<1> HIDE DEF rolled
<1>5. Fits(r) /\ r.op = req[i].op /\ r.order = o /\ r.pc = "roll" /\ r.rolled = rolled /\ r.before = req[i].before
  BY <1>1, <1>2, <1>4 DEF Fits, Fields, FreeSlot, PcsOf
<1>6. CASE rolled = "none"
  <2>1. Has(i, o) => Right(o)
    BY <1>1, <1>4, <1>6 DEF Has, TapHas, RoundHas, At, Right, Made, Fair, Gone
  <2> QED
    BY <1>1, <1>2, <1>3, <1>6, <2>1, IdleFits, OneRead
<1>7. CASE rolled # "none"
  <2>1. req'[i] = r
    BY <1>3, <1>7, OneGoes
  <2>2. StatesOf(o)' = StatesOf(o) /\ (Said(o) => Said(o)') /\ (Together(o) => Together(o)')
        /\ (Stands(o) => Stands(o)') /\ (Recalls(i, o) => Recalls(i, o)')
    BY <1>3, <1>5, <2>1, LinesRest DEF rows, Said, Few, Together, Stands, Recalls
  <2>3. Has(i, o) => Has(i, o)'
    BY <1>1, <1>3, <1>4, <1>5, <2>1, <2>2 DEF Has, TapHas, RoundHas, At, rows
  <2> QED
    BY <1>1, <1>2, <1>3, <1>5, <1>7, <2>3, OneRead
<1> QED
  BY <1>6, <1>7

LEMMA WritesRolledKept ==
  ASSUME PassInv, NEW i \in Slots, WritesRolled(i) PROVE PassInv'
<1> Shape /\ Fits(req[i]) /\ DOMAIN req = Slots /\ RowsType
  BY Begun
<1>1. req[i].op \in {"tap", "round"} /\ At(i, "roll") /\ req[i].rolled \in Words
  BY Tells DEF WritesRolled, Fits
<1>2. PICK o \in Orders : req[i].order = o
  BY <1>1, Tells
<1>3. orders' = [orders EXCEPT ![o].status = req[i].rolled]
      /\ lines' = lines /\ jobs' = jobs /\ pings' = pings /\ torn' = torn /\ tapped' = tapped
  BY <1>2 DEF WritesRolled, history
<1>4. /\ orders' \in [Orders -> OrderRow] /\ \A p \in Orders \ {o} : orders'[p] = orders[p]
      /\ orders'[o].status = req[i].rolled /\ orders'[o].voided = orders[o].voided
  BY <1>1, <1>3, StatusWritten
<1>5. RowsType' /\ OnlyOn(o)
  BY <1>3, <1>4, LinesRest DEF RowsType, OnlyOn, KeepsBut
<1>6. Has(i, o) => /\ Fair(req[i].rolled, StatesOf(o)) /\ Said(o) /\ Together(o)
                   /\ orders[o].voided => o \in tapped
                   /\ req[i].op = "tap" => Recalls(i, o)
                   /\ req[i].op = "round" => req[i].rolled # "ready"
  BY <1>1 DEF Has, TapHas, RoundHas, At, Stands
<1>7. Has(i, o) => Made(o)' /\ Gone(o)' /\ Together(o)' /\ Few(o)'
  BY <1>3, <1>4, <1>6, LinesRest DEF Made, Gone, Together, Said, Few
<1>8. CASE req[i].op = "tap" /\ BecameReady(req[i], req[i].rolled)
  <2> DEFINE r == OnTo(req[i], "look")
  <2>1. Goes(i, r)
    BY <1>8 DEF WritesRolled, Proceeds, Steps, OnTo
  <2>2. Fits(r) /\ r.op = "tap" /\ r.order = o /\ r.pc = "look"
    BY <1>2, <1>8, FitsOn DEF PcsOf
  <2>3. req'[i] = r
    BY <2>1, OneGoes
  <2>4. Has(i, o) => Has(i, o)'
    BY <1>2, <1>4, <1>7, <1>8, <2>2, <2>3 DEF Has, TapHas, At, Announces, BecameReady
  <2> QED
    BY <1>1, <1>2, <1>3, <1>5, <1>8, <2>1, <2>2, <2>4, OneStep
<1>9. CASE ~(req[i].op = "tap" /\ BecameReady(req[i], req[i].rolled))
  <2>1. Goes(i, FreeSlot)
    BY <1>9 DEF WritesRolled, Proceeds, Answers
  <2>2. Has(i, o) => Said(o)'
    BY <1>1, <1>2, <1>3, <1>4, <1>6, <1>9 DEF Said, Few, Recalls, BecameReady
  <2>3. Has(i, o) => Right(o)'
    BY <1>7, <2>2 DEF Right
  <2> QED
    BY <1>1, <1>2, <1>3, <1>5, <2>1, <2>3, IdleFits, OneStep
<1> QED
  BY <1>8, <1>9

-----------------------------------------------------------------------------
(* The ping.                                                               *)

LEMMA PingLooksKept ==
  ASSUME PassInv, NEW i \in Slots, PingLooks(i) PROVE PassInv'
<1> Shape /\ Fits(req[i]) /\ DOMAIN req = Slots /\ RowsType
  BY Begun
<1>1. req[i].op \in {"tap", "ticket"} /\ At(i, "look")
  BY Tells DEF PingLooks, At
<1>2. PICK o \in Orders : req[i].order = o
  BY <1>1, Tells
<1>3. UNCHANGED <<rows, torn, tapped>> /\ pings[o] \in Nat
  BY DEF PingLooks, history, RowsType
<1>4. Has(i, o) => Announces(i, o)
  BY <1>1 DEF Has, TapHas, TicketHas, At
<1>5. CASE Live(o)
  <2>1. Goes(i, FreeSlot)
    BY <1>2, <1>5 DEF PingLooks, Proceeds, Answers
  <2>2. Has(i, o) => Right(o)
    BY <1>3, <1>4, <1>5 DEF Announces, Right, Said, Few, Together, Live
  <2> QED
    BY <1>1, <1>2, <1>3, <2>1, <2>2, IdleFits, OneRead
<1>6. CASE ~Live(o)
  <2> DEFINE r == OnTo(req[i], "ping")
  <2>1. Goes(i, r)
    BY <1>2, <1>6 DEF PingLooks, Proceeds, Steps, OnTo
  <2>2. Fits(r) /\ r.op = req[i].op /\ r.order = o /\ r.pc = "ping"
    BY <1>1, <1>2, FitsOn DEF PcsOf
  <2>3. req'[i] = r
    BY <2>1, OneGoes
  <2>4. Announces(i, o) => Announces(i, o)'
    BY <1>3, <1>6, <2>2, <2>3, LinesRest DEF Announces, At, Made, Gone, Few, Live, rows
  <2>5. Has(i, o) => Has(i, o)'
    BY <1>1, <1>3, <1>4, <2>2, <2>3, <2>4 DEF Has, TapHas, TicketHas, At, Stands, rows
  <2> QED
    BY <1>1, <1>2, <1>3, <2>1, <2>2, <2>5, OneRead
<1> QED
  BY <1>5, <1>6

LEMMA PingInsertsKept ==
  ASSUME PassInv, NEW i \in Slots, PingInserts(i) PROVE PassInv'
<1> Shape /\ Fits(req[i]) /\ DOMAIN req = Slots /\ RowsType
  BY Begun
<1>1. req[i].op \in {"tap", "ticket"} /\ At(i, "ping")
  BY Tells DEF PingInserts, At
<1>2. PICK o \in Orders : req[i].order = o
  BY <1>1, Tells
<1>3. /\ pings' = [pings EXCEPT ![o] = @ + 1] /\ Goes(i, FreeSlot)
      /\ orders' = orders /\ lines' = lines /\ jobs' = jobs /\ torn' = torn /\ tapped' = tapped
  BY <1>2 DEF PingInserts, history, Answers
<1>4. pings' \in [Orders -> Nat] /\ pings'[o] = pings[o] + 1 /\ \A p \in Orders \ {o} : pings'[p] = pings[p]
  BY <1>3 DEF RowsType
<1>5. RowsType' /\ OnlyOn(o)
  BY <1>3, <1>4, LinesRest DEF RowsType, OnlyOn, KeepsBut
<1>6. Has(i, o) => Announces(i, o)
  BY <1>1 DEF Has, TapHas, TicketHas, At
<1>7. Has(i, o) => Right(o)'
  BY <1>1, <1>3, <1>4, <1>6, LinesRest DEF Announces, Right, Made, Gone, Said, Few, Together, At
<1> QED
  BY <1>1, <1>2, <1>3, <1>5, <1>7, IdleFits, OneStep

-----------------------------------------------------------------------------
(* A whole ticket, or a station's part of it.                              *)

LEMMA TicketChecksKept ==
  ASSUME PassInv, NEW i \in Slots, TicketChecks(i) PROVE PassInv'
<1> Shape /\ Fits(req[i]) /\ DOMAIN req = Slots /\ RowsType
  BY Begun
<1>1. req[i].op = "ticket" /\ At(i, "check")
  BY DEF TicketChecks
<1>2. PICK o \in Orders : req[i].order = o
  BY <1>1, Tells
<1>3. UNCHANGED <<rows, torn, tapped>>
  BY DEF TicketChecks, history
<1>4. Has(i, o) => Right(o)
  BY <1>1 DEF Has, TicketHas
<1>5. CASE orders[o].voided
  <2>1. Goes(i, FreeSlot)
    BY <1>2, <1>5 DEF TicketChecks, Answers
  <2> QED
    BY <1>1, <1>2, <1>3, <1>4, <2>1, IdleFits, OneRead
<1>6. CASE ~orders[o].voided
  <2> DEFINE r == [req[i] EXCEPT !.pc = "write", !.before = orders[o].status]
  <2>1. Goes(i, r)
    BY <1>2, <1>6 DEF TicketChecks
  <2>2. Fits(r) /\ r.op = "ticket" /\ r.order = o /\ r.pc = "write" /\ r.before = orders[o].status
    BY <1>1, <1>2 DEF Fits, Fields, FreeSlot, PcsOf
  <2>3. req'[i] = r
    BY <2>1, OneGoes
  <2>4. Right(o) => Has(i, o)'
    BY <1>3, <1>6, <2>2, <2>3 DEF Has, TicketHas, At, Stands, rows, Right, Recalls, Said, Few, Together
  <2> QED
    BY <1>1, <1>2, <1>3, <1>4, <2>1, <2>2, <2>4, OneRead
<1> QED
  BY <1>5, <1>6

LEMMA TicketWritesKept ==
  ASSUME PassInv, NEW i \in Slots, TicketWrites(i) PROVE PassInv'
<1> Shape /\ Fits(req[i]) /\ DOMAIN req = Slots /\ RowsType
  BY Begun
<1>1. req[i].op = "ticket" /\ At(i, "write") /\ req[i].want \in Words
  BY Tells DEF TicketWrites, At, Fits
<1>2. PICK o \in Orders : req[i].order = o
  BY <1>1, Tells
<1> DEFINE r == [req[i] EXCEPT !.pc = "behind", !.rolled = req[i].want]
<1>3. /\ Goes(i, r) /\ lines' = lines /\ jobs' = jobs /\ pings' = pings /\ torn' = torn
      /\ tapped' = tapped
  BY DEF TicketWrites, history
<1>4. /\ Fits(r) /\ r.op = "ticket" /\ r.order = o /\ r.pc = "behind"
      /\ r.rolled = req[i].want /\ r.want = req[i].want /\ r.scope = req[i].scope
      /\ r.before = req[i].before
  BY <1>1, <1>2 DEF Fits, Fields, FreeSlot, PcsOf
<1>5. req'[i] = r
  BY <1>3, OneGoes
<1>6. Has(i, o) => Stands(o) /\ Together(o) /\ Recalls(i, o) /\ Said(o)
  BY <1>1 DEF Has, TicketHas, At
<1>7. CASE req[i].scope = "none"
  <2>1. orders' = [orders EXCEPT ![o].status = req[i].want]
    BY <1>2, <1>7 DEF TicketWrites
  <2>2. /\ orders' \in [Orders -> OrderRow] /\ \A p \in Orders \ {o} : orders'[p] = orders[p]
        /\ orders'[o].status = req[i].want /\ orders'[o].voided = orders[o].voided
    BY <1>1, <2>1, StatusWritten
  <2>3. RowsType' /\ OnlyOn(o)
    BY <1>3, <2>2, LinesRest DEF RowsType, OnlyOn, KeepsBut
  <2>4. Has(i, o) => Stands(o)' /\ Together(o)' /\ Written(i, o)'
    BY <1>3, <1>4, <1>5, <1>6, <1>7, <2>2
       DEF Stands, Together, Written, Asked, Recalls, Said, Few
  <2>5. Has(i, o) => Has(i, o)'
    BY <1>4, <1>5, <2>4 DEF Has, TicketHas, At
  <2> QED
    BY <1>1, <1>2, <1>3, <1>4, <2>3, <2>5, OneStep
<1>8. CASE req[i].scope # "none"
  <2>1. orders' = orders
    BY <1>8 DEF TicketWrites
  <2>2. Has(i, o) => Stands(o)' /\ Together(o)' /\ Written(i, o)'
    BY <1>3, <1>4, <1>5, <1>6, <1>8, <2>1
       DEF Stands, Together, Written, Recalls, Said, Few
  <2>3. Has(i, o) => Has(i, o)'
    BY <1>4, <1>5, <2>2 DEF Has, TicketHas, At
  <2> QED
    BY <1>1, <1>2, <1>3, <1>4, <2>1, <2>3, OneRead DEF rows
<1> QED
  BY <1>7, <1>8

\* What an UPDATE without a scope has moved agrees with what was asked for.
LEMMA MovedIsFair ==
  ASSUME RowsType, NEW i \in Slots, NEW o \in Orders, req[i].order = o, req[i].scope = "none",
         req[i].want \in Words, lines' = Advanced(Behind(req[i]), ItemStatusOf(req[i].want))
  PROVE  /\ ItemStatusOf(req[i].want) \in Words
         /\ Fair(req[i].want, StatesOf(o)')
<1> DEFINE want == req[i].want
           to   == ItemStatusOf(want)
<1>1. to \in Words
  BY DEF ItemStatusOf, Words
<1>2. /\ want = "ready" => to = "ready"
      /\ want \in {"served", "fulfilled", "completed"} => to = "served"
  BY DEF ItemStatusOf
<1>3. \A n \in Behind(req[i]) \cap DOMAIN lines : lines[n].order = o
  BY DEF Behind, LinesOn
<1>4. /\ LinesOn(o)' = LinesOn(o)
      /\ \A n \in DOMAIN lines : lines'[n].status = IF n \in Behind(req[i]) THEN to ELSE lines[n].status
  BY <1>1, <1>3, LinesMove
<1>5. Behind(req[i]) = {n \in LinesOn(o) : lines[n].status \in BehindStates(to)}
  BY DEF Behind, Stations
<1>6. \A n \in LinesOn(o) : n \in DOMAIN lines
  BY DEF LinesOn
<1>7. want = "ready" => StatesOf(o)' \subseteq {"ready", "served"}
  <2> HAVE want = "ready"
  <2>1. \A n \in LinesOn(o) : lines'[n].status \in {"new", "preparing"} => FALSE
    BY <1>2, <1>4, <1>5, <1>6, Flow
  <2> QED
    BY <2>1, <1>4, Flow DEF StatesOf
<1>8. want \in {"served", "fulfilled", "completed"} => StatesOf(o)' \subseteq {"served"}
  <2> HAVE want \in {"served", "fulfilled", "completed"}
  <2>1. \A n \in LinesOn(o) : lines'[n].status \in {"new", "preparing", "ready"} => FALSE
    BY <1>2, <1>4, <1>5, <1>6, Flow
  <2> QED
    BY <2>1, <1>4, Flow DEF StatesOf
<1> QED
  BY <1>1, <1>7, <1>8 DEF Fair

\* Once the status and the lines are written, the job follows or the ping is raised.
LEMMA Landed ==
  ASSUME PassInv, RowsType', NEW i \in Slots, NEW o \in Orders, req[i].order = o,
         req[i].op = "ticket", torn' = torn, OnlyOn(o), Proceeds(i, AfterStatus(req[i])),
         o \notin torn /\ Has(i, o) =>
           /\ Made(o)' /\ Stands(o)' /\ Together(o)' /\ Few(o)'
           /\ BecameReady(req[i], req[i].rolled) => orders'[o].status = "ready"
           /\ ~BecameReady(req[i], req[i].rolled) => Said(o)'
  PROVE  PassInv'
<1> Shape /\ Fits(req[i]) /\ DOMAIN req = Slots /\ RowsType
  BY Begun
<1> DEFINE r(pc) == OnTo(req[i], pc)
<1>1. \A pc \in {"job", "look"} : Fits(r(pc)) /\ r(pc).op = "ticket" /\ r(pc).order = o /\ r(pc).pc = pc
  BY FitsOn DEF PcsOf
<1>2. CASE o \in Delivery
  <2>1. Goes(i, r("job"))
    BY <1>2 DEF Proceeds, AfterStatus, BecameReady, Steps, OnTo
  <2>2. req'[i] = r("job")
    BY <2>1, OneGoes
  <2>3. o \notin torn /\ Has(i, o) => Has(i, o)'
    BY <1>1, <1>2, <2>2 DEF Has, TicketHas, At
  <2> QED
    BY <1>1, <2>1, <2>3, OneStep
<1>3. CASE BecameReady(req[i], req[i].rolled)
  <2>1. Goes(i, r("look")) /\ o \notin Delivery
    BY <1>3 DEF Proceeds, AfterStatus, BecameReady, Steps, OnTo
  <2>2. req'[i] = r("look")
    BY <2>1, OneGoes
  <2>3. o \notin torn /\ Has(i, o) => Has(i, o)'
    BY <1>1, <1>3, <2>1, <2>2 DEF Has, TicketHas, At, Announces, Gone, Stands
  <2> QED
    BY <1>1, <2>1, <2>3, OneStep
<1>4. CASE o \notin Delivery /\ ~BecameReady(req[i], req[i].rolled)
  <2>1. Goes(i, FreeSlot)
    BY <1>4 DEF Proceeds, AfterStatus, Answers
  <2>2. o \notin torn /\ Has(i, o) => Right(o)'
    BY <1>4 DEF Right, Gone, Stands
  <2> QED
    BY <2>1, <2>2, IdleFits, OneStep
<1> QED
  BY <1>2, <1>3, <1>4

LEMMA TicketMovesKept ==
  ASSUME PassInv, NEW i \in Slots, TicketMoves(i) PROVE PassInv'
<1> Shape /\ Fits(req[i]) /\ DOMAIN req = Slots /\ RowsType
  BY Begun
<1>1. req[i].op = "ticket" /\ At(i, "behind") /\ req[i].want \in Words
  BY Tells DEF TicketMoves, At, Fits
<1>2. PICK o \in Orders : req[i].order = o
  BY <1>1, Tells
<1>3. orders' = orders /\ jobs' = jobs /\ pings' = pings /\ torn' = torn /\ tapped' = tapped
  BY DEF TicketMoves, history
<1>4. Has(i, o) => Stands(o) /\ Together(o) /\ Written(i, o)
  BY <1>1 DEF Has, TicketHas, At
<1>5. CASE req[i].scope = "none"
  <2>1. /\ lines' = Advanced(Behind(req[i]), ItemStatusOf(req[i].want))
        /\ Proceeds(i, AfterStatus(req[i]))
    BY <1>5 DEF TicketMoves
  <2>2. ItemStatusOf(req[i].want) \in Words /\ Fair(req[i].want, StatesOf(o)')
    BY <1>1, <1>2, <1>5, <2>1, MovedIsFair
  <2>3. \A n \in Behind(req[i]) \cap DOMAIN lines : lines[n].order = o
    BY <1>2 DEF Behind, LinesOn
  <2>4. lines' \in Seq(LineRow) /\ KeepsBut(o)
    BY <2>1, <2>2, <2>3, LinesMove
  <2>5. RowsType' /\ OnlyOn(o)
    BY <1>3, <2>4 DEF RowsType, OnlyOn
  <2>6. Has(i, o) => Stands(o)' /\ Together(o)' /\ Few(o)' /\ Asked(i, o)
                     /\ req[i].rolled = req[i].want /\ (req[i].before = "ready" => Said(o)')
    BY <1>3, <1>4, <1>5 DEF Stands, Together, Few, Written, Said
  <2>7. Has(i, o) => Made(o)'
    BY <1>3, <2>2, <2>6 DEF Made, Asked, Fair
  <2>8. Has(i, o) => /\ BecameReady(req[i], req[i].rolled) => orders'[o].status = "ready"
                     /\ ~BecameReady(req[i], req[i].rolled) => Said(o)'
    BY <1>2, <1>3, <2>6 DEF BecameReady, Asked, Said, Few
  <2> QED
    BY <1>1, <1>2, <1>3, <2>1, <2>5, <2>6, <2>7, <2>8, Landed
<1>6. CASE req[i].scope # "none"
  <2> DEFINE r == [req[i] EXCEPT !.pc = "move", !.behind = Behind(req[i])]
  <2>1. Goes(i, r) /\ lines' = lines
    BY <1>6 DEF TicketMoves
  <2>2. Behind(req[i]) \subseteq LinesOn(o)
    BY <1>2 DEF Behind
  <2>3. /\ Fits(r) /\ r.op = "ticket" /\ r.order = o /\ r.pc = "move"
        /\ r.behind = Behind(req[i]) /\ r.before = req[i].before
    BY <1>1, <1>2 DEF Fits, Fields, FreeSlot, PcsOf
  <2>4. req'[i] = r
    BY <2>1, OneGoes
  <2>5. Has(i, o) => Stands(o)' /\ Together(o)' /\ Recalls(i, o)' /\ Said(o)'
    BY <1>3, <1>4, <1>6, <2>3, <2>4 DEF Written, Stands, Together, Recalls, Said, Few
  <2>6. Has(i, o) => Has(i, o)'
    BY <2>3, <2>4, <2>5 DEF Has, TicketHas, At
  <2> QED
    BY <1>1, <1>2, <1>3, <2>1, <2>2, <2>3, <2>6, OneRead DEF rows
<1> QED
  BY <1>5, <1>6

LEMMA TicketMovesReadKept ==
  ASSUME PassInv, NEW i \in Slots, TicketMovesRead(i) PROVE PassInv'
<1> Shape /\ Fits(req[i]) /\ DOMAIN req = Slots /\ RowsType
  BY Begun
<1>1. req[i].op = "ticket" /\ At(i, "move") /\ req[i].want \in Words
  BY Tells DEF TicketMovesRead, At, Fits
<1>2. PICK o \in Orders : req[i].order = o
  BY <1>1, Tells
<1> DEFINE r == [req[i] EXCEPT !.pc = "derive", !.behind = {}]
<1>3. /\ Goes(i, r) /\ lines' = Advanced(req[i].behind, ItemStatusOf(req[i].want))
      /\ orders' = orders /\ jobs' = jobs /\ pings' = pings /\ torn' = torn /\ tapped' = tapped
  BY DEF TicketMovesRead, history
<1>4. ItemStatusOf(req[i].want) \in Words
  BY <1>1 DEF ItemStatusOf, Words
<1>5. \A n \in req[i].behind \cap DOMAIN lines : lines[n].order = o
  BY <1>1, <1>2 DEF Shape, Grasps, LinesOn
<1>6. lines' \in Seq(LineRow) /\ KeepsBut(o)
  BY <1>3, <1>4, <1>5, LinesMove
<1>7. RowsType' /\ OnlyOn(o)
  BY <1>3, <1>6 DEF RowsType, OnlyOn
<1>8. /\ Fits(r) /\ r.op = "ticket" /\ r.order = o /\ r.pc = "derive" /\ r.before = req[i].before
  BY <1>1, <1>2 DEF Fits, Fields, FreeSlot, PcsOf
<1>9. req'[i] = r
  BY <1>3, OneGoes
<1>10. Has(i, o) => Stands(o)' /\ Together(o)' /\ Recalls(i, o)' /\ Said(o)'
  BY <1>1, <1>3, <1>8, <1>9 DEF Has, TicketHas, At, Stands, Together, Recalls, Said, Few
<1>11. Has(i, o) => Has(i, o)'
  BY <1>8, <1>9, <1>10 DEF Has, TicketHas, At
<1> QED
  BY <1>1, <1>2, <1>3, <1>7, <1>8, <1>11, OneStep

LEMMA TicketDerivesKept ==
  ASSUME PassInv, NEW i \in Slots, TicketDerives(i) PROVE PassInv'
<1> Shape /\ Fits(req[i]) /\ DOMAIN req = Slots
  BY Begun
<1>1. req[i].op = "ticket" /\ At(i, "derive") /\ req[i].want \in Words
  BY Tells DEF TicketDerives, At, Fits
<1>2. PICK o \in Orders : req[i].order = o
  BY <1>1, Tells
<1> DEFINE rolled == EffectiveStatus(DeriveOrderStatus(StatesOf(o)), req[i].want)
           r == [req[i] EXCEPT !.pc = "store", !.rolled = rolled]
<1>3. Goes(i, r) /\ UNCHANGED <<rows, torn, tapped>>
  BY <1>2 DEF TicketDerives, history
<1>4. rolled \in Words /\ Fair(rolled, StatesOf(o))
  BY <1>1, DerivedIsFair, EffectiveIsFair
<1> HIDE DEF rolled
<1>5. /\ Fits(r) /\ r.op = "ticket" /\ r.order = o /\ r.pc = "store" /\ r.rolled = rolled
      /\ r.before = req[i].before
  BY <1>1, <1>2, <1>4 DEF Fits, Fields, FreeSlot, PcsOf
<1>6. req'[i] = r
  BY <1>3, OneGoes
<1>7. /\ StatesOf(o)' = StatesOf(o)
      /\ Has(i, o) => Stands(o)' /\ Together(o)' /\ Recalls(i, o)' /\ Said(o)'
  BY <1>1, <1>3, <1>5, <1>6, LinesRest
     DEF rows, Has, TicketHas, At, Stands, Together, Recalls, Said, Few
<1>8. Has(i, o) => Has(i, o)'
  BY <1>4, <1>5, <1>6, <1>7 DEF Has, TicketHas, At
<1> QED
  BY <1>1, <1>2, <1>3, <1>5, <1>8, OneRead

LEMMA TicketStoresKept ==
  ASSUME PassInv, NEW i \in Slots, TicketStores(i) PROVE PassInv'
<1> Shape /\ Fits(req[i]) /\ DOMAIN req = Slots /\ RowsType
  BY Begun
<1>1. req[i].op = "ticket" /\ At(i, "store") /\ req[i].rolled \in Words
  BY Tells DEF TicketStores, At, Fits
<1>2. PICK o \in Orders : req[i].order = o
  BY <1>1, Tells
<1>3. /\ orders' = [orders EXCEPT ![o].status = req[i].rolled] /\ Proceeds(i, AfterStatus(req[i]))
      /\ lines' = lines /\ jobs' = jobs /\ pings' = pings /\ torn' = torn /\ tapped' = tapped
  BY <1>2 DEF TicketStores, history
<1>4. /\ orders' \in [Orders -> OrderRow] /\ \A p \in Orders \ {o} : orders'[p] = orders[p]
      /\ orders'[o].status = req[i].rolled /\ orders'[o].voided = orders[o].voided
  BY <1>1, <1>3, StatusWritten
<1>5. RowsType' /\ OnlyOn(o)
  BY <1>3, <1>4, LinesRest DEF RowsType, OnlyOn, KeepsBut
<1>6. Has(i, o) => Stands(o) /\ Together(o) /\ Recalls(i, o) /\ Said(o) /\ Fair(req[i].rolled, StatesOf(o))
  BY <1>1 DEF Has, TicketHas, At
<1>7. Has(i, o) => Made(o)' /\ Stands(o)' /\ Together(o)' /\ Few(o)'
  BY <1>3, <1>4, <1>6, LinesRest DEF Made, Stands, Together, Said, Few
<1>8. Has(i, o) => /\ BecameReady(req[i], req[i].rolled) => orders'[o].status = "ready"
                   /\ ~BecameReady(req[i], req[i].rolled) => Said(o)'
  BY <1>2, <1>3, <1>4, <1>6 DEF BecameReady, Said, Few, Recalls
<1> QED
  BY <1>1, <1>2, <1>3, <1>5, <1>7, <1>8, Landed

LEMMA TicketReadsJobKept ==
  ASSUME PassInv, NEW i \in Slots, TicketReadsJob(i) PROVE PassInv'
<1> Shape /\ Fits(req[i]) /\ DOMAIN req = Slots /\ RowsType
  BY Begun
<1>1. req[i].op = "ticket" /\ At(i, "job")
  BY DEF TicketReadsJob
<1>2. PICK o \in Orders : req[i].order = o
  BY <1>1, Tells
<1>3. UNCHANGED <<rows, torn, tapped>>
  BY DEF TicketReadsJob, history
<1>4. Has(i, o) => o \in Delivery /\ Stands(o) /\ Together(o)
  BY <1>1 DEF Has, TicketHas, At
<1>5. CASE req[i].rolled \in Mirrored /\ CanTransition(jobs[o].status, req[i].rolled)
  <2> DEFINE r == OnTo(req[i], "jobWrite")
  <2>1. Goes(i, r)
    BY <1>2, <1>5 DEF TicketReadsJob, Proceeds, Steps, OnTo
  <2>2. Fits(r) /\ r.op = "ticket" /\ r.order = o /\ r.pc = "jobWrite" /\ r.rolled = req[i].rolled
    BY <1>1, <1>2, FitsOn DEF PcsOf
  <2>3. req'[i] = r
    BY <2>1, OneGoes
  <2>4. Has(i, o) => Has(i, o)'
    BY <1>3, <1>4, <1>5, <2>2, <2>3 DEF Has, TicketHas, At, Stands, Together, rows
  <2> QED
    BY <1>1, <1>2, <1>3, <2>1, <2>2, <2>4, OneRead
<1>6. CASE ~(req[i].rolled \in Mirrored /\ CanTransition(jobs[o].status, req[i].rolled))
  <2>1. Goes(i, FreeSlot)
    BY <1>2, <1>6 DEF TicketReadsJob, Proceeds, Answers
  <2>2. Has(i, o) => Right(o)
    BY <1>4 DEF Right, Made, Said, Few, Gone, Stands
  <2> QED
    BY <1>1, <1>2, <1>3, <2>1, <2>2, IdleFits, OneRead
<1> QED
  BY <1>5, <1>6

LEMMA TicketWritesJobKept ==
  ASSUME PassInv, NEW i \in Slots, TicketWritesJob(i) PROVE PassInv'
<1> Shape /\ Fits(req[i]) /\ DOMAIN req = Slots /\ RowsType
  BY Begun
<1>1. req[i].op = "ticket" /\ At(i, "jobWrite") /\ req[i].rolled \in Words
  BY Tells DEF TicketWritesJob, At, Fits
<1>2. PICK o \in Orders : req[i].order = o
  BY <1>1, Tells
<1>3. /\ jobs' = [jobs EXCEPT ![o].status = req[i].rolled] /\ Goes(i, FreeSlot)
      /\ orders' = orders /\ lines' = lines /\ pings' = pings /\ torn' = torn /\ tapped' = tapped
  BY <1>2 DEF TicketWritesJob, history, Answers
<1>4. /\ jobs' \in [Orders -> JobRow] /\ \A p \in Orders \ {o} : jobs'[p] = jobs[p]
      /\ jobs'[o].status = req[i].rolled
  BY <1>1, <1>3, JobWritten
<1>5. RowsType' /\ OnlyOn(o)
  BY <1>3, <1>4, LinesRest DEF RowsType, OnlyOn, KeepsBut
<1>6. Has(i, o) => o \in Delivery /\ Stands(o) /\ req[i].rolled \in Mirrored
  BY <1>1 DEF Has, TicketHas, At
<1>7. Has(i, o) => Right(o)'
  BY <1>3, <1>4, <1>6 DEF Right, Made, Said, Few, Gone, Together, Stands, Mirrored
<1> QED
  BY <1>1, <1>2, <1>3, <1>5, <1>7, IdleFits, OneStep

-----------------------------------------------------------------------------
(* A guest's order is accepted; a round is added.                          *)

\* Steps that write nothing another request of an order goes by.
LEMMA Beside ==
  ASSUME PassInv, RowsType', NEW i \in Slots, NEW r, Goes(i, r), Fits(r), r.pc # "move",
         Touches(r) = {}, Touches(req[i]) = {}, torn' = torn, lines' = lines,
         \A p \in Orders : Alike(p)
  PROVE  PassInv'
<1> Shape /\ Alone /\ Held /\ DOMAIN req = Slots
  BY DEF PassInv, Shape
<1>1. DOMAIN req' = Slots /\ req'[i] = r /\ \A j \in Slots \ {i} : req'[j] = req[j]
  BY OneGoes
<1>2. \A j \in Slots \ {i} : Fits(req'[j]) /\ Grasps(j)'
  BY <1>1, GraspsOn, LinesRest
<1>3. Shape'
  BY <1>1, <1>2 DEF Shape, Grasps, At
<1>4. \A p \in Orders \ torn' : Turns(i, p)
  BY <1>1 DEF Turns
<1>5. Alone' /\ Held'
  BY <1>1, <1>4, Stepping
<1> QED
  BY <1>3, <1>5 DEF PassInv

LEMMA AcceptChecksKept ==
  ASSUME PassInv, NEW i \in Slots, AcceptChecks(i) PROVE PassInv'
<1> Shape /\ Fits(req[i]) /\ DOMAIN req = Slots /\ RowsType
  BY Begun
<1>1. req[i].op = "accept" /\ Touches(req[i]) = {}
  BY Tells DEF AcceptChecks
<1>2. PICK r : Goes(i, r) /\ (r = FreeSlot \/ r = OnTo(req[i], "accepted"))
  BY DEF AcceptChecks, Proceeds, Answers, Steps, OnTo
<1>3. Fits(r) /\ r.pc # "move" /\ Touches(r) = {}
  BY <1>1, <1>2, IdleFits, FitsOn DEF PcsOf, Touches
<1>4. UNCHANGED <<orders, lines, jobs, pings, torn, tapped>>
  BY DEF AcceptChecks, history, rows
<1>5. RowsType' /\ \A p \in Orders : Alike(p)
  BY <1>4, LinesRest DEF RowsType, Alike
<1> QED
  BY <1>1, <1>2, <1>3, <1>4, <1>5, Beside

LEMMA AcceptWritesKept ==
  ASSUME PassInv, NEW i \in Slots, AcceptWrites(i) PROVE PassInv'
<1> Shape /\ Fits(req[i]) /\ DOMAIN req = Slots /\ RowsType
  BY Begun
<1>1. req[i].op = "accept" /\ Touches(req[i]) = {} /\ req[i].order \in Orders
  BY Tells DEF AcceptWrites, At
<1>2. Goes(i, FreeSlot) /\ UNCHANGED <<lines, jobs, pings, torn, tapped>>
  BY DEF AcceptWrites, history, Answers
<1>3. orders' \in [Orders -> OrderRow] /\ \A p \in Orders :
        /\ \/ orders'[p].status = orders[p].status
           \/ orders[p].status = "new" /\ orders'[p].status = "confirmed"
        /\ orders'[p].voided = orders[p].voided
  <2>1. CASE Acceptable(req[i].order)
    <3>1. orders' = [orders EXCEPT ![req[i].order].status = "confirmed"]
      BY <2>1 DEF AcceptWrites
    <3>2. "confirmed" \in Words
      BY DEF Words, JobStates
    <3> QED
      BY <1>1, <2>1, <3>1, <3>2, StatusWritten DEF Acceptable
  <2>2. CASE ~Acceptable(req[i].order)
    BY <2>2 DEF AcceptWrites, RowsType
  <2> QED
    BY <2>1, <2>2
<1>4. RowsType' /\ \A p \in Orders : Alike(p)
  BY <1>2, <1>3, LinesRest DEF RowsType, Alike
<1> QED
  BY <1>1, <1>2, <1>4, IdleFits, Beside

LEMMA RoundChecksKept ==
  ASSUME PassInv, NEW i \in Slots, RoundChecks(i) PROVE PassInv'
<1> Shape /\ Fits(req[i]) /\ DOMAIN req = Slots /\ RowsType
  BY Begun
<1>1. req[i].op = "round" /\ At(i, "check")
  BY DEF RoundChecks
<1>2. PICK o \in Orders : req[i].order = o
  BY <1>1, Tells
<1>3. UNCHANGED <<rows, torn, tapped>>
  BY DEF RoundChecks, history
<1>4. Has(i, o) => Right(o)
  BY <1>1 DEF Has, RoundHas, At
<1>5. \/ Goes(i, FreeSlot)
      \/ Goes(i, OnTo(req[i], "insert")) /\ ~orders[o].voided
  BY <1>2 DEF RoundChecks, Proceeds, Answers, Steps, OnTo
<1>6. CASE Goes(i, FreeSlot)
  BY <1>1, <1>2, <1>3, <1>4, <1>6, IdleFits, OneRead
<1>7. CASE Goes(i, OnTo(req[i], "insert")) /\ ~orders[o].voided
  <2> DEFINE r == OnTo(req[i], "insert")
  <2>1. Fits(r) /\ r.op = "round" /\ r.order = o /\ r.pc = "insert"
    BY <1>1, <1>2, FitsOn DEF PcsOf
  <2>2. req'[i] = r
    BY <1>7, OneGoes
  <2>3. Right(o) => Right(o)'
    BY <1>3, LinesRest, RightStays DEF rows, Alike
  <2>4. Has(i, o) => Has(i, o)'
    BY <1>3, <1>4, <1>7, <2>1, <2>2, <2>3 DEF Has, RoundHas, At, Stands, rows
  <2> QED
    BY <1>1, <1>2, <1>3, <1>7, <2>1, <2>4, OneRead
<1> QED
  BY <1>5, <1>6, <1>7

LEMMA RoundInsertsKept ==
  ASSUME PassInv, NEW i \in Slots, RoundInserts(i) PROVE PassInv'
<1> Shape /\ Fits(req[i]) /\ DOMAIN req = Slots /\ RowsType
  BY Begun
<1>1. req[i].op = "round" /\ At(i, "insert")
  BY Tells DEF RoundInserts
<1>2. PICK o \in Orders : req[i].order = o
  BY <1>1, Tells
<1> DEFINE r == OnTo(req[i], "lines")
<1>3. PICK s \in Stations : lines' = Append(lines, [order |-> o, station |-> s, status |-> "new"])
  BY <1>2 DEF RoundInserts
<1>4. /\ Goes(i, r) /\ orders' = orders /\ jobs' = jobs /\ pings' = pings /\ torn' = torn
      /\ tapped' = tapped
  BY DEF RoundInserts, history, Steps, OnTo
<1>5. lines' \in Seq(LineRow) /\ KeepsBut(o) /\ "new" \in StatesOf(o)'
  BY <1>3, LineAdded
<1>6. RowsType' /\ OnlyOn(o)
  BY <1>4, <1>5 DEF RowsType, OnlyOn
<1>7. Fits(r) /\ r.op = "round" /\ r.order = o /\ r.pc = "lines"
  BY <1>1, <1>2, FitsOn DEF PcsOf
<1>8. req'[i] = r
  BY <1>4, OneGoes
<1>9. Has(i, o) => Stands(o)' /\ Said(o)' /\ Together(o)'
  BY <1>1, <1>4 DEF Has, RoundHas, At, Right, Stands, Said, Few, Together
<1>10. Has(i, o) => Has(i, o)'
  BY <1>5, <1>7, <1>8, <1>9 DEF Has, RoundHas, At
<1> QED
  BY <1>1, <1>2, <1>4, <1>6, <1>7, <1>10, OneStep

-----------------------------------------------------------------------------
(* The sweep.                                                              *)

\* The sweep in slot i goes on as r; it is about no more orders than before, or it has
\* just read paid ones that nobody voided.
LEMMA SweepStep ==
  ASSUME PassInv, RowsType', NEW i \in Slots, NEW r, Goes(i, r), Fits(r),
         r.op \in {"none", "sweep"}, torn \subseteq torn',
         \A p \in Orders : LinesOn(p) \subseteq LinesOn(p)',
         \A p \in Orders \ torn' :
           /\ p \in Touches(r) \ Touches(req[i]) =>
                \A j \in Slots \ {i} : p \notin Touches(req[j])
           /\ p \notin Touches(req[i]) => Alike(p)
           /\ Turns(i, p)
  PROVE  PassInv'
<1> Shape /\ Alone /\ Held /\ DOMAIN req = Slots
  BY DEF PassInv, Shape
<1>1. DOMAIN req' = Slots /\ req'[i] = r /\ \A j \in Slots \ {i} : req'[j] = req[j]
  BY OneGoes
<1>2. \A j \in Slots \ {i} : Fits(req'[j]) /\ Grasps(j)'
  BY <1>1, GraspsOn
<1>3. Grasps(i)'
  BY <1>1 DEF Grasps, At, Fits, PcsOf
<1>4. Shape'
  BY <1>1, <1>2, <1>3 DEF Shape
<1>5. Alone' /\ Held'
  BY <1>1, Stepping
<1> QED
  BY <1>4, <1>5 DEF PassInv

LEMMA SweepReadsKept ==
  ASSUME PassInv, NEW i \in Slots, SweepReads(i) PROVE PassInv'
<1> Shape /\ Fits(req[i]) /\ DOMAIN req = Slots /\ RowsType
  BY Begun
<1>1. req[i].op = "sweep" /\ req[i].order = "none" /\ req[i].stale = {}
  BY Tells DEF SweepReads, At, Fits
<1>2. PICK S \in SUBSET Sweepable :
        /\ IF S = {} THEN Goes(i, FreeSlot)
           ELSE Goes(i, [req[i] EXCEPT !.pc = "close", !.stale = S])
        /\ torn' = torn \cup Met(i, [req[i] EXCEPT !.stale = S])
        /\ UNCHANGED <<orders, lines, jobs, pings, tapped>>
  BY DEF SweepReads, Answers, rows
<1> DEFINE w == [req[i] EXCEPT !.stale = S]
           r == IF S = {} THEN FreeSlot ELSE [req[i] EXCEPT !.pc = "close", !.stale = S]
<1>3. S \subseteq Orders \ Delivery /\ \A p \in S : Stands(p)
  BY DEF Sweepable, Stands
<1>4. Touches(req[i]) = {} /\ Touches(w) = S
  BY <1>1 DEF Touches, Fits, Fields, FreeSlot
<1>5. /\ Fits(r) /\ Touches(r) = S /\ r.op \in {"none", "sweep"}
      /\ S # {} => r.op = "sweep" /\ r.pc = "close" /\ r.order = "none"
  <2>1. CASE S = {}
    BY <2>1, IdleFits
  <2>2. CASE S # {}
    BY <1>1, <1>3, <2>2 DEF Fits, Fields, FreeSlot, PcsOf, Touches
  <2> QED
    BY <2>1, <2>2
<1>6. Goes(i, r) /\ req'[i] = r
  BY <1>2, OneGoes
<1> HIDE DEF r
<1>7. torn \subseteq torn' /\ \A p \in S \ torn' : \A j \in Slots \ {i} : p \notin Touches(req[j])
  BY <1>2, <1>4 DEF Met
<1>8. RowsType' /\ \A p \in Orders : Alike(p)
  BY <1>2, LinesRest DEF RowsType, Alike
<1>9. \A p : LinesOn(p) \subseteq LinesOn(p)'
  BY <1>2, LinesRest
<1>10. ASSUME NEW p \in S, Right(p) PROVE Has(i, p)'
  <2>1. Right(p)' /\ Stands(p)'
    BY <1>2, <1>3, <1>8, <1>10, RightStays DEF Stands
  <2> QED
    BY <1>3, <1>5, <1>6, <2>1 DEF Has, SweepHas, Right, At
<1>11. \A p \in Orders \ torn' : Turns(i, p)
  BY <1>4, <1>5, <1>6, <1>10 DEF Turns
<1> QED
  BY <1>4, <1>5, <1>6, <1>7, <1>8, <1>9, <1>11, SweepStep

LEMMA Dropped1 ==
  ASSUME PassInv, NEW i \in Slots, req[i].op = "sweep", NEW o \in Orders, SweepDrops(i, o)
  PROVE  \E r : /\ Goes(i, r) /\ Fits(r) /\ r.op \in {"none", "sweep"} /\ r.pc # "serve"
                /\ Touches(r) = req[i].stale \ {o} /\ req'[i] = r
                /\ Touches(r) # {} => r.op = "sweep"
<1> Shape /\ Fits(req[i]) /\ DOMAIN req = Slots
  BY Begun
<1> DEFINE rest == req[i].stale \ {o}
<1>1. CASE rest = {}
  <2>1. Goes(i, FreeSlot)
    BY <1>1 DEF SweepDrops, Answers
  <2> QED
    BY <1>1, <2>1, IdleFits, OneGoes
<1>2. CASE rest # {}
  <2> DEFINE r == [req[i] EXCEPT !.pc = "close", !.order = "none", !.stale = rest]
  <2>1. Goes(i, r) /\ req'[i] = r
    BY <1>2, OneGoes DEF SweepDrops
  <2>2. Fits(r) /\ r.op = "sweep" /\ r.pc = "close" /\ Touches(r) = rest
    BY DEF Fits, Fields, FreeSlot, PcsOf, Touches
  <2> QED
    BY <2>1, <2>2
<1> QED
  BY <1>1, <1>2

LEMMA StaleTouched ==
  ASSUME Shape, NEW i \in Slots, req[i].op = "sweep"
  PROVE  Touches(req[i]) = req[i].stale /\ req[i].stale \subseteq Orders
BY DEF Shape, Fits, Touches

LEMMA SweepClosesKept ==
  ASSUME PassInv, NEW i \in Slots, SweepCloses(i) PROVE PassInv'
<1> Shape /\ Fits(req[i]) /\ DOMAIN req = Slots /\ RowsType
  BY Begun
<1>1. req[i].op = "sweep" /\ At(i, "close")
  BY Tells DEF SweepCloses, At
<1>2. PICK o \in req[i].stale :
        /\ IF Closes(o)
           THEN /\ orders' = [orders EXCEPT ![o].status = "completed"]
                /\ Goes(i, [req[i] EXCEPT !.pc = "serve", !.order = o])
           ELSE SweepDrops(i, o) /\ UNCHANGED orders
        /\ UNCHANGED <<lines, jobs, pings, torn, tapped>>
  BY DEF SweepCloses, history
<1>3. Touches(req[i]) = req[i].stale /\ o \in Orders
  BY <1>1, StaleTouched
<1>4. \A p : LinesOn(p)' = LinesOn(p) /\ StatesOf(p)' = StatesOf(p)
  BY <1>2, LinesRest
<1>5. \A p \in req[i].stale : Has(i, p) => p \notin Delivery /\ Stands(p) /\ Said(p) /\ Made(p)
  BY <1>1 DEF Has, SweepHas, At
<1>6. CASE Closes(o)
  <2> DEFINE r == [req[i] EXCEPT !.pc = "serve", !.order = o]
  <2>1. Fits(r) /\ r.op = "sweep" /\ r.pc = "serve" /\ r.order = o /\ Touches(r) = req[i].stale
    <3>1. /\ DOMAIN r = Fields /\ r.op = "sweep" /\ r.pc = "serve" /\ r.order = o
          /\ r.stale = req[i].stale /\ r.want = req[i].want /\ r.rolled = req[i].rolled
      BY <1>1 DEF Fits, Fields, FreeSlot
    <3> HIDE DEF r
    <3>2. Touches(r) = req[i].stale
      BY <3>1, <1>2 DEF Touches
    <3>3. Fits(r)
      BY <3>1, <1>2, <1>3 DEF Fits, PcsOf
    <3> QED
      BY <3>1, <3>2, <3>3
  <2>2. Goes(i, r) /\ req'[i] = r
    BY <1>2, <1>6, OneGoes
  <2> HIDE DEF r
  <2>3. "completed" \in Words /\ orders' = [orders EXCEPT ![o].status = "completed"]
    BY <1>2, <1>6 DEF Words
  <2>4. /\ orders' \in [Orders -> OrderRow] /\ \A p \in Orders \ {o} : orders'[p] = orders[p]
        /\ orders'[o].status = "completed" /\ orders'[o].voided = orders[o].voided
    BY <1>3, <2>3, StatusWritten
  <2>5. RowsType' /\ \A p \in Orders \ {o} : Alike(p)
    BY <1>2, <1>4, <2>4 DEF RowsType, Alike
  <2>6. ASSUME NEW p \in req[i].stale, Has(i, p) PROVE Has(i, p)'
    <3>1. p # o => Made(p)' /\ Said(p)'
      BY <1>2, <1>3, <1>4, <1>5, <2>4, <2>6, StaleTouched, <1>1 DEF Made, Said, Few
    <3>2. p = o => Said(p)'
      BY <1>2, <1>5, <2>4, <2>6 DEF Said, Few
    <3>3. p \notin Delivery /\ Stands(p)'
      BY <1>2, <1>3, <1>5, <2>4, <2>6, StaleTouched, <1>1 DEF Stands
    <3> QED
      BY <2>1, <2>2, <2>4, <3>1, <3>2, <3>3 DEF Has, SweepHas, At
  <2>7. \A p \in Orders \ torn' : Turns(i, p)
    BY <1>3, <2>1, <2>2, <2>6 DEF Turns
  <2>8. torn' = torn
    BY <1>2
  <2> QED
    BY <1>2, <1>3, <1>4, <2>1, <2>2, <2>5, <2>7, <2>8, SweepStep
<1>7. CASE ~Closes(o)
  <2>1. SweepDrops(i, o) /\ UNCHANGED <<orders, lines, jobs, pings, torn, tapped>>
    BY <1>2, <1>7
  <2>2. PICK r : /\ Goes(i, r) /\ Fits(r) /\ r.op \in {"none", "sweep"} /\ r.pc # "serve"
                 /\ Touches(r) = req[i].stale \ {o} /\ req'[i] = r
                 /\ Touches(r) # {} => r.op = "sweep"
    BY <1>1, <1>3, <2>1, Dropped1
  <2>3. RowsType' /\ \A p \in Orders : Alike(p)
    BY <1>4, <2>1 DEF RowsType, Alike
  <2>4. ASSUME NEW p \in req[i].stale, Has(i, p)
        PROVE  IF p \in Touches(r) THEN Has(i, p)' ELSE Right(p)'
    <3>1. p \notin Delivery /\ Stands(p)' /\ Made(p)' /\ Said(p)'
      BY <1>4, <1>5, <2>1, <2>4 DEF Stands, Made, Said, Few
    <3> QED
      BY <2>2, <3>1 DEF Has, SweepHas, At, Right, Gone, Together, Stands
  <2>5. \A p \in Orders \ torn' : Turns(i, p)
    BY <1>3, <2>2, <2>4 DEF Turns
  <2> QED
    BY <1>3, <1>4, <2>1, <2>2, <2>3, <2>5, SweepStep
<1> QED
  BY <1>6, <1>7

LEMMA SweepServesKept ==
  ASSUME PassInv, NEW i \in Slots, SweepServes(i) PROVE PassInv'
<1> Shape /\ Fits(req[i]) /\ DOMAIN req = Slots /\ RowsType
  BY Begun
<1>1. req[i].op = "sweep" /\ At(i, "serve")
  BY Tells DEF SweepServes, At
<1>2. Touches(req[i]) = req[i].stale /\ req[i].stale \subseteq Orders
  BY <1>1, StaleTouched
<1>3. PICK o \in Orders : req[i].order = o /\ o \in req[i].stale
  BY <1>1, <1>2 DEF At, Fits
<1> DEFINE S == {n \in LinesOn(o) : lines[n].status \in BehindStates("served")}
<1>4. /\ lines' = Advanced(S, "served") /\ SweepDrops(i, o)
      /\ UNCHANGED <<orders, jobs, pings, torn, tapped>>
  BY <1>3 DEF SweepServes, history
<1>5. \A n \in S \cap DOMAIN lines : lines[n].order = o
  BY DEF LinesOn
<1>6. "served" \in Words
  BY DEF Words
<1>7. /\ lines' \in Seq(LineRow) /\ KeepsBut(o) /\ LinesOn(o)' = LinesOn(o)
      /\ \A n \in DOMAIN lines : lines'[n].status = IF n \in S THEN "served" ELSE lines[n].status
  BY <1>4, <1>5, <1>6, LinesMove
<1>8. StatesOf(o)' \subseteq {"served"}
  <2>1. \A n \in LinesOn(o) : n \in DOMAIN lines
    BY DEF LinesOn
  <2>2. \A n \in LinesOn(o) : lines'[n].status \notin {"new", "preparing", "ready"}
    BY <1>7, <2>1, Flow
  <2> QED
    BY <1>7, <2>2, Flow DEF StatesOf
<1>9. PICK r : /\ Goes(i, r) /\ Fits(r) /\ r.op \in {"none", "sweep"} /\ r.pc # "serve"
               /\ Touches(r) = req[i].stale \ {o} /\ req'[i] = r
               /\ Touches(r) # {} => r.op = "sweep"
  BY <1>1, <1>4, Dropped1
<1>10. RowsType' /\ \A p \in Orders \ {o} : Alike(p)
  BY <1>4, <1>7 DEF RowsType, Alike, KeepsBut
<1>11. ASSUME NEW p \in req[i].stale, Has(i, p)
       PROVE  IF p \in Touches(r) THEN Has(i, p)' ELSE Right(p)'
  <2>1. p \notin Delivery /\ Stands(p)' /\ Said(p)'
    BY <1>1, <1>4, <1>11 DEF Has, SweepHas, Stands, Said, Few
  <2>2. Made(p)'
    <3>1. CASE p = o
      BY <1>8, <3>1 DEF Made, Fair
    <3>2. CASE p # o
      BY <1>1, <1>2, <1>3, <1>4, <1>7, <1>11, <3>2 DEF Has, SweepHas, Made, KeepsBut
    <3> QED
      BY <3>1, <3>2
  <2> QED
    BY <1>9, <2>1, <2>2 DEF Has, SweepHas, At, Right, Gone, Together, Stands
<1>12. \A p \in Orders \ torn' : Turns(i, p)
  BY <1>2, <1>9, <1>11 DEF Turns
<1> QED
  BY <1>2, <1>3, <1>4, <1>7, <1>9, <1>10, <1>12, SweepStep DEF KeepsBut

-----------------------------------------------------------------------------
(* A void.                                                                 *)

LEMMA VoidChecksKept ==
  ASSUME PassInv, NEW i \in Slots, VoidChecks(i) PROVE PassInv'
<1> Shape /\ Fits(req[i]) /\ DOMAIN req = Slots /\ RowsType
  BY Begun
<1>1. req[i].op = "void" /\ At(i, "check")
  BY DEF VoidChecks
<1>2. PICK o \in Orders : req[i].order = o
  BY <1>1, Tells
<1>3. UNCHANGED <<rows, torn, tapped>>
  BY DEF VoidChecks, history
<1>4. Has(i, o) => Right(o)
  BY <1>1 DEF Has, VoidHas, At
<1>5. Goes(i, FreeSlot) \/ Goes(i, OnTo(req[i], "cancel"))
  BY DEF VoidChecks, Proceeds, Answers, Steps, OnTo
<1>6. CASE Goes(i, FreeSlot)
  BY <1>1, <1>2, <1>3, <1>4, <1>6, IdleFits, OneRead
<1>7. CASE Goes(i, OnTo(req[i], "cancel"))
  <2> DEFINE r == OnTo(req[i], "cancel")
  <2>1. Fits(r) /\ r.op = "void" /\ r.order = o /\ r.pc = "cancel"
    BY <1>1, <1>2, FitsOn DEF PcsOf
  <2>2. req'[i] = r
    BY <1>7, OneGoes
  <2>3. Right(o) => Right(o)'
    BY <1>3, LinesRest, RightStays DEF rows, Alike
  <2>4. Has(i, o) => Has(i, o)'
    BY <1>4, <2>1, <2>2, <2>3 DEF Has, VoidHas, At
  <2> QED
    BY <1>1, <1>2, <1>3, <1>7, <2>1, <2>4, OneRead
<1> QED
  BY <1>5, <1>6, <1>7

LEMMA VoidCancelsKept ==
  ASSUME PassInv, NEW i \in Slots, VoidCancels(i) PROVE PassInv'
<1> Shape /\ Fits(req[i]) /\ DOMAIN req = Slots /\ RowsType
  BY Begun
<1>1. req[i].op = "void" /\ At(i, "cancel")
  BY Tells DEF VoidCancels, At
<1>2. PICK o \in Orders : req[i].order = o
  BY <1>1, Tells
<1> DEFINE r == OnTo(req[i], "strike")
<1>3. /\ orders' = [orders EXCEPT ![o].status = "cancelled", ![o].voided = TRUE]
      /\ Goes(i, r) /\ lines' = lines /\ jobs' = jobs /\ pings' = pings /\ torn' = torn
      /\ tapped' = tapped
  BY <1>2 DEF VoidCancels, history, Steps, OnTo
<1>4. "cancelled" \in Words
  BY DEF Words, JobStates
<1>5. /\ orders' \in [Orders -> OrderRow] /\ \A p \in Orders \ {o} : orders'[p] = orders[p]
      /\ orders'[o].status = "cancelled" /\ orders'[o].voided = TRUE
  BY <1>3, <1>4 DEF RowsType, OrderRow
<1>6. RowsType' /\ OnlyOn(o)
  BY <1>3, <1>5, LinesRest DEF RowsType, OnlyOn, KeepsBut
<1>7. Fits(r) /\ r.op = "void" /\ r.order = o /\ r.pc = "strike"
  BY <1>1, <1>2, FitsOn DEF PcsOf
<1>8. req'[i] = r
  BY <1>3, OneGoes
<1>9. Has(i, o) => Few(o)'
  BY <1>1, <1>3 DEF Has, VoidHas, At, Right, Said, Few
<1>10. Has(i, o) => Has(i, o)'
  BY <1>5, <1>7, <1>8, <1>9 DEF Has, VoidHas, At
<1> QED
  BY <1>1, <1>2, <1>3, <1>6, <1>7, <1>10, OneStep

LEMMA VoidStrikesKept ==
  ASSUME PassInv, NEW i \in Slots, VoidStrikes(i) PROVE PassInv'
<1> Shape /\ Fits(req[i]) /\ DOMAIN req = Slots /\ RowsType
  BY Begun
<1>1. req[i].op = "void" /\ At(i, "strike")
  BY Tells DEF VoidStrikes, At
<1>2. PICK o \in Orders : req[i].order = o
  BY <1>1, Tells
<1> DEFINE r == OnTo(req[i], "drop")
           S == {n \in LinesOn(o) : lines[n].status # "served"}
<1>3. /\ lines' = Advanced(S, "cancelled")
      /\ Goes(i, r) /\ orders' = orders /\ jobs' = jobs /\ pings' = pings /\ torn' = torn
      /\ tapped' = tapped
  BY <1>2 DEF VoidStrikes, history, Steps, OnTo
<1>4. "cancelled" \in Words /\ \A n \in S \cap DOMAIN lines : lines[n].order = o
  BY DEF Words, JobStates, LinesOn
<1>5. lines' \in Seq(LineRow) /\ KeepsBut(o)
  BY <1>3, <1>4, LinesMove
<1>6. RowsType' /\ OnlyOn(o)
  BY <1>3, <1>5 DEF RowsType, OnlyOn
<1>7. Fits(r) /\ r.op = "void" /\ r.order = o /\ r.pc = "drop"
  BY <1>1, <1>2, FitsOn DEF PcsOf
<1>8. req'[i] = r
  BY <1>3, OneGoes
<1>9. Has(i, o) => Has(i, o)'
  BY <1>1, <1>3, <1>7, <1>8 DEF Has, VoidHas, At, Few
<1> QED
  BY <1>1, <1>2, <1>3, <1>6, <1>7, <1>9, OneStep

LEMMA VoidDropsKept ==
  ASSUME PassInv, NEW i \in Slots, VoidDrops(i) PROVE PassInv'
<1> Shape /\ Fits(req[i]) /\ DOMAIN req = Slots /\ RowsType
  BY Begun
<1>1. req[i].op = "void" /\ At(i, "drop")
  BY Tells DEF VoidDrops, At
<1>2. PICK o \in Orders : req[i].order = o
  BY <1>1, Tells
<1>3. /\ jobs' = Dropped(o) /\ Goes(i, FreeSlot)
      /\ orders' = orders /\ lines' = lines /\ pings' = pings /\ torn' = torn /\ tapped' = tapped
  BY <1>2 DEF VoidDrops, history, Answers
<1>4. "cancelled" \in Words
  BY DEF Words, JobStates
<1>5. /\ jobs' \in [Orders -> JobRow] /\ \A p \in Orders \ {o} : jobs'[p] = jobs[p]
      /\ o \in Delivery => jobs'[o].status = "cancelled"
  BY <1>3, <1>4 DEF Dropped, RowsType, JobRow
<1>6. RowsType' /\ OnlyOn(o)
  BY <1>3, <1>5, LinesRest DEF RowsType, OnlyOn, KeepsBut
<1>7. Has(i, o) => Right(o)'
  BY <1>1, <1>3, <1>5 DEF Has, VoidHas, At, Right, Made, Fair, Said, Few, Gone, Together
<1> QED
  BY <1>1, <1>2, <1>3, <1>6, <1>7, IdleFits, OneStep

-----------------------------------------------------------------------------
(* The driver's job.                                                       *)

\* A cancelled job goes nowhere.
LEMMA CancelledStays == \A to : ~CanTransition("cancelled", to)
<1>1. "cancelled" \in JobStates
  BY DEF JobStates
<1>2. Transitions["cancelled"] = {}
  BY <1>1 DEF Transitions
<1> QED
  BY <1>2 DEF CanTransition

LEMMA AdvanceChecksKept ==
  ASSUME PassInv, NEW i \in Slots, AdvanceChecks(i) PROVE PassInv'
<1> Shape /\ Fits(req[i]) /\ DOMAIN req = Slots /\ RowsType
  BY Begun
<1>1. req[i].op = "advance" /\ At(i, "fetch")
  BY Tells DEF AdvanceChecks, At
<1>2. PICK o \in Orders : req[i].order = o
  BY <1>1, Tells
<1>3. UNCHANGED <<rows, torn, tapped>>
  BY DEF AdvanceChecks, history
<1>4. Has(i, o) => Right(o) /\ o \in Delivery
  BY <1>1 DEF Has, AdvanceHas
<1>5. CASE CanTransition(jobs[o].status, req[i].want)
  <2> DEFINE r == OnTo(req[i], "jobMove")
  <2>1. Goes(i, r)
    BY <1>2, <1>5 DEF AdvanceChecks, Proceeds, Steps, OnTo
  <2>2. Fits(r) /\ r.op = "advance" /\ r.order = o /\ r.pc = "jobMove"
    BY <1>1, <1>2, FitsOn DEF PcsOf
  <2>3. req'[i] = r
    BY <2>1, OneGoes
  <2>4. jobs[o].status # "cancelled"
    BY <1>5, CancelledStays
  <2>5. Right(o) /\ o \in Delivery => Stands(o)' /\ Together(o)'
    BY <1>3, <2>4 DEF Right, Together, Stands, rows
  <2>6. Has(i, o) => Has(i, o)'
    BY <1>4, <2>2, <2>3, <2>5 DEF Has, AdvanceHas, At
  <2> QED
    BY <1>1, <1>2, <1>3, <2>1, <2>2, <2>6, OneRead
<1>6. CASE ~CanTransition(jobs[o].status, req[i].want)
  <2>1. Goes(i, FreeSlot)
    BY <1>2, <1>6 DEF AdvanceChecks, Proceeds, Answers
  <2> QED
    BY <1>1, <1>2, <1>3, <1>4, <2>1, IdleFits, OneRead
<1> QED
  BY <1>5, <1>6

LEMMA AdvanceWritesKept ==
  ASSUME PassInv, NEW i \in Slots, AdvanceWrites(i) PROVE PassInv'
<1> Shape /\ Fits(req[i]) /\ DOMAIN req = Slots /\ RowsType
  BY Begun
<1>1. req[i].op = "advance" /\ At(i, "jobMove") /\ req[i].want \in Words
  BY Tells DEF AdvanceWrites, At, Fits
<1>2. PICK o \in Orders : req[i].order = o
  BY <1>1, Tells
<1>3. /\ jobs' = [jobs EXCEPT ![o].status = req[i].want]
      /\ orders' = orders /\ lines' = lines /\ pings' = pings /\ torn' = torn /\ tapped' = tapped
  BY <1>2 DEF AdvanceWrites, history
<1>4. /\ jobs' \in [Orders -> JobRow] /\ \A p \in Orders \ {o} : jobs'[p] = jobs[p]
      /\ jobs'[o].status = req[i].want
  BY <1>1, <1>3, JobWritten
<1>5. RowsType' /\ OnlyOn(o)
  BY <1>3, <1>4, LinesRest DEF RowsType, OnlyOn, KeepsBut
<1>6. Has(i, o) => o \in Delivery /\ Stands(o)'
  BY <1>1, <1>3 DEF Has, AdvanceHas, At, Stands
<1>7. \A pc \in {"paid", "order"} :
        /\ Fits(OnTo(req[i], pc)) /\ OnTo(req[i], pc).op = "advance" /\ OnTo(req[i], pc).order = o
        /\ OnTo(req[i], pc).pc = pc /\ OnTo(req[i], pc).want = req[i].want
  BY <1>1, <1>2, FitsOn DEF PcsOf
<1>8. CASE req[i].want = "delivered"
  <2>1. Goes(i, OnTo(req[i], "paid"))
    BY <1>8 DEF AdvanceWrites, Proceeds, Steps, OnTo
  <2>2. req'[i] = OnTo(req[i], "paid")
    BY <2>1, OneGoes
  <2>3. Has(i, o) => Has(i, o)'
    BY <1>4, <1>6, <1>7, <1>8, <2>2 DEF Has, AdvanceHas, At, Together, Stands
  <2> QED
    BY <1>1, <1>2, <1>3, <1>5, <1>7, <2>1, <2>3, OneStep
<1>9. CASE req[i].want = "cancelled"
  <2>1. Goes(i, OnTo(req[i], "order"))
    BY <1>9 DEF AdvanceWrites, Proceeds, Steps, OnTo
  <2>2. req'[i] = OnTo(req[i], "order")
    BY <2>1, OneGoes
  <2>3. Has(i, o) => Has(i, o)'
    BY <1>4, <1>6, <1>7, <1>9, <2>2 DEF Has, AdvanceHas, At
  <2> QED
    BY <1>1, <1>2, <1>3, <1>5, <1>7, <2>1, <2>3, OneStep
<1>10. CASE req[i].want \notin {"delivered", "cancelled"}
  <2>1. Goes(i, FreeSlot)
    BY <1>10 DEF AdvanceWrites, Proceeds, Answers
  <2>2. Has(i, o) => Right(o)'
    BY <1>4, <1>6, <1>10 DEF Right, Made, Said, Few, Gone, Together, Stands
  <2> QED
    BY <1>1, <1>2, <1>3, <1>5, <2>1, <2>2, IdleFits, OneStep
<1> QED
  BY <1>8, <1>9, <1>10

LEMMA AdvanceReadsPaidKept ==
  ASSUME PassInv, NEW i \in Slots, AdvanceReadsPaid(i) PROVE PassInv'
<1> Shape /\ Fits(req[i]) /\ DOMAIN req = Slots
  BY Begun
<1>1. req[i].op = "advance" /\ At(i, "paid")
  BY Tells DEF AdvanceReadsPaid, At
<1>2. PICK o \in Orders : req[i].order = o
  BY <1>1, Tells
<1> DEFINE rolled == IF orders[o].paid THEN "completed" ELSE "served"
           r == [req[i] EXCEPT !.pc = "order", !.rolled = rolled]
<1>3. Goes(i, r) /\ UNCHANGED <<rows, torn, tapped>>
  BY <1>2 DEF AdvanceReadsPaid, history
<1>4. rolled \in Words
  BY DEF Words
<1> HIDE DEF rolled
<1>5. Fits(r) /\ r.op = "advance" /\ r.order = o /\ r.pc = "order" /\ r.want = req[i].want
  BY <1>1, <1>2, <1>4 DEF Fits, Fields, FreeSlot, PcsOf
<1>6. req'[i] = r
  BY <1>3, OneGoes
<1>7. Has(i, o) => Has(i, o)'
  BY <1>1, <1>3, <1>5, <1>6 DEF Has, AdvanceHas, At, Together, Stands, rows
<1> QED
  BY <1>1, <1>2, <1>3, <1>5, <1>7, OneRead

LEMMA AdvanceWritesOrderKept ==
  ASSUME PassInv, NEW i \in Slots, AdvanceWritesOrder(i) PROVE PassInv'
<1> Shape /\ Fits(req[i]) /\ DOMAIN req = Slots /\ RowsType
  BY Begun
<1>1. req[i].op = "advance" /\ At(i, "order") /\ req[i].rolled \in Words
  BY Tells DEF AdvanceWritesOrder, At, Fits
<1>2. PICK o \in Orders : req[i].order = o
  BY <1>1, Tells
<1>3. /\ Goes(i, FreeSlot) /\ lines' = lines /\ jobs' = jobs /\ pings' = pings /\ torn' = torn
      /\ tapped' = tapped
  BY <1>2 DEF AdvanceWritesOrder, history, Answers
<1>4. /\ orders' \in [Orders -> OrderRow] /\ \A p \in Orders \ {o} : orders'[p] = orders[p]
      /\ req[i].want = "cancelled" => orders'[o].status = "cancelled" /\ orders'[o].voided = TRUE
      /\ req[i].want # "cancelled" => orders'[o].voided = orders[o].voided
  <2>1. CASE req[i].want = "cancelled"
    <3>1. orders' = [orders EXCEPT ![o].status = "cancelled", ![o].voided = TRUE]
      BY <1>2, <2>1 DEF AdvanceWritesOrder
    <3>2. "cancelled" \in Words
      BY DEF Words, JobStates
    <3> QED
      BY <2>1, <3>1, <3>2 DEF RowsType, OrderRow
  <2>2. CASE req[i].want # "cancelled"
    <3>1. orders' = [orders EXCEPT ![o].status = req[i].rolled]
      BY <1>2, <2>2 DEF AdvanceWritesOrder
    <3> QED
      BY <1>1, <2>2, <3>1, StatusWritten
  <2> QED
    BY <2>1, <2>2
<1>5. RowsType' /\ OnlyOn(o)
  BY <1>3, <1>4, LinesRest DEF RowsType, OnlyOn, KeepsBut
<1>6. Has(i, o) => Right(o)'
  BY <1>1, <1>3, <1>4 DEF Has, AdvanceHas, At, Right, Made, Said, Few, Gone, Together, Stands
<1> QED
  BY <1>1, <1>2, <1>3, <1>5, <1>6, IdleFits, OneStep

LEMMA SettleChecksKept ==
  ASSUME PassInv, NEW i \in Slots, SettleChecks(i) PROVE PassInv'
<1> Shape /\ Fits(req[i]) /\ DOMAIN req = Slots /\ RowsType
  BY Begun
<1>1. req[i].op = "settle" /\ At(i, "check")
  BY DEF SettleChecks
<1>2. PICK o \in Orders : req[i].order = o
  BY <1>1, Tells
<1>3. UNCHANGED <<rows, torn, tapped>>
  BY DEF SettleChecks, history
<1>4. Has(i, o) => Right(o) /\ o \in Delivery
  BY <1>1 DEF Has, SettleHas, At
<1>5. Goes(i, FreeSlot) \/ Goes(i, OnTo(req[i], "settled"))
  BY DEF SettleChecks, Proceeds, Answers, Steps, OnTo
<1>6. CASE Goes(i, FreeSlot)
  BY <1>1, <1>2, <1>3, <1>4, <1>6, IdleFits, OneRead
<1>7. CASE Goes(i, OnTo(req[i], "settled"))
  <2> DEFINE r == OnTo(req[i], "settled")
  <2>1. Fits(r) /\ r.op = "settle" /\ r.order = o /\ r.pc = "settled"
    BY <1>1, <1>2, FitsOn DEF PcsOf
  <2>2. req'[i] = r
    BY <1>7, OneGoes
  <2>3. Right(o) => Right(o)'
    BY <1>3, LinesRest, RightStays DEF rows, Alike
  <2>4. Has(i, o) => Has(i, o)'
    BY <1>4, <2>1, <2>2, <2>3 DEF Has, SettleHas, At
  <2> QED
    BY <1>1, <1>2, <1>3, <1>7, <2>1, <2>4, OneRead
<1> QED
  BY <1>5, <1>6, <1>7

LEMMA SettleWritesKept ==
  ASSUME PassInv, NEW i \in Slots, SettleWrites(i) PROVE PassInv'
<1> Shape /\ Fits(req[i]) /\ DOMAIN req = Slots /\ RowsType
  BY Begun
<1>1. req[i].op = "settle" /\ At(i, "settled")
  BY Tells DEF SettleWrites, At
<1>2. PICK o \in Orders : req[i].order = o
  BY <1>1, Tells
<1> DEFINE r == OnTo(req[i], "closing")
<1>3. /\ jobs' = [jobs EXCEPT ![o].settled = TRUE] /\ Goes(i, r)
      /\ orders' = orders /\ lines' = lines /\ pings' = pings /\ torn' = torn /\ tapped' = tapped
  BY <1>2 DEF SettleWrites, history, Steps, OnTo
<1>4. /\ jobs' \in [Orders -> JobRow] /\ \A p \in Orders \ {o} : jobs'[p] = jobs[p]
      /\ jobs'[o].settled = TRUE /\ jobs'[o].status = jobs[o].status
  BY <1>3 DEF RowsType, JobRow
<1>5. RowsType' /\ OnlyOn(o)
  BY <1>3, <1>4, LinesRest DEF RowsType, OnlyOn, KeepsBut
<1>6. Fits(r) /\ r.op = "settle" /\ r.order = o /\ r.pc = "closing"
  BY <1>1, <1>2, FitsOn DEF PcsOf
<1>7. req'[i] = r
  BY <1>3, OneGoes
<1>8. Has(i, o) => Has(i, o)'
  BY <1>1, <1>3, <1>4, <1>6, <1>7 DEF Has, SettleHas, At, Right, Together
<1> QED
  BY <1>1, <1>2, <1>3, <1>5, <1>6, <1>8, OneStep

LEMMA SettleClosesKept ==
  ASSUME PassInv, NEW i \in Slots, SettleCloses(i) PROVE PassInv'
<1> Shape /\ Fits(req[i]) /\ DOMAIN req = Slots /\ RowsType
  BY Begun
<1>1. req[i].op = "settle" /\ At(i, "closing")
  BY Tells DEF SettleCloses, At
<1>2. PICK o \in Orders : req[i].order = o
  BY <1>1, Tells
<1>3. /\ orders' = [orders EXCEPT ![o].status = "completed"] /\ Goes(i, FreeSlot)
      /\ lines' = lines /\ jobs' = jobs /\ pings' = pings /\ torn' = torn /\ tapped' = tapped
  BY <1>2 DEF SettleCloses, history, Answers
<1>4. "completed" \in Words
  BY DEF Words
<1>5. /\ orders' \in [Orders -> OrderRow] /\ \A p \in Orders \ {o} : orders'[p] = orders[p]
      /\ orders'[o].voided = orders[o].voided
  BY <1>3, <1>4, StatusWritten
<1>6. RowsType' /\ OnlyOn(o)
  BY <1>3, <1>5, LinesRest DEF RowsType, OnlyOn, KeepsBut
<1>7. Has(i, o) => Right(o)'
  BY <1>1, <1>3, <1>5 DEF Has, SettleHas, At, Right, Made, Said, Few, Gone, Together
<1> QED
  BY <1>1, <1>2, <1>3, <1>6, <1>7, IdleFits, OneStep

LEMMA AssignsKept ==
  ASSUME PassInv, NEW i \in Slots, Assigns(i) PROVE PassInv'
<1> Shape /\ Fits(req[i]) /\ DOMAIN req = Slots /\ RowsType
  BY Begun
<1>1. req[i].op = "assign"
  BY DEF Assigns
<1>2. PICK o \in Orders : req[i].order = o
  BY <1>1, Tells
<1>3. /\ Goes(i, FreeSlot) /\ orders' = orders /\ lines' = lines /\ pings' = pings
      /\ torn' = torn /\ tapped' = tapped
      /\ jobs' = IF jobs[o].status \in Assignable
                 THEN [jobs EXCEPT ![o].status = "assigned"] ELSE jobs
  BY <1>2 DEF Assigns, history, Answers
<1>4. "assigned" \in Words
  BY DEF Words, JobStates
<1>5. /\ jobs' \in [Orders -> JobRow] /\ \A p \in Orders \ {o} : jobs'[p] = jobs[p]
      /\ jobs'[o].status = "cancelled" <=> jobs[o].status = "cancelled"
  BY <1>3, <1>4, JobWritten DEF RowsType, Assignable
<1>6. RowsType' /\ OnlyOn(o)
  BY <1>3, <1>5, LinesRest DEF RowsType, OnlyOn, KeepsBut
<1>7. jobs'[o].settled = jobs[o].settled
  BY <1>3, <1>4, JobWritten
<1>8. Has(i, o) => Right(o)'
  BY <1>1, <1>3, <1>5, <1>7 DEF Has, Right, Made, Said, Few, Gone, Together
<1> QED
  BY <1>1, <1>2, <1>3, <1>6, <1>8, IdleFits, OneStep

-----------------------------------------------------------------------------
(* What no request does.                                                   *)

LEMMA Aside ==
  ASSUME PassInv, RowsType', req' = req, lines' = lines, torn' = torn,
         \A p \in Orders : Alike(p)
  PROVE  PassInv'
<1>1. \A p : LinesOn(p)' = LinesOn(p)
  BY LinesRest
<1>2. Shape'
  BY <1>1 DEF PassInv, Shape, Grasps, At
<1>3. Alone'
  BY DEF PassInv, Alone
<1>4. ASSUME NEW p \in Orders \ torn', \A i \in Slots : p \notin Touches(req'[i])
      PROVE  Right(p)'
  <2>1. Right(p)
    BY <1>4 DEF PassInv, Held
  <2> QED
    BY <2>1, RightStays
<1>5. ASSUME NEW p \in Orders \ torn', NEW i \in Slots, p \in Touches(req'[i])
      PROVE  Has(i, p)'
  <2>1. Has(i, p) /\ req'[i] = req[i]
    BY <1>5 DEF PassInv, Held
  <2> QED
    BY <2>1, HasStays
<1>6. Held'
  BY <1>4, <1>5 DEF Held
<1> QED
  BY <1>2, <1>3, <1>6 DEF PassInv

LEMMA PaysKept ==
  ASSUME PassInv, NEW o \in Orders, Pays(o) PROVE PassInv'
<1>1. /\ orders' = [orders EXCEPT ![o].paid = TRUE] /\ req' = req /\ lines' = lines
      /\ jobs' = jobs /\ pings' = pings /\ torn' = torn /\ tapped' = tapped
  BY DEF Pays, history
<1>2. RowsType
  BY DEF PassInv, Shape
<1>3. /\ orders' \in [Orders -> OrderRow]
      /\ \A p \in Orders : orders'[p].status = orders[p].status /\ orders'[p].voided = orders[p].voided
  BY <1>1, <1>2 DEF RowsType, OrderRow
<1>4. RowsType' /\ \A p \in Orders : Alike(p)
  BY <1>1, <1>2, <1>3, LinesRest DEF RowsType, Alike
<1> QED
  BY <1>1, <1>4, Aside

LEMMA PingResolvedKept ==
  ASSUME PassInv, NEW o \in Orders, PingResolved(o) PROVE PassInv'
<1>1. /\ pings' = [pings EXCEPT ![o] = 0] /\ orders[o].status # "ready" /\ req' = req
      /\ orders' = orders /\ lines' = lines /\ jobs' = jobs /\ torn' = torn /\ tapped' = tapped
  BY DEF PingResolved, history
<1>2. RowsType
  BY DEF PassInv, Shape
<1>3. RowsType' /\ \A p \in Orders : Alike(p)
  BY <1>1, <1>2, LinesRest DEF RowsType, Alike
<1> QED
  BY <1>1, <1>3, Aside

LEMMA StutterKept ==
  ASSUME PassInv, UNCHANGED vars PROVE PassInv'
<1>1. /\ orders' = orders /\ lines' = lines /\ jobs' = jobs /\ pings' = pings /\ req' = req
      /\ torn' = torn /\ tapped' = tapped
  BY DEF vars, rows, history
<1>2. RowsType' /\ \A p \in Orders : Alike(p)
  BY <1>1, LinesRest DEF PassInv, Shape, RowsType, Alike
<1> QED
  BY <1>1, <1>2, Aside

LEMMA DiesKept ==
  ASSUME PassInv, NEW i \in Slots, Dies(i) PROVE PassInv'
<1> Shape /\ Alone /\ Held /\ DOMAIN req = Slots
  BY DEF PassInv, Shape
<1>1. /\ Goes(i, FreeSlot) /\ torn' = torn \cup Touches(req[i])
      /\ orders' = orders /\ lines' = lines /\ jobs' = jobs /\ pings' = pings /\ tapped' = tapped
  BY DEF Dies, Answers, rows
<1>2. DOMAIN req' = Slots /\ req'[i] = FreeSlot /\ \A j \in Slots \ {i} : req'[j] = req[j]
  BY <1>1, OneGoes
<1>3. \A j \in Slots \ {i} : Fits(req'[j]) /\ Grasps(j)'
  BY <1>1, <1>2, GraspsOn, LinesRest
<1>4. Shape'
  BY <1>1, <1>2, <1>3, IdleFits DEF Shape, Grasps, At, RowsType
<1>5. \A p \in Orders : Alike(p)
  BY <1>1, LinesRest DEF Alike
<1>6. \A p \in Orders \ torn' : Turns(i, p)
  BY <1>1, <1>2, IdleFits DEF Turns
<1>7. Alone' /\ Held'
  BY <1>1, <1>2, <1>5, <1>6, IdleFits, Stepping
<1> QED
  BY <1>4, <1>7 DEF PassInv

-----------------------------------------------------------------------------
(* Requests arrive.                                                        *)

LEMMA Comes ==
  ASSUME PassInv, NEW i \in Slots, NEW r, Arrives(i, r), Fits(r), r.pc # "move",
         \A p \in Touches(r) : Right(p)' => Has(i, p)'
  PROVE  PassInv'
<1> Shape /\ Alone /\ Held /\ DOMAIN req = Slots
  BY DEF PassInv, Shape
<1>1. /\ Goes(i, r) /\ torn' = torn \cup Met(i, r) /\ At(i, "free")
      /\ orders' = orders /\ lines' = lines /\ jobs' = jobs /\ pings' = pings /\ tapped' = tapped
  BY DEF Arrives, rows
<1>2. DOMAIN req' = Slots /\ req'[i] = r /\ \A j \in Slots \ {i} : req'[j] = req[j]
  BY <1>1, OneGoes
<1>3. \A j \in Slots \ {i} : Fits(req'[j]) /\ Grasps(j)'
  BY <1>1, <1>2, GraspsOn, LinesRest
<1>4. Shape'
  BY <1>1, <1>2, <1>3 DEF Shape, Grasps, At, RowsType
<1>5. Touches(req[i]) = {}
  BY <1>1, Tells
<1>6. \A p \in Orders : Alike(p)
  BY <1>1, LinesRest DEF Alike
<1>7. \A p \in Orders \ torn' : Turns(i, p)
  <2> TAKE p \in Orders \ torn'
  <2>1. Right(p) => Right(p)'
    BY <1>6, RightStays
  <2> QED
    BY <1>2, <1>5, <2>1 DEF Turns
<1>8. \A p \in Orders \ torn' : p \in Touches(r) => \A j \in Slots \ {i} : p \notin Touches(req[j])
  BY <1>1 DEF Met
<1>9. torn \subseteq torn'
  BY <1>1
<1>10. Alone' /\ Held'
  BY <1>2, <1>5, <1>6, <1>7, <1>8, <1>9, Stepping
<1> QED
  BY <1>4, <1>10 DEF PassInv

\* A request that has read nothing yet, and writes order o.
LEMMA ComesFirst ==
  ASSUME PassInv, NEW i \in Slots, NEW r, Arrives(i, r), Fits(r),
         r.op \in {"tap", "ticket", "round", "void", "advance", "settle", "assign"},
         r.pc \in {"line", "check", "fetch", "job"},
         r.op = "tap" => r.pc = "line",
         r.op \in {"ticket", "round", "void", "settle"} => r.pc = "check",
         r.op = "advance" => r.pc = "fetch",
         r.op \in {"advance", "settle", "assign"} => r.order \in Delivery
  PROVE  PassInv'
<1>1. req'[i] = r
  BY OneGoes DEF Arrives, PassInv, Shape
<1>2. Touches(r) \subseteq {r.order}
  BY DEF Touches, Fits
<1>3. ASSUME NEW p \in Touches(r), Right(p)' PROVE Has(i, p)'
  <2>1. p = r.order
    BY <1>2
  <2>2. Together(p)'
    BY <1>3 DEF Right
  <2>3. /\ r.op = "tap" => TapHas(i, p)'
        /\ r.op = "ticket" => TicketHas(i, p)'
    BY <1>1, <1>3, <2>2 DEF TapHas, TicketHas, At
  <2>4. /\ r.op = "round" => RoundHas(i, p)'
        /\ r.op = "void" => VoidHas(i, p)'
    BY <1>1, <1>3 DEF RoundHas, VoidHas, At
  <2>5. /\ r.op = "advance" => AdvanceHas(i, p)'
        /\ r.op = "settle" => SettleHas(i, p)'
    BY <1>1, <1>3, <2>1 DEF AdvanceHas, SettleHas, At
  <2> QED
    BY <1>1, <1>3, <2>1, <2>3, <2>4, <2>5 DEF Has
<1> QED
  BY <1>3, Comes

LEMMA WordsAsked ==
  /\ Taps \subseteq Words /\ Wanted \subseteq Words /\ Moves \subseteq Words
  /\ Guest \subseteq Orders /\ Delivery \subseteq Orders /\ "none" \in Words
BY Flow, TapsAssumption, StatusAssumption, MovesAssumption, KindsAssumption
   DEF Words, JobStates

LEMMA ArrivalsKept ==
  ASSUME PassInv, NEW i \in Slots, Arrivals(i) PROVE PassInv'
<1> Shape
  BY DEF PassInv
<1>1. CASE TapArrives(i)
  <2>1. PICK n \in DOMAIN lines, s \in Taps, role \in Roles :
          Arrives(i, [FreeSlot EXCEPT !.op = "tap", !.pc = "line", !.order = lines[n].order,
                                      !.line = n, !.want = s, !.role = role])
    BY <1>1 DEF TapArrives
  <2>2. PICK o \in Orders : lines[n].order = o
    <3>1. lines[n] \in LineRow
      <4>1. lines \in Seq(LineRow)
        BY DEF Shape, RowsType
      <4>2. PICK m \in Nat : lines \in [1 .. m -> LineRow]
        BY <4>1, SeqIsFunction
      <4> QED
        BY <4>2
    <3> QED
      BY <3>1 DEF LineRow
  <2>3. PICK r : r = [FreeSlot EXCEPT !.op = "tap", !.pc = "line", !.order = o,
                                      !.line = n, !.want = s, !.role = role]
    OBVIOUS
  <2>4. Fits(r) /\ r.op = "tap" /\ r.pc = "line"
    BY <2>3, WordsAsked DEF Fits, Fields, FreeSlot, PcsOf
  <2>5. Arrives(i, r)
    BY <2>1, <2>2, <2>3
  <2> QED
    BY <2>4, <2>5, ComesFirst
<1>2. CASE TicketArrives(i)
  <2>1. PICK o \in Orders, s \in Wanted, role \in Roles, asked \in Stations \cup {"none"} :
          Arrives(i, [FreeSlot EXCEPT !.op = "ticket", !.pc = "check", !.order = o,
                        !.want = s, !.role = role, !.scope = ScopeOf(role, asked)])
    BY <1>2 DEF TicketArrives
  <2>2. PICK r : r = [FreeSlot EXCEPT !.op = "ticket", !.pc = "check", !.order = o,
                        !.want = s, !.role = role, !.scope = ScopeOf(role, asked)]
    OBVIOUS
  <2>3. Fits(r) /\ r.op = "ticket" /\ r.pc = "check"
    BY <2>2, WordsAsked DEF Fits, Fields, FreeSlot, PcsOf
  <2>4. Arrives(i, r)
    BY <2>1, <2>2
  <2> QED
    BY <2>3, <2>4, ComesFirst
<1>3. CASE AdvanceArrives(i)
  <2>1. PICK o \in Delivery, to \in Moves :
          Arrives(i, [FreeSlot EXCEPT !.op = "advance", !.pc = "fetch", !.order = o, !.want = to])
    BY <1>3 DEF AdvanceArrives
  <2>2. PICK r : r = [FreeSlot EXCEPT !.op = "advance", !.pc = "fetch", !.order = o, !.want = to]
    OBVIOUS
  <2>3. Fits(r) /\ r.op = "advance" /\ r.pc = "fetch" /\ r.order = o
    BY <2>2, WordsAsked DEF Fits, Fields, FreeSlot, PcsOf
  <2>4. Arrives(i, r)
    BY <2>1, <2>2
  <2> QED
    BY <2>3, <2>4, ComesFirst
<1>4. ASSUME NEW op \in {"round", "void", "settle", "assign"}, NEW pc \in {"check", "job"},
             pc = IF op = "assign" THEN "job" ELSE "check",
             NEW S \in SUBSET Orders, op \in {"settle", "assign"} => S \subseteq Delivery,
             Simple(i, op, pc, S)
      PROVE  PassInv'
  <2>1. PICK o \in S : Arrives(i, [FreeSlot EXCEPT !.op = op, !.pc = pc, !.order = o])
    BY <1>4 DEF Simple
  <2>2. PICK r : r = [FreeSlot EXCEPT !.op = op, !.pc = pc, !.order = o]
    OBVIOUS
  <2>3. op \in DOMAIN PcsOf /\ pc \in PcsOf[op]
    BY <1>4 DEF PcsOf
  <2>4. Fits(r) /\ r.op = op /\ r.pc = pc /\ r.order = o
    BY <1>4, <2>2, <2>3, WordsAsked DEF Fits, Fields, FreeSlot
  <2>5. Arrives(i, r)
    BY <2>1, <2>2
  <2> QED
    BY <1>4, <2>4, <2>5, ComesFirst
<1>5. CASE AcceptArrives(i)
  <2>1. PICK o \in Guest : Arrives(i, [FreeSlot EXCEPT !.op = "accept", !.pc = "check", !.order = o])
    BY <1>5 DEF AcceptArrives, Simple
  <2>2. PICK r : r = [FreeSlot EXCEPT !.op = "accept", !.pc = "check", !.order = o]
    OBVIOUS
  <2>3. Fits(r) /\ r.op = "accept" /\ r.pc = "check"
    BY <2>2, WordsAsked DEF Fits, Fields, FreeSlot, PcsOf
  <2>4. Arrives(i, r) /\ Touches(r) = {}
    BY <2>1, <2>2, <2>3 DEF Touches, Fits
  <2> QED
    BY <2>3, <2>4, Comes
<1>6. CASE SweepArrives(i)
  <2>1. PICK r : r = [FreeSlot EXCEPT !.op = "sweep", !.pc = "stale"]
    OBVIOUS
  <2>2. Fits(r) /\ r.pc = "stale" /\ Touches(r) = {}
    BY <2>1, WordsAsked DEF Fits, Fields, FreeSlot, PcsOf, Touches
  <2>3. Arrives(i, r)
    BY <1>6, <2>1 DEF SweepArrives
  <2> QED
    BY <2>2, <2>3, Comes
<1>7. CASE RoundArrives(i)
  BY <1>4, <1>7 DEF RoundArrives
<1>8. CASE VoidArrives(i)
  BY <1>4, <1>8 DEF VoidArrives
<1>9. CASE SettleArrives(i)
  BY <1>4, <1>9, WordsAsked DEF SettleArrives
<1>10. CASE AssignArrives(i)
  BY <1>4, <1>10, WordsAsked DEF AssignArrives
<1> QED
  BY <1>1, <1>2, <1>3, <1>5, <1>6, <1>7, <1>8, <1>9, <1>10 DEF Arrivals

LEMMA PassKept == ASSUME PassInv, [Next]_vars PROVE PassInv'
<1>1. ASSUME NEW i \in Slots, Lines(i) \/ Pings(i) \/ Rounds(i) PROVE PassInv'
  BY <1>1, TapWritesLineKept, TapReadsOrderKept, ReadsLinesKept, WritesRolledKept,
     PingLooksKept, PingInsertsKept, AcceptChecksKept, AcceptWritesKept, RoundChecksKept,
     RoundInsertsKept DEF Lines, Pings, Rounds
<1>2. ASSUME NEW i \in Slots, Tickets(i) PROVE PassInv'
  BY <1>2, TicketChecksKept, TicketWritesKept, TicketMovesKept, TicketMovesReadKept,
     TicketDerivesKept, TicketStoresKept, TicketReadsJobKept, TicketWritesJobKept DEF Tickets
<1>3. ASSUME NEW i \in Slots, Sweeps(i) \/ Voids(i) PROVE PassInv'
  BY <1>3, SweepReadsKept, SweepClosesKept, SweepServesKept, VoidChecksKept, VoidCancelsKept,
     VoidStrikesKept, VoidDropsKept DEF Sweeps, Voids
<1>4. ASSUME NEW i \in Slots, Drives(i) PROVE PassInv'
  BY <1>4, AdvanceChecksKept, AdvanceWritesKept, AdvanceReadsPaidKept, AdvanceWritesOrderKept,
     SettleChecksKept, SettleWritesKept, SettleClosesKept, AssignsKept DEF Drives
<1> QED
  BY <1>1, <1>2, <1>3, <1>4, ArrivalsKept, DiesKept, PaysKept, PingResolvedKept, StutterKept
     DEF Next

LEMMA PassAtFirst == Init => PassInv
<1> SUFFICES ASSUME Init PROVE PassInv
  OBVIOUS
<1>1. PICK stage \in [Orders -> AllStages] :
        /\ orders = [o \in Orders |-> [status |-> StatusAt[stage[o]], voided |-> FALSE,
                                       paid |-> FALSE]]
        /\ lines = [n \in DOMAIN LineUp |->
             [order |-> LineUp[n].order, station |-> LineUp[n].station,
              status |-> LineAt[stage[LineUp[n].order]]]]
        /\ jobs = [o \in Orders |->
             [status |-> IF o \in Delivery THEN JobAt[stage[o]] ELSE "none", settled |-> FALSE]]
        /\ pings = [o \in Orders |-> IF stage[o] = "passed" /\ o \notin Delivery THEN 1 ELSE 0]
        /\ req = [i \in Slots |-> FreeSlot]
  BY DEF Init
<1>2. \A o \in Orders :
        \/ /\ stage[o] = "fresh" /\ StatusAt[stage[o]] = "new" /\ LineAt[stage[o]] = "new"
           /\ JobAt[stage[o]] = "new"
        \/ /\ stage[o] = "cooking" /\ StatusAt[stage[o]] = "preparing"
           /\ LineAt[stage[o]] = "preparing" /\ JobAt[stage[o]] = "preparing"
        \/ /\ stage[o] = "passed" /\ StatusAt[stage[o]] = "ready" /\ LineAt[stage[o]] = "ready"
           /\ JobAt[stage[o]] = "ready"
        \/ /\ stage[o] = "away" /\ StatusAt[stage[o]] = "fulfilled" /\ LineAt[stage[o]] = "served"
           /\ JobAt[stage[o]] = "picked_up"
  <2> TAKE o \in Orders
  <2>1. stage[o] \in {"fresh", "cooking", "passed", "away"}
    BY <1>1 DEF AllStages
  <2> QED
    BY <2>1 DEF StatusAt, LineAt, JobAt
<1>3. {"new", "preparing", "ready", "fulfilled", "served", "picked_up", "none"} \subseteq Words
  BY DEF Words, JobStates
<1>4. lines \in Seq(LineRow)
  <2>1. LineUp \in Seq([order : Orders, station : Stations])
    BY LinesAssumption
  <2>2. PICK n \in Nat : LineUp \in [1 .. n -> [order : Orders, station : Stations]]
    BY <2>1, SeqIsFunction
  <2>3. \A k \in 1 .. n : LineUp[k].order \in Orders /\ LineUp[k].station \in Stations
    BY <2>2
  <2>4. DOMAIN LineUp = 1 .. n
    BY <2>2
  <2>5. lines \in [1 .. n -> LineRow]
    BY <1>1, <1>2, <1>3, <2>3, <2>4 DEF LineRow
  <2> QED
    BY <2>5, SeqIsFunction
<1>5. orders \in [Orders -> OrderRow]
  BY <1>1, <1>2, <1>3 DEF OrderRow
<1>6. jobs \in [Orders -> JobRow]
  BY <1>1, <1>2, <1>3 DEF JobRow
<1>7. pings \in [Orders -> Nat]
  BY <1>1
<1>8. Shape
  BY <1>1, <1>4, <1>5, <1>6, <1>7, IdleFits DEF Shape, RowsType, Grasps, At
<1>9. \A i \in Slots : Touches(req[i]) = {}
  BY <1>1, IdleFits
<1>10. ASSUME NEW o \in Orders PROVE Right(o)
  <2>1. StatesOf(o) \subseteq {LineAt[stage[o]]}
    BY <1>1 DEF StatesOf, LinesOn
  <2>2. Made(o)
    BY <1>1, <1>2, <2>1 DEF Made, Fair
  <2>3. Said(o)
    BY <1>1, <1>2 DEF Said, Few
  <2>4. Gone(o) /\ Together(o)
    BY <1>1, <1>2 DEF Gone, Together
  <2> QED
    BY <2>2, <2>3, <2>4 DEF Right
<1> QED
  BY <1>8, <1>9, <1>10 DEF PassInv, Alone, Held

-----------------------------------------------------------------------------
(* The theorems.                                                           *)

LEMMA SoundIsRight ==
  ASSUME PassInv, NEW o \in Orders, Sound(o) PROVE Right(o)
<1>1. \A i \in Slots : o \notin Touches(req[i])
  BY DEF Sound, Quiet, Touches
<1> QED
  BY <1>1 DEF PassInv, Held, Sound

LEMMA PassHolds == Spec => []PassInv
BY PassAtFirst, PassKept, PTL DEF Spec

\* Whichever handler wrote an order's status last, and whatever it had read before it
\* did, the status agrees with the lines once the order is left alone: each handler
\* rolls up what it read, or moves what is behind what it wrote (timing.js, orders.js).
THEOREM ReadyMeansMade == Spec => []ReadyIsMade
<1>1. PassInv => ReadyIsMade
  BY SoundIsRight DEF ReadyIsMade, Right, Made, Fair
<1> QED
  BY <1>1, PassHolds, PTL

\* No handler brings a voided order back, but a tap on its line or its driver's settlement:
\* the others refuse it, and a job that was cancelled with it moves no further (orders.js).
THEOREM VoidedOrdersStayGone == Spec => []VoidedStaysGone
<1>1. PassInv => VoidedStaysGone
  BY SoundIsRight DEF VoidedStaysGone, Right, Gone
<1> QED
  BY <1>1, PassHolds, PTL

\* A handler that makes an order ready sees from the status it read whether the order was
\* ready before, and looks for a live ping: one ping, unless requests of the order met.
THEOREM ReadyOrdersAreAnnounced == Spec => []ReadyIsAnnounced
<1>1. PassInv => ReadyIsAnnounced
  BY SoundIsRight DEF ReadyIsAnnounced, Right, Said, Few
<1> QED
  BY <1>1, PassHolds, PTL

\* An order is voided just when its job is cancelled, from whichever side: a void drops
\* the job, a cancelled job voids the order, and the kitchen's mirror never revives one.
THEOREM OrderAndJobEndTogether == Spec => []CancelledTogether
<1>1. PassInv => CancelledTogether
  <2> SUFFICES ASSUME PassInv, NEW o \in Delivery, Sound(o)
               PROVE  orders[o].voided <=> jobs[o].status = "cancelled"
    BY DEF CancelledTogether
  <2>1. o \in Orders
    BY WordsAsked
  <2> QED
    BY <2>1, SoundIsRight DEF Right, Together
<1> QED
  BY <1>1, PassHolds, PTL

=============================================================================
