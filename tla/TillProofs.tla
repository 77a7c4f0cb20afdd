----------------------------- MODULE TillProofs -----------------------------
(***************************************************************************)
(* Proofs about Till, for any orders, amounts, drawers, number of          *)
(* overlapping requests and number of faults.                              *)
(***************************************************************************)
EXTENDS Till, SequenceTheorems, SumProofs

\* What a slot may hold, and an awaited payment of an order.
Sound == {r \in Request : InItsHandler(r)}

-----------------------------------------------------------------------------
(* Type correctness, part by part.                                         *)

LEMMA FreeSlotType == FreeSlot \in Sound
BY OpsAssumption DEF FreeSlot, Sound, Request, InItsHandler, AllOps, Pcs, PayStatuses

\* A slot that takes a well-formed request leaves the slots well-formed.
LEMMA SlotsType ==
  ASSUME TypeOK, NEW i \in Slots, NEW r \in Sound, req' = [req EXCEPT ![i] = r]
  PROVE  req' \in [Slots -> Request] /\ \A j \in Slots : InItsHandler(req'[j])
BY DEF TypeOK, Sound

\* A request that goes on in its own handler is well-formed.
LEMMA GoesType ==
  ASSUME NEW r \in Sound, NEW pc \in Pcs
  PROVE  [r EXCEPT !.pc = pc] \in Request
BY Zenon DEF Sound, Request

LEMMA RowUpdates ==
  ASSUME NEW q \in Seq(Row), NEW n, NEW st \in RowStatuses
  PROVE  [q EXCEPT ![n].status = st] \in Seq(Row)
<1>1. q \in [1 .. Len(q) -> Row]
  OBVIOUS
<1>2. \A r \in Row : [r EXCEPT !.status = st] \in Row
  BY Zenon DEF Row
<1>3. [q EXCEPT ![n].status = st] \in [1 .. Len(q) -> Row]
  BY <1>1, <1>2
<1> QED
  BY <1>3, SeqDef

LEMMA DrawerSales ==
  ASSUME NEW d \in Drawer, NEW a \in Int
  PROVE  [d EXCEPT !.sales = @ + a] \in Drawer
<1>1. d.sales + a \in Int
  BY DEF Drawer
<1> QED
  BY <1>1, Zenon DEF Drawer

LEMMA TallyType ==
  ASSUME TypeOK, NEW a \in Int, Tally(a)
  PROVE  drawers' \in Seq(Drawer) /\ untallied' \in Int
<1>1. CASE OpenDrawers = {}
  BY <1>1 DEF Tally, TypeOK
<1>2. CASE OpenDrawers # {}
  <2>1. PICK d : drawers' = [drawers EXCEPT ![d].sales = @ + a]
    BY <1>2 DEF Tally
  <2>2. drawers \in [1 .. Len(drawers) -> Drawer]
    BY DEF TypeOK
  <2>3. drawers' \in [1 .. Len(drawers) -> Drawer]
    BY <2>1, <2>2, DrawerSales
  <2>4. Len(drawers) \in Nat
    BY DEF TypeOK
  <2>5. drawers' \in Seq(Drawer)
    BY <2>3, <2>4, SeqDef
  <2> QED
    BY <1>2, <2>5 DEF Tally, TypeOK
<1> QED
  BY <1>1, <1>2

-----------------------------------------------------------------------------
(* Every way a request is changed leaves a request of the same operation on *)
(* the same order.                                                          *)

Same(r, s) == s \in Request /\ s.op = r.op /\ s.order = r.order

Todo == SUBSET [row : Nat, amount : Int]

WithPc(r, pc) == [r EXCEPT !.pc = pc]

LEMMA WithPcType ==
  ASSUME NEW r \in Request, NEW pc \in Pcs
  PROVE  LET s == WithPc(r, pc)
         IN Same(r, s) /\ s.pc = pc /\ s.amount = r.amount /\ s.total = r.total
<1> DEFINE s == WithPc(r, pc)
<1>1. s \in Request
  BY Zenon DEF WithPc, Request
<1>2. s.op = r.op /\ s.order = r.order
  BY Zenon DEF WithPc, Request
<1>3. s.pc = pc /\ s.amount = r.amount /\ s.total = r.total
  BY Zenon DEF WithPc, Request
<1> QED
  BY <1>1, <1>2, <1>3, Zenon DEF Same

WithNew(r, pc, n, c) == [r EXCEPT !.pc = pc, !.new = n, !.due = c]

LEMMA WithNewType ==
  ASSUME NEW r \in Request, NEW pc \in Pcs, NEW n \in Nat, NEW c \in Int
  PROVE  LET s == WithNew(r, pc, n, c)
         IN Same(r, s) /\ s.pc = pc /\ s.amount = r.amount /\ s.total = r.total
<1> DEFINE s == WithNew(r, pc, n, c)
<1>1. s \in Request
  BY Zenon DEF WithNew, Request
<1>2. s.op = r.op /\ s.order = r.order
  BY Zenon DEF WithNew, Request
<1>3. s.pc = pc /\ s.amount = r.amount /\ s.total = r.total
  BY Zenon DEF WithNew, Request
<1> QED
  BY <1>1, <1>2, <1>3, Zenon DEF Same

WithDue(r, pc, c) == [r EXCEPT !.pc = pc, !.due = c]

LEMMA WithDueType ==
  ASSUME NEW r \in Request, NEW pc \in Pcs, NEW c \in Int
  PROVE  LET s == WithDue(r, pc, c)
         IN Same(r, s) /\ s.pc = pc /\ s.amount = r.amount /\ s.total = r.total
<1> DEFINE s == WithDue(r, pc, c)
<1>1. s \in Request
  BY Zenon DEF WithDue, Request
<1>2. s.op = r.op /\ s.order = r.order
  BY Zenon DEF WithDue, Request
<1>3. s.pc = pc /\ s.amount = r.amount /\ s.total = r.total
  BY Zenon DEF WithDue, Request
<1> QED
  BY <1>1, <1>2, <1>3, Zenon DEF Same

WithRead(r, pc, t, b) == [r EXCEPT !.pc = pc, !.total = t, !.paidAt = b]

LEMMA WithReadType ==
  ASSUME NEW r \in Request, NEW pc \in Pcs, NEW t \in Nat, NEW b \in BOOLEAN
  PROVE  LET s == WithRead(r, pc, t, b)
         IN Same(r, s) /\ s.pc = pc /\ s.amount = r.amount /\ s.total = t
<1> DEFINE s == WithRead(r, pc, t, b)
<1>1. s \in Request
  BY Zenon DEF WithRead, Request
<1>2. s.op = r.op /\ s.order = r.order
  BY Zenon DEF WithRead, Request
<1>3. s.pc = pc /\ s.amount = r.amount /\ s.total = t
  BY Zenon DEF WithRead, Request
<1> QED
  BY <1>1, <1>2, <1>3, Zenon DEF Same

WithStatus(r, pc, st) == [r EXCEPT !.pc = pc, !.status = st]

LEMMA WithStatusType ==
  ASSUME NEW r \in Request, NEW pc \in Pcs, NEW st \in PayStatuses
  PROVE  LET s == WithStatus(r, pc, st)
         IN Same(r, s) /\ s.pc = pc /\ s.amount = r.amount /\ s.total = r.total
<1> DEFINE s == WithStatus(r, pc, st)
<1>1. s \in Request
  BY Zenon DEF WithStatus, Request
<1>2. s.op = r.op /\ s.order = r.order
  BY Zenon DEF WithStatus, Request
<1>3. s.pc = pc /\ s.amount = r.amount /\ s.total = r.total
  BY Zenon DEF WithStatus, Request
<1> QED
  BY <1>1, <1>2, <1>3, Zenon DEF Same

WithTodo(r, pc, q) == [r EXCEPT !.pc = pc, !.todo = q]

LEMMA WithTodoType ==
  ASSUME NEW r \in Request, NEW pc \in Pcs, NEW q \in Todo
  PROVE  LET s == WithTodo(r, pc, q)
         IN Same(r, s) /\ s.pc = pc /\ s.amount = r.amount /\ s.total = r.total
<1> DEFINE s == WithTodo(r, pc, q)
<1>1. s \in Request
  BY Zenon DEF WithTodo, Request, Todo
<1>2. s.op = r.op /\ s.order = r.order
  BY Zenon DEF WithTodo, Request
<1>3. s.pc = pc /\ s.amount = r.amount /\ s.total = r.total
  BY Zenon DEF WithTodo, Request
<1> QED
  BY <1>1, <1>2, <1>3, Zenon DEF Same

WithGiven(r, n, a, c, q) == [r EXCEPT !.pc = "given", !.row = n, !.amount = a,
                                      !.cash = TRUE, !.due = c, !.todo = q]

LEMMA WithGivenType ==
  ASSUME NEW r \in Request, NEW n \in Nat, NEW a \in Int, NEW c \in Int,
         NEW q \in Todo
  PROVE  LET s == WithGiven(r, n, a, c, q)
         IN Same(r, s) /\ s.pc = "given" /\ s.amount = a
<1> DEFINE s == WithGiven(r, n, a, c, q)
<1>1. s \in Request
  BY Zenon DEF WithGiven, Request, Todo, Pcs
<1>2. s.op = r.op /\ s.order = r.order
  BY Zenon DEF WithGiven, Request
<1>3. s.pc = "given" /\ s.amount = a
  BY Zenon DEF WithGiven, Request
<1> QED
  BY <1>1, <1>2, <1>3, Zenon DEF Same

-----------------------------------------------------------------------------
(* Where a step takes its request.                                          *)

\* The request is r before and s after, and has not come to hold a claim.
GoesOn(r, s) == s \in Sound /\ (Holds(s) => Holds(r) /\ s.order = r.order)

LEMMA StatusType == \A total, paid : PayStatus(total, paid) \in PayStatuses
BY DEF PayStatus, PayStatuses

\* Program counters that proofs name.
LEMMA PcsAre == {"claim", "known", "release", "insert", "owed", "sum", "store", "end",
                 "cancel", "give", "tally", "mark"} \subseteq Pcs
BY DEF Pcs

\* An answer frees the slot.
LEMMA AnswersMoves ==
  ASSUME NEW i \in Slots, Answers(i)
  PROVE  \E s : req' = [req EXCEPT ![i] = s] /\ GoesOn(req[i], s)
<1>1. ~Holds(FreeSlot)
  BY DEF Holds, FreeSlot
<1> QED
  BY <1>1, FreeSlotType DEF Answers, GoesOn

\* Past the till gate, whether the till is open or cannot be read.
LEMMA PassesMoves ==
  ASSUME TypeOK, NEW i \in Slots, At(i, "till"), PassesTill(i)
  PROVE  \E s : req' = [req EXCEPT ![i] = s] /\ GoesOn(req[i], s)
<1> DEFINE r == req[i]
<1>1. r \in Request /\ InItsHandler(r)
  BY DEF TypeOK
<1> DEFINE pc == IF r.op = "record" THEN "claim" ELSE "known"
           s == WithPc(r, pc)
<1>2. Same(r, s) /\ s.pc = pc /\ s.amount = r.amount /\ s.total = r.total
  BY <1>1, PcsAre, WithPcType
<1>3. GoesOn(r, s)
  BY <1>1, <1>2 DEF At, GoesOn, Sound, InItsHandler, Holds, Same
<1>4. req' = [req EXCEPT ![i] = s]
  BY DEF PassesTill, Goes, WithPc
<1> QED
  BY <1>3, <1>4

\* The steps between arrival and insertion, and the end of a request.
LEMMA TakesMoves ==
  ASSUME TypeOK, NEW i \in Slots, Takes(i), ~Claims(i)
  PROVE  \E s : req' = [req EXCEPT ![i] = s] /\ GoesOn(req[i], s)
<1> DEFINE r == req[i]
<1>1. r \in Request /\ InItsHandler(r)
  BY DEF TypeOK
<1>2. CASE Answers(i)
  BY <1>2, AnswersMoves
<1>3. CASE TillGate(i) /\ ~Answers(i)
  BY <1>3, PassesMoves DEF TillGate
<1>4. CASE ChecksOverpayment(i)
  <2>1. PICK pc \in {"release", "insert"} : req' = [req EXCEPT ![i].pc = pc]
    BY <1>4 DEF ChecksOverpayment, Goes, AfterRefusal
  <2> DEFINE s == WithPc(r, pc)
  <2>7. Same(r, s) /\ s.pc = pc /\ s.amount = r.amount /\ s.total = r.total
    BY <1>1, PcsAre, WithPcType
  <2>8. GoesOn(r, s)
    BY <1>1, <1>4, <2>7 DEF ChecksOverpayment, At, GoesOn, Sound, InItsHandler, Holds, Same
  <2>9. req' = [req EXCEPT ![i] = s]
    BY <1>4, <2>1 DEF ChecksOverpayment, Goes, WithPc
  <2> QED
    BY <2>8, <2>9
<1>5. CASE ReleasesClaim(i) \/ Finishes(i)
  BY <1>5, AnswersMoves DEF ReleasesClaim, Finishes
<1>6. CASE ChecksDuplicate(i) /\ ~Answers(i)
  <2> DEFINE s == WithPc(r, "insert")
  <2>7. Same(r, s) /\ s.pc = "insert" /\ s.amount = r.amount /\ s.total = r.total
    BY <1>1, PcsAre, WithPcType
  <2>8. GoesOn(r, s)
    BY <1>1, <1>6, <2>7 DEF ChecksDuplicate, At, GoesOn, Sound, InItsHandler, Holds, Same
  <2>9. req' = [req EXCEPT ![i] = s]
    BY <1>6 DEF ChecksDuplicate, Goes, WithPc
  <2> QED
    BY <2>8, <2>9
<1>7. CASE InsertsPayment(i)
  <2>1. Len(payments) + 1 \in Nat /\ CashIn(r) \in Int
    BY <1>1 DEF TypeOK, CashIn, Request
  <2> DEFINE s == WithNew(r, "owed", Len(payments) + 1, CashIn(r))
  <2>7. Same(r, s) /\ s.pc = "owed" /\ s.amount = r.amount /\ s.total = r.total
    BY <1>1, <2>1, PcsAre, WithNewType
  <2>8. GoesOn(r, s)
    BY <1>1, <1>7, <2>7 DEF InsertsPayment, At, GoesOn, Sound, InItsHandler, Holds, Same
  <2>9. req' = [req EXCEPT ![i] = s]
    BY <1>7 DEF InsertsPayment, Goes, WithNew
  <2> QED
    BY <2>8, <2>9
<1> QED
  BY <1>2, <1>3, <1>4, <1>5, <1>6, <1>7 DEF Takes

\* refreshPaymentStatus.
LEMMA RefreshesMoves ==
  ASSUME TypeOK, NEW i \in Slots, Refreshes(i)
  PROVE  \E s : req' = [req EXCEPT ![i] = s] /\ GoesOn(req[i], s)
<1> DEFINE r == req[i]
<1>1. r \in Request /\ InItsHandler(r)
  BY DEF TypeOK
<1>2. CASE ReadsOrder(i)
  <2> DEFINE o == orders[r.order]
  <2>1. r.order \in Orders
    BY <1>1, <1>2 DEF ReadsOrder, At, InItsHandler
  <2>2. o.total \in Nat /\ o.paidAt \in BOOLEAN
    BY <2>1, AmountsAssumption DEF TypeOK, Order
  <2> DEFINE s == WithRead(r, "sum", o.total, o.paidAt)
  <2>7. Same(r, s) /\ s.pc = "sum" /\ s.amount = r.amount /\ s.total = o.total
    BY <1>1, <2>2, PcsAre, WithReadType
  <2>8. GoesOn(r, s)
    BY <1>1, <1>2, <2>7 DEF ReadsOrder, At, GoesOn, Sound, InItsHandler, Holds, Same
  <2>9. req' = [req EXCEPT ![i] = s]
    BY <1>2 DEF ReadsOrder, Goes, WithRead
  <2> QED
    BY <2>8, <2>9
<1>3. CASE ReadsRows(i)
  <2> DEFINE st == PayStatus(r.total, Paid(r.order))
  <2>1. st \in PayStatuses
    BY StatusType
  <2> DEFINE s == WithStatus(r, "store", st)
  <2>7. Same(r, s) /\ s.pc = "store" /\ s.amount = r.amount /\ s.total = r.total
    BY <1>1, <2>1, PcsAre, WithStatusType
  <2>8. GoesOn(r, s)
    BY <1>1, <1>3, <2>7 DEF ReadsRows, At, GoesOn, Sound, InItsHandler, Holds, Same
  <2>9. req' = [req EXCEPT ![i] = s]
    BY <1>3 DEF ReadsRows, Goes, WithStatus
  <2> QED
    BY <2>8, <2>9
<1>4. CASE StoresStatus(i)
  <2> DEFINE s == WithPc(r, "end")
  <2>7. Same(r, s) /\ s.pc = "end" /\ s.amount = r.amount /\ s.total = r.total
    BY <1>1, PcsAre, WithPcType
  <2>8. GoesOn(r, s)
    BY <1>1, <1>4, <2>7 DEF StoresStatus, At, GoesOn, Sound, InItsHandler, Holds, Same
  <2>9. req' = [req EXCEPT ![i] = s]
    BY <1>4 DEF StoresStatus, Goes, WithPc
  <2> QED
    BY <2>8, <2>9
<1> QED
  BY <1>2, <1>3, <1>4 DEF Refreshes

\* A void: the rows it gives back are read once, then gone through.
LEMMA VoidsMoves ==
  ASSUME TypeOK, NEW i \in Slots, Voids(i)
  PROVE  \E s : req' = [req EXCEPT ![i] = s] /\ GoesOn(req[i], s)
<1> DEFINE r == req[i]
<1>1. r \in Request /\ InItsHandler(r)
  BY DEF TypeOK
<1>2. CASE VoidReads(i)
  <2>1. GivenBack(r.order) \in Todo
    <3>1. RowsOf(r.order) \subseteq 1 .. Len(payments)
      BY DEF RowsOf, TypeOK
    <3>2. \A n \in 1 .. Len(payments) : payments[n] \in Row
      BY DEF TypeOK
    <3>3. \A n \in 1 .. Len(payments) : n \in Nat /\ payments[n].amount \in Int
      BY <3>2, Len(payments) \in Nat DEF TypeOK, Row
    <3> QED
      BY <3>1, <3>3 DEF GivenBack, Todo
  <2> DEFINE s == WithTodo(r, "cancel", GivenBack(r.order))
  <2>7. Same(r, s) /\ s.pc = "cancel" /\ s.amount = r.amount /\ s.total = r.total
    BY <1>1, <2>1, PcsAre, WithTodoType
  <2>8. GoesOn(r, s)
    BY <1>1, <1>2, <2>7 DEF VoidReads, At, GoesOn, Sound, InItsHandler, Holds, Same
  <2>9. req' = [req EXCEPT ![i] = s]
    BY <1>2 DEF VoidReads, Goes, WithTodo
  <2> QED
    BY <2>8, <2>9
<1>3. CASE Cancels(i)
  <2> DEFINE s == WithPc(r, "give")
  <2>7. Same(r, s) /\ s.pc = "give" /\ s.amount = r.amount /\ s.total = r.total
    BY <1>1, PcsAre, WithPcType
  <2>8. GoesOn(r, s)
    BY <1>1, <1>3, <2>7 DEF Cancels, At, GoesOn, Sound, InItsHandler, Holds, Same
  <2>9. req' = [req EXCEPT ![i] = s]
    BY <1>3 DEF Cancels, Goes, WithPc
  <2> QED
    BY <2>8, <2>9
<1>4. CASE MarksGiven(i)
  <2> DEFINE s == WithPc(r, "tally")
  <2>7. Same(r, s) /\ s.pc = "tally" /\ s.amount = r.amount /\ s.total = r.total
    BY <1>1, PcsAre, WithPcType
  <2>8. GoesOn(r, s)
    BY <1>1, <1>4, <2>7 DEF MarksGiven, At, GoesOn, Sound, InItsHandler, Holds, Same
  <2>9. req' = [req EXCEPT ![i] = s]
    BY <1>4 DEF MarksGiven, Goes, WithPc
  <2> QED
    BY <2>8, <2>9
<1>5. CASE GivesBack(i)
  <2>1. PICK p \in r.todo :
          /\ r.pc = "give"
          /\ req' = [req EXCEPT ![i] = [r EXCEPT !.pc = "given", !.row = p.row,
                          !.amount = p.amount, !.cash = TRUE, !.due = -p.amount,
                          !.todo = @ \ {p}]]
    BY <1>5 DEF GivesBack, At
  <2> DEFINE s == WithGiven(r, p.row, p.amount, -p.amount, r.todo \ {p})
  <2>2. r.todo \in Todo
    BY <1>1 DEF Request, Todo
  <2>3. p.row \in Nat /\ p.amount \in Int /\ -p.amount \in Int /\ r.todo \ {p} \in Todo
    BY <2>2 DEF Todo
  <2>4. Same(r, s) /\ s.pc = "given" /\ s.amount = p.amount
    BY <1>1, <2>3, WithGivenType
  <2>5. GoesOn(r, s)
    BY <1>1, <2>1, <2>4 DEF GoesOn, Sound, InItsHandler, Holds, Same
  <2>6. req' = [req EXCEPT ![i] = s]
    BY <2>1 DEF WithGiven
  <2> QED
    BY <2>5, <2>6
<1>6. CASE TalliesGiven(i)
  <2> DEFINE s == WithDue(r, "give", 0)
  <2>7. Same(r, s) /\ s.pc = "give" /\ s.amount = r.amount /\ s.total = r.total
    BY <1>1, PcsAre, WithDueType
  <2>8. GoesOn(r, s)
    BY <1>1, <1>6, <2>7 DEF TalliesGiven, At, GoesOn, Sound, InItsHandler, Holds, Same
  <2>9. req' = [req EXCEPT ![i] = s]
    BY <1>6 DEF TalliesGiven, Goes, WithDue
  <2> QED
    BY <2>8, <2>9
<1>7. CASE VoidEnds(i)
  BY <1>7, AnswersMoves DEF VoidEnds
<1> QED
  BY <1>2, <1>3, <1>4, <1>5, <1>6, <1>7 DEF Voids

\* Refunds, verifications, amendments and the drawers.
LEMMA OthersMove ==
  ASSUME TypeOK, NEW i \in Slots, 
         InsertsRefund(i) \/ MarksRow(i) \/ WritesTotal(i) \/ Closes(i) \/ Moves(i)
  PROVE  \E s : req' = [req EXCEPT ![i] = s] /\ GoesOn(req[i], s)
<1> DEFINE r == req[i]
<1>1. r \in Request /\ InItsHandler(r)
  BY DEF TypeOK
<1>2. CASE InsertsRefund(i)
  <2>1. Len(payments) + 1 \in Nat /\ CashBack(r) \in Int
    BY <1>1 DEF TypeOK, CashBack, Request
  <2> DEFINE s == WithNew(r, "mark", Len(payments) + 1, CashBack(r))
  <2>7. Same(r, s) /\ s.pc = "mark" /\ s.amount = r.amount /\ s.total = r.total
    BY <1>1, <2>1, PcsAre, WithNewType
  <2>8. GoesOn(r, s)
    BY <1>1, <1>2, <2>7 DEF InsertsRefund, At, GoesOn, Sound, InItsHandler, Holds, Same
  <2>9. req' = [req EXCEPT ![i] = s]
    BY <1>2 DEF InsertsRefund, Goes, WithNew
  <2> QED
    BY <2>8, <2>9
<1>3. CASE MarksRow(i)
  <2> DEFINE s == WithDue(r, "owed", 0)
  <2>7. Same(r, s) /\ s.pc = "owed" /\ s.amount = r.amount /\ s.total = r.total
    BY <1>1, PcsAre, WithDueType
  <2>8. GoesOn(r, s)
    BY <1>1, <1>3, <2>7 DEF MarksRow, At, GoesOn, Sound, InItsHandler, Holds, Same
  <2>9. req' = [req EXCEPT ![i] = s]
    BY <1>3 DEF MarksRow, Goes, WithDue
  <2> QED
    BY <2>8, <2>9
<1>4. CASE WritesTotal(i)
  <2> DEFINE s == WithPc(r, "owed")
  <2>7. Same(r, s) /\ s.pc = "owed" /\ s.amount = r.amount /\ s.total = r.total
    BY <1>1, PcsAre, WithPcType
  <2>8. GoesOn(r, s)
    BY <1>1, <1>4, <2>7 DEF WritesTotal, At, GoesOn, Sound, InItsHandler, Holds, Same
  <2>9. req' = [req EXCEPT ![i] = s]
    BY <1>4 DEF WritesTotal, Goes, WithPc
  <2> QED
    BY <2>8, <2>9
<1>5. CASE Closes(i) \/ Moves(i)
  BY <1>5, AnswersMoves DEF Closes, Moves
<1> QED
  BY <1>2, <1>3, <1>4, <1>5

-----------------------------------------------------------------------------
(* A request arrives.                                                      *)

\* What arrives is a request of its operation, and holds no claim yet.
Arriving(r) == r \in Request /\ (r.op \in Ops => InItsHandler(r)) /\ ~Holds(r)

LEMMA FreeSlotIs == FreeSlot \in Request
BY FreeSlotType DEF Sound

LEMMA RecordRequest ==
  ASSUME NEW o \in Orders, NEW a \in Amounts, NEW c \in BOOLEAN, NEW t \in Totals
  PROVE  Arriving([FreeSlot EXCEPT !.op = "record", !.pc = "till", !.order = o,
                                   !.amount = a, !.cash = c, !.total = t])
<1> DEFINE r == [FreeSlot EXCEPT !.op = "record", !.pc = "till", !.order = o,
                                   !.amount = a, !.cash = c, !.total = t]
<1>1. /\ "record" \in AllOps \cup {"none"} /\ "till" \in Pcs
      /\ a \in Nat /\ a \in Int /\ t \in Nat /\ o \in Orders \cup {0}
  BY AmountsAssumption DEF AllOps, Pcs
<1>2. r \in Request
  BY <1>1, FreeSlotIs, Zenon DEF Request
<1>3. r.op = "record" /\ r.pc = "till" /\ r.order = o /\ r.amount = a
  BY DEF FreeSlot
<1> HIDE DEF r
<1>4. Arriving(r)
  BY <1>1, <1>2, <1>3 DEF Arriving, InItsHandler, Holds
<1> QED
  BY <1>4 DEF r

LEMMA SettleRequest ==
  ASSUME NEW o \in Orders, NEW a \in Amounts, NEW c \in BOOLEAN
  PROVE  Arriving([FreeSlot EXCEPT !.op = "settle", !.pc = "till", !.order = o,
                                   !.amount = a, !.cash = c])
<1> DEFINE r == [FreeSlot EXCEPT !.op = "settle", !.pc = "till", !.order = o,
                                   !.amount = a, !.cash = c]
<1>1. /\ "settle" \in AllOps \cup {"none"} /\ "till" \in Pcs
      /\ a \in Nat /\ a \in Int /\ o \in Orders \cup {0}
  BY AmountsAssumption DEF AllOps, Pcs
<1>2. r \in Request
  BY <1>1, FreeSlotIs, Zenon DEF Request
<1>3. r.op = "settle" /\ r.pc = "till" /\ r.order = o /\ r.amount = a
  BY DEF FreeSlot
<1> HIDE DEF r
<1>4. Arriving(r)
  BY <1>1, <1>2, <1>3 DEF Arriving, InItsHandler, Holds
<1> QED
  BY <1>4 DEF r

LEMMA VerifyRequest ==
  ASSUME NEW n \in Nat, NEW o \in Orders, NEW op \in {"verify", "reject"}
  PROVE  Arriving([FreeSlot EXCEPT !.op = op, !.pc = "mark", !.row = n, !.order = o])
<1> DEFINE r == [FreeSlot EXCEPT !.op = op, !.pc = "mark", !.row = n, !.order = o]
<1>1. /\ op \in AllOps \cup {"none"} /\ "mark" \in Pcs
      /\ o \in Orders \cup {0}
  BY AmountsAssumption DEF AllOps, Pcs
<1>2. r \in Request
  BY <1>1, FreeSlotIs, Zenon DEF Request
<1>3. r.op = op /\ r.pc = "mark" /\ r.order = o
  BY DEF FreeSlot
<1> HIDE DEF r
<1>4. Arriving(r)
  BY <1>1, <1>2, <1>3 DEF Arriving, InItsHandler, Holds
<1> QED
  BY <1>4 DEF r

LEMMA RefundRequest ==
  ASSUME NEW n \in Nat, NEW o \in Orders, NEW a \in Amounts, NEW c \in BOOLEAN
  PROVE  Arriving([FreeSlot EXCEPT !.op = "refund", !.pc = "insert", !.row = n,
                                   !.order = o, !.amount = a, !.cash = c])
<1> DEFINE r == [FreeSlot EXCEPT !.op = "refund", !.pc = "insert", !.row = n,
                                   !.order = o, !.amount = a, !.cash = c]
<1>1. /\ "refund" \in AllOps \cup {"none"} /\ "insert" \in Pcs
      /\ a \in Nat /\ a \in Int /\ o \in Orders \cup {0}
  BY AmountsAssumption DEF AllOps, Pcs
<1>2. r \in Request
  BY <1>1, FreeSlotIs, Zenon DEF Request
<1>3. r.op = "refund" /\ r.pc = "insert" /\ r.order = o
  BY DEF FreeSlot
<1> HIDE DEF r
<1>4. Arriving(r)
  BY <1>1, <1>2, <1>3 DEF Arriving, InItsHandler, Holds
<1> QED
  BY <1>4 DEF r

LEMMA AmendRequest ==
  ASSUME NEW o \in Orders, NEW t \in Totals
  PROVE  Arriving([FreeSlot EXCEPT !.op = "amend", !.pc = "write", !.order = o,
                                   !.total = t])
<1> DEFINE r == [FreeSlot EXCEPT !.op = "amend", !.pc = "write", !.order = o,
                                   !.total = t]
<1>1. /\ "amend" \in AllOps \cup {"none"} /\ "write" \in Pcs
      /\ t \in Nat /\ o \in Orders \cup {0}
  BY AmountsAssumption DEF AllOps, Pcs
<1>2. r \in Request
  BY <1>1, FreeSlotIs, Zenon DEF Request
<1>3. r.op = "amend" /\ r.pc = "write" /\ r.order = o /\ r.total = t
  BY DEF FreeSlot
<1> HIDE DEF r
<1>4. Arriving(r)
  BY <1>1, <1>2, <1>3 DEF Arriving, InItsHandler, Holds
<1> QED
  BY <1>4 DEF r

LEMMA VoidRequest ==
  ASSUME NEW o \in Orders
  PROVE  Arriving([FreeSlot EXCEPT !.op = "void", !.pc = "rows", !.order = o])
<1> DEFINE r == [FreeSlot EXCEPT !.op = "void", !.pc = "rows", !.order = o]
<1>1. /\ "void" \in AllOps \cup {"none"} /\ "rows" \in Pcs
      /\ o \in Orders \cup {0}
  BY AmountsAssumption DEF AllOps, Pcs
<1>2. r \in Request
  BY <1>1, FreeSlotIs, Zenon DEF Request
<1>3. r.op = "void" /\ r.pc = "rows" /\ r.order = o
  BY DEF FreeSlot
<1> HIDE DEF r
<1>4. Arriving(r)
  BY <1>1, <1>2, <1>3 DEF Arriving, InItsHandler, Holds
<1> QED
  BY <1>4 DEF r

LEMMA CloseRequest ==
  ASSUME NEW d \in Nat, NEW x \in Int
  PROVE  Arriving([FreeSlot EXCEPT !.op = "close", !.pc = "count", !.drawer = d,
                                   !.amount = x])
<1> DEFINE r == [FreeSlot EXCEPT !.op = "close", !.pc = "count", !.drawer = d,
                                   !.amount = x]
<1>1. "close" \in AllOps \cup {"none"} /\ "count" \in Pcs
  BY AmountsAssumption DEF AllOps, Pcs
<1>2. r \in Request
  BY <1>1, FreeSlotIs, Zenon DEF Request
<1>3. r.op = "close" /\ r.pc = "count"
  BY DEF FreeSlot
<1> HIDE DEF r
<1>4. Arriving(r)
  BY <1>1, <1>2, <1>3 DEF Arriving, InItsHandler, Holds
<1> QED
  BY <1>4 DEF r

LEMMA MoveRequest ==
  ASSUME NEW d \in Nat, NEW a \in Amounts, NEW op \in {"paidin", "paidout"}
  PROVE  Arriving([FreeSlot EXCEPT !.op = op, !.pc = "move", !.amount = a,
                                   !.drawer = d])
<1> DEFINE r == [FreeSlot EXCEPT !.op = op, !.pc = "move", !.amount = a,
                                   !.drawer = d]
<1>1. /\ op \in AllOps \cup {"none"} /\ "move" \in Pcs
      /\ a \in Nat /\ a \in Int
  BY AmountsAssumption DEF AllOps, Pcs
<1>2. r \in Request
  BY <1>1, FreeSlotIs, Zenon DEF Request
<1>3. r.op = op /\ r.pc = "move" /\ r.amount = a
  BY DEF FreeSlot
<1> HIDE DEF r
<1>4. Arriving(r)
  BY <1>1, <1>2, <1>3 DEF Arriving, InItsHandler, Holds
<1> QED
  BY <1>4 DEF r

LEMMA ArrivesMoves ==
  ASSUME NEW i \in Slots, NEW r, Arriving(r), Arrives(i, r)
  PROVE  /\ req' = [req EXCEPT ![i] = r] /\ GoesOn(req[i], r)
         /\ started' = started + 1
         /\ UNCHANGED <<book, drawers, deferred, untallied, faults>>
BY DEF Arriving, Arrives, GoesOn, Sound

LEMMA LedgerType ==
  ASSUME TypeOK, NEW d \in DOMAIN drawers
  PROVE  d \in Nat /\ Ledger(d) \in Int
<1>1. d \in 1 .. Len(drawers) /\ Len(drawers) \in Nat /\ drawers[d] \in Drawer
  BY DEF TypeOK
<1> QED
  BY <1>1 DEF Drawer, Ledger

LEMMA ArrivalsMove ==
  ASSUME TypeOK, NEW i \in Slots, Arrivals(i)
  PROVE  /\ \E s : req' = [req EXCEPT ![i] = s] /\ GoesOn(req[i], s)
         /\ started' = started + 1
         /\ UNCHANGED <<book, drawers, deferred, untallied, faults>>
<1>0. \A o \in Orders : orders[o].total \in Totals
  BY DEF TypeOK, Order
<1>1. CASE RecordArrives(i)
  <2>1. PICK o \in Orders, a \in Amounts, c \in BOOLEAN :
          Arrives(i, [FreeSlot EXCEPT !.op = "record", !.pc = "till", !.order = o,
                                 !.amount = a, !.cash = c, !.total = orders[o].total])
    BY <1>1 DEF RecordArrives
  <2> DEFINE r == [FreeSlot EXCEPT !.op = "record", !.pc = "till", !.order = o,
                                 !.amount = a, !.cash = c, !.total = orders[o].total]
  <2>2. Arriving(r)
    BY <1>0, RecordRequest
  <2>3. Arrives(i, r)
    BY <2>1
  <2> HIDE DEF r
  <2> QED
    BY <2>2, <2>3, ArrivesMoves
<1>2. CASE SettleArrives(i)
  <2>1. PICK o \in Orders, a \in Amounts, c \in BOOLEAN :
          Arrives(i, [FreeSlot EXCEPT !.op = "settle", !.pc = "till", !.order = o,
                                 !.amount = a, !.cash = c])
    BY <1>2 DEF SettleArrives
  <2> DEFINE r == [FreeSlot EXCEPT !.op = "settle", !.pc = "till", !.order = o,
                                 !.amount = a, !.cash = c]
  <2>2. Arriving(r)
    BY SettleRequest
  <2>3. Arrives(i, r)
    BY <2>1
  <2> HIDE DEF r
  <2> QED
    BY <2>2, <2>3, ArrivesMoves
<1>3. CASE VerifyArrives(i)
  <2>1. PICK n \in DOMAIN payments, op \in {"verify", "reject"} :
          Arrives(i, [FreeSlot EXCEPT !.op = op, !.pc = "mark", !.row = n,
                              !.order = payments[n].order])
    BY <1>3 DEF VerifyArrives
  <2> DEFINE r == [FreeSlot EXCEPT !.op = op, !.pc = "mark", !.row = n,
                              !.order = payments[n].order]
  <2>2. n \in Nat /\ payments[n] \in Row
    BY DEF TypeOK
  <2>3. payments[n].order \in Orders
    BY <2>2 DEF Row
  <2>4. Arriving(r)
    BY <2>2, <2>3, VerifyRequest
  <2>5. Arrives(i, r)
    BY <2>1
  <2> HIDE DEF r
  <2> QED
    BY <2>4, <2>5, ArrivesMoves
<1>4. CASE RefundArrives(i)
  <2>1. PICK n \in DOMAIN payments, a \in Amounts :
          Arrives(i, [FreeSlot EXCEPT !.op = "refund", !.pc = "insert", !.row = n,
                                 !.order = payments[n].order, !.amount = a,
                                 !.cash = payments[n].cash])
    BY <1>4 DEF RefundArrives
  <2> DEFINE r == [FreeSlot EXCEPT !.op = "refund", !.pc = "insert", !.row = n,
                                 !.order = payments[n].order, !.amount = a,
                                 !.cash = payments[n].cash]
  <2>2. n \in Nat /\ payments[n] \in Row
    BY DEF TypeOK
  <2>3. payments[n].order \in Orders /\ payments[n].cash \in BOOLEAN
    BY <2>2 DEF Row
  <2>4. Arriving(r)
    BY <2>2, <2>3, RefundRequest
  <2>5. Arrives(i, r)
    BY <2>1
  <2> HIDE DEF r
  <2> QED
    BY <2>4, <2>5, ArrivesMoves
<1>5. CASE AmendArrives(i)
  <2>1. PICK o \in Orders, u \in Totals :
          Arrives(i, [FreeSlot EXCEPT !.op = "amend", !.pc = "write", !.order = o,
                                 !.total = u])
    BY <1>5 DEF AmendArrives
  <2> DEFINE r == [FreeSlot EXCEPT !.op = "amend", !.pc = "write", !.order = o,
                                 !.total = u]
  <2>2. Arriving(r)
    BY AmendRequest
  <2>3. Arrives(i, r)
    BY <2>1
  <2> HIDE DEF r
  <2> QED
    BY <2>2, <2>3, ArrivesMoves
<1>6. CASE VoidArrives(i)
  <2>1. PICK o \in Orders :
          Arrives(i, [FreeSlot EXCEPT !.op = "void", !.pc = "rows", !.order = o])
    BY <1>6 DEF VoidArrives
  <2> DEFINE r == [FreeSlot EXCEPT !.op = "void", !.pc = "rows", !.order = o]
  <2>2. Arriving(r)
    BY VoidRequest
  <2>3. Arrives(i, r)
    BY <2>1
  <2> HIDE DEF r
  <2> QED
    BY <2>2, <2>3, ArrivesMoves
<1>7. CASE CloseArrives(i)
  <2>1. PICK named \in Named : \E d \in Newest(named \cup OpenDrawers) :
          Arrives(i, [FreeSlot EXCEPT !.op = "close", !.pc = "count", !.drawer = d,
                              !.amount = Ledger(d)])
    BY <1>7 DEF CloseArrives
  <2>2. PICK d \in Newest(named \cup OpenDrawers) :
          Arrives(i, [FreeSlot EXCEPT !.op = "close", !.pc = "count", !.drawer = d,
                              !.amount = Ledger(d)])
    BY <2>1
  <2> DEFINE r == [FreeSlot EXCEPT !.op = "close", !.pc = "count", !.drawer = d,
                              !.amount = Ledger(d)]
  <2>3. d \in DOMAIN drawers
    BY DEF Newest, Named, OpenDrawers
  <2>4. d \in Nat /\ Ledger(d) \in Int
    BY <2>3, LedgerType
  <2>5. Arriving(r)
    BY <2>4, CloseRequest
  <2>6. Arrives(i, r)
    BY <2>2
  <2> HIDE DEF r
  <2> QED
    BY <2>5, <2>6, ArrivesMoves
<1>8. CASE MoveArrives(i)
  <2>1. PICK op \in {"paidin", "paidout"}, a \in Amounts, d \in Newest(OpenDrawers) :
          Arrives(i, [FreeSlot EXCEPT !.op = op, !.pc = "move", !.amount = a, !.drawer = d])
    BY <1>8 DEF MoveArrives
  <2> DEFINE r == [FreeSlot EXCEPT !.op = op, !.pc = "move", !.amount = a, !.drawer = d]
  <2>2. d \in DOMAIN drawers
    BY DEF Newest, OpenDrawers
  <2>3. d \in Nat
    BY <2>2, LedgerType
  <2>4. Arriving(r)
    BY <2>3, MoveRequest
  <2>5. Arrives(i, r)
    BY <2>1
  <2> HIDE DEF r
  <2> QED
    BY <2>4, <2>5, ArrivesMoves
<1> QED
  BY <1>1, <1>2, <1>3, <1>4, <1>5, <1>6, <1>7, <1>8 DEF Arrivals

-----------------------------------------------------------------------------
(* What a step leaves in the other variables.                              *)

LEMMA OrderUpdates ==
  ASSUME NEW f \in [Orders -> Order], NEW o \in Orders, NEW p \in PayStatuses,
         NEW b \in BOOLEAN, NEW t \in Totals
  PROVE  /\ [f EXCEPT ![o].pay = p] \in [Orders -> Order]
         /\ [f EXCEPT ![o].pay = p, ![o].paidAt = b] \in [Orders -> Order]
         /\ [f EXCEPT ![o].voided = b] \in [Orders -> Order]
         /\ [f EXCEPT ![o].total = t] \in [Orders -> Order]
<1>1. \A x \in Order : /\ [x EXCEPT !.pay = p] \in Order
                       /\ [x EXCEPT !.pay = p, !.paidAt = b] \in Order
                       /\ [x EXCEPT !.voided = b] \in Order
                       /\ [x EXCEPT !.total = t] \in Order
  BY Zenon DEF Order
<1>2. f[o] \in Order
  OBVIOUS
<1>3. [f EXCEPT ![o].pay = p] \in [Orders -> Order]
  BY <1>1, <1>2
<1>4. [f EXCEPT ![o].pay = p, ![o].paidAt = b] \in [Orders -> Order]
  BY <1>1, <1>2
<1>5. [f EXCEPT ![o].voided = b] \in [Orders -> Order]
  BY <1>1, <1>2
<1>6. [f EXCEPT ![o].total = t] \in [Orders -> Order]
  BY <1>1, <1>2
<1> QED
  BY <1>3, <1>4, <1>5, <1>6

ChangesOrders(i) == Claims(i) \/ ReleasesClaim(i) \/ StoresStatus(i) \/ WritesTotal(i)
                    \/ Cancels(i)

LEMMA OrdersLeft ==
  ASSUME NEW i \in Slots, Step(i), ~ChangesOrders(i)
  PROVE  orders' = orders
BY DEF ChangesOrders, Step, Takes, Refreshes, Voids, TillGate, ChecksOverpayment,
       ChecksDuplicate, InsertsPayment, Finishes, ReadsOrder, ReadsRows, VoidReads,
       GivesBack, MarksGiven, TalliesGiven, VoidEnds, InsertsRefund, MarksRow, Closes,
       Moves, book

LEMMA StepOrders ==
  ASSUME TypeOK, NEW i \in Slots, Step(i)
  PROVE  orders' \in [Orders -> Order]
<1> DEFINE r == req[i]
           o == req[i].order
<1>1. r \in Request /\ InItsHandler(r) /\ orders \in [Orders -> Order]
  BY DEF TypeOK
<1>2. \A x \in Orders : orders[x].pay \in PayStatuses /\ orders[x].paidAt \in BOOLEAN
  BY <1>1 DEF Order
<1>3. "verifying" \in PayStatuses /\ "unpaid" \in PayStatuses
  BY DEF PayStatuses
<1>4. \E t \in Totals : TRUE
  BY AmountsAssumption
<1>5. CASE Claims(i)
  <2>1. o \in Orders
    BY <1>1, <1>5 DEF Claims, At, InItsHandler
  <2>2. [orders EXCEPT ![o].pay = "verifying"] \in [Orders -> Order]
    BY <1>1, <1>3, <1>4, <2>1, OrderUpdates
  <2> QED
    BY <1>1, <1>5, <2>2 DEF Claims
<1>6. CASE ReleasesClaim(i)
  <2> DEFINE p == IF orders[o].pay = "verifying" THEN "unpaid" ELSE orders[o].pay
  <2>1. o \in Orders
    BY <1>1, <1>6 DEF ReleasesClaim, At, InItsHandler
  <2>2. p \in PayStatuses
    BY <1>2, <1>3, <2>1
  <2>3. orders' = [orders EXCEPT ![o].pay = p]
    BY <1>6 DEF ReleasesClaim
  <2> HIDE DEF p
  <2>4. [orders EXCEPT ![o].pay = p] \in [Orders -> Order]
    BY <1>1, <1>4, <2>1, <2>2, OrderUpdates
  <2> QED
    BY <2>3, <2>4
<1>7. CASE StoresStatus(i)
  <2> DEFINE b == PaidAt(r)
             st == r.status
  <2>1. o \in Orders
    BY <1>1, <1>7 DEF StoresStatus, At, InItsHandler
  <2>2. b \in BOOLEAN /\ st \in PayStatuses
    BY <1>1 DEF PaidAt, Request
  <2>3. orders' = [orders EXCEPT ![o].pay = st, ![o].paidAt = b]
    BY <1>7 DEF StoresStatus
  <2> HIDE DEF b, st
  <2>4. [orders EXCEPT ![o].pay = st, ![o].paidAt = b] \in [Orders -> Order]
    BY <1>1, <1>4, <2>1, <2>2, OrderUpdates
  <2> QED
    BY <2>3, <2>4
<1>8. CASE WritesTotal(i)
  <2>1. o \in Orders /\ r.total \in Totals
    BY <1>1, <1>8 DEF WritesTotal, At, InItsHandler
  <2>2. [orders EXCEPT ![o].total = r.total] \in [Orders -> Order]
    BY <1>1, <1>3, <2>1, OrderUpdates
  <2> QED
    BY <1>8, <2>2 DEF WritesTotal
<1>9. CASE Cancels(i)
  <2>1. o \in Orders
    BY <1>1, <1>9 DEF Cancels, At, InItsHandler
  <2>2. [orders EXCEPT ![o].voided = TRUE] \in [Orders -> Order]
    BY <1>1, <1>3, <1>4, <2>1, OrderUpdates
  <2> QED
    BY <1>9, <2>2 DEF Cancels
<1> QED
  BY <1>1, <1>5, <1>6, <1>7, <1>8, <1>9, OrdersLeft DEF ChangesOrders

ChangesPayments(i) == InsertsPayment(i) \/ InsertsRefund(i) \/ GivesBack(i)
                      \/ MarksRow(i) \/ MarksGiven(i)

LEMMA PaymentsLeft ==
  ASSUME NEW i \in Slots, Step(i), ~ChangesPayments(i)
  PROVE  payments' = payments
BY DEF ChangesPayments, Step, Takes, Refreshes, Voids, TillGate, Claims,
       ChecksOverpayment, ReleasesClaim, ChecksDuplicate, Finishes, ReadsOrder,
       ReadsRows, StoresStatus, VoidReads, Cancels, TalliesGiven, VoidEnds, WritesTotal,
       Closes, Moves, book

LEMMA StepPayments ==
  ASSUME TypeOK, NEW i \in Slots, Step(i)
  PROVE  payments' \in Seq(Row)
<1> DEFINE r == req[i]
<1>1. r \in Request /\ InItsHandler(r) /\ payments \in Seq(Row)
  BY DEF TypeOK
<1>2. CASE InsertsPayment(i)
  <2>1. r.order \in Orders
    BY <1>1, <1>2 DEF InsertsPayment, InItsHandler
  <2>2. NewRow(r) \in Row
    BY <1>1, <2>1 DEF NewRow, Row, RowStatuses, Request
  <2> QED
    BY <1>1, <1>2, <2>2, AppendProperties DEF InsertsPayment, Insert
<1>3. CASE InsertsRefund(i)
  <2>1. r.order \in Orders
    BY <1>1, <1>3 DEF InsertsRefund, InItsHandler
  <2>2. RefundRow(r) \in Row
    BY <1>1, <2>1 DEF RefundRow, Row, RowStatuses, Request
  <2> QED
    BY <1>1, <1>3, <2>2, AppendProperties DEF InsertsRefund, Insert
<1>4. CASE GivesBack(i)
  <2>1. PICK p \in r.todo :
          /\ r.pc = "give"
          /\ Insert(RefundRow(WithGiven(r, p.row, p.amount, -p.amount, r.todo \ {p})))
    BY <1>4 DEF GivesBack, At, WithGiven
  <2> DEFINE s == WithGiven(r, p.row, p.amount, -p.amount, r.todo \ {p})
  <2>2. r.todo \in Todo
    BY <1>1 DEF Request, Todo
  <2>3. p.row \in Nat /\ p.amount \in Int /\ -p.amount \in Int /\ r.todo \ {p} \in Todo
    BY <2>2 DEF Todo
  <2>4. Same(r, s) /\ s.pc = "given" /\ s.amount = p.amount
    BY <1>1, <2>3, WithGivenType
  <2>5. r.order \in Orders
    BY <1>1, <2>1 DEF InItsHandler
  <2>6. RefundRow(s) \in Row
    BY <2>4, <2>5 DEF RefundRow, Row, RowStatuses, Request, Same
  <2> QED
    BY <1>1, <2>1, <2>6, AppendProperties DEF Insert
<1>5. CASE MarksRow(i)
  <2>1. NewStatus(r.op) \in RowStatuses
    BY <1>1, <1>5 DEF MarksRow, At, InItsHandler, NewStatus, RowStatuses
  <2>2. PICK st \in RowStatuses : st = NewStatus(r.op)
    BY <2>1
  <2> QED
    BY <1>1, <1>5, <2>2, RowUpdates DEF MarksRow
<1>6. CASE MarksGiven(i)
  BY <1>1, <1>6, RowUpdates DEF MarksGiven, RowStatuses
<1> QED
  BY <1>1, <1>2, <1>3, <1>4, <1>5, <1>6, PaymentsLeft DEF ChangesPayments

LEMMA DrawersLeft ==
  ASSUME NEW i \in Slots, Step(i), ~(Finishes(i) \/ TalliesGiven(i) \/ Closes(i) \/ Moves(i))
  PROVE  drawers' = drawers /\ untallied' = untallied
BY DEF Step, Takes, Refreshes, Voids, TillGate, Claims, ChecksOverpayment, ReleasesClaim,
       ChecksDuplicate, InsertsPayment, ReadsOrder, ReadsRows, StoresStatus, VoidReads,
       Cancels, GivesBack, MarksGiven, VoidEnds, InsertsRefund, MarksRow, WritesTotal

LEMMA DrawerUpdates ==
  ASSUME NEW q \in Seq(Drawer), NEW d, NEW x \in Int, NEW a \in Nat
  PROVE  /\ [q EXCEPT ![d].open = FALSE, ![d].expected = x] \in Seq(Drawer)
         /\ [q EXCEPT ![d].in = @ + a] \in Seq(Drawer)
         /\ [q EXCEPT ![d].out = @ + a] \in Seq(Drawer)
<1>1. q \in [1 .. Len(q) -> Drawer] /\ Len(q) \in Nat
  OBVIOUS
<1>2. \A e \in Drawer : [e EXCEPT !.open = FALSE, !.expected = x] \in Drawer
  BY Zenon DEF Drawer
<1>3. \A e \in Drawer : e.in + a \in Nat /\ e.out + a \in Nat
  BY DEF Drawer
<1>4. \A e \in Drawer : [e EXCEPT !.in = @ + a] \in Drawer
  BY <1>3, Zenon DEF Drawer
<1>5. \A e \in Drawer : [e EXCEPT !.out = @ + a] \in Drawer
  BY <1>3, Zenon DEF Drawer
<1>6. [q EXCEPT ![d].open = FALSE, ![d].expected = x] \in [1 .. Len(q) -> Drawer]
  BY <1>1, <1>2
<1>7. [q EXCEPT ![d].in = @ + a] \in [1 .. Len(q) -> Drawer]
  BY <1>1, <1>4
<1>8. [q EXCEPT ![d].out = @ + a] \in [1 .. Len(q) -> Drawer]
  BY <1>1, <1>5
<1>9. [1 .. Len(q) -> Drawer] \subseteq Seq(Drawer)
  BY <1>1, SeqDef
<1> QED
  BY <1>6, <1>7, <1>8, <1>9

LEMMA StepDrawers ==
  ASSUME TypeOK, NEW i \in Slots, Step(i)
  PROVE  drawers' \in Seq(Drawer) /\ untallied' \in Int
<1> DEFINE r == req[i]
<1>1. /\ r \in Request /\ InItsHandler(r)
      /\ drawers \in Seq(Drawer) /\ untallied \in Int
  BY DEF TypeOK
<1>2. r.due \in Int /\ r.amount \in Int
  BY <1>1 DEF Request
<1>3. CASE Finishes(i) \/ TalliesGiven(i)
  <2>1. Tally(r.due) \/ UNCHANGED <<drawers, untallied>>
    BY <1>3 DEF Finishes, TalliesGiven
  <2> QED
    BY <1>1, <1>2, <2>1, TallyType
<1>4. CASE Closes(i)
  BY <1>1, <1>2, <1>4, DrawerUpdates DEF Closes
<1>5. CASE Moves(i)
  <2>1. r.amount \in Nat
    BY <1>1, <1>5 DEF Moves, At, InItsHandler
  <2> QED
    BY <1>1, <1>5, <2>1, DrawerUpdates DEF Moves
<1> QED
  BY <1>1, <1>3, <1>4, <1>5, DrawersLeft

LEMMA StepRest ==
  ASSUME TypeOK, NEW i \in Slots, Step(i)
  PROVE  /\ deferred' \subseteq [row : Nat, amount : Int]
         /\ started' = started /\ faults' = faults
<1> DEFINE r == req[i]
<1>1. r \in Request /\ InItsHandler(r)
  BY DEF TypeOK
<1>2. /\ deferred \subseteq [row : Nat, amount : Int]
      /\ r.new \in Nat /\ r.due \in Int
  BY <1>1 DEF TypeOK, Request
<1>3. started' = started /\ faults' = faults
  BY DEF Step, Takes, Refreshes, Voids, TillGate, Claims, ChecksOverpayment,
         ReleasesClaim, ChecksDuplicate, InsertsPayment, Finishes, ReadsOrder, ReadsRows,
         StoresStatus, VoidReads, Cancels, GivesBack, MarksGiven, TalliesGiven, VoidEnds,
         InsertsRefund, MarksRow, WritesTotal, Closes, Moves
<1>4. deferred' = deferred \/ deferred' = deferred \cup {[row |-> r.new, amount |-> r.due]}
  BY DEF Step, Takes, Refreshes, Voids, TillGate, Claims, ChecksOverpayment,
         ReleasesClaim, ChecksDuplicate, InsertsPayment, Finishes, ReadsOrder, ReadsRows,
         StoresStatus, VoidReads, Cancels, GivesBack, MarksGiven, TalliesGiven, VoidEnds,
         InsertsRefund, MarksRow, WritesTotal, Closes, Moves
<1> QED
  BY <1>2, <1>3, <1>4

-----------------------------------------------------------------------------
(* Type correctness.                                                       *)

LEMMA InitType == Init => TypeOK
<1> SUFFICES ASSUME Init PROVE TypeOK
  OBVIOUS
<1>1. orders \in [Orders -> Order]
  BY DEF Init, Order, PayStatuses
<1>2. req \in [Slots -> Request] /\ \A i \in Slots : InItsHandler(req[i])
  BY FreeSlotType DEF Init, Sound
<1>3. /\ payments \in Seq(Row) /\ drawers \in Seq(Drawer)
      /\ deferred \subseteq [row : Nat, amount : Int]
      /\ started \in Nat /\ untallied \in Int
      /\ faults \in [FaultKinds -> Nat]
  BY DEF Init
<1> QED
  BY <1>1, <1>2, <1>3 DEF TypeOK

LEMMA StrikeType ==
  ASSUME TypeOK, NEW f \in FaultKinds, Strike(f)
  PROVE  faults' \in [FaultKinds -> Nat]
BY DEF TypeOK, Strike

LEMMA FailsMoves ==
  ASSUME TypeOK, NEW i \in Slots, Dies(i) \/ Stumbles(i) \/ ProbeFails(i)
  PROVE  /\ \E s : req' = [req EXCEPT ![i] = s] /\ GoesOn(req[i], s)
         /\ untallied' \in Int /\ faults' \in [FaultKinds -> Nat]
         /\ UNCHANGED <<book, drawers, deferred, started>>
<1> DEFINE r == req[i]
<1>1. r \in Request /\ InItsHandler(r) /\ untallied \in Int
  BY DEF TypeOK
<1>2. untallied' \in Int
  BY <1>1 DEF Dies, Stumbles, ProbeFails, Request
<1>3. faults' \in [FaultKinds -> Nat]
  BY StrikeType DEF Dies, Stumbles, ProbeFails, FaultKinds
<1>4. CASE Dies(i)
  BY <1>2, <1>3, <1>4, AnswersMoves DEF Dies
<1>5. CASE /\ Stumbles(i)
           /\ \E p \in r.todo : At(i, "give") /\ req' = [req EXCEPT ![i].todo = @ \ {p}]
  <2>1. PICK p \in r.todo : At(i, "give") /\ req' = [req EXCEPT ![i].todo = @ \ {p}]
    BY <1>5
  <2> DEFINE s == [r EXCEPT !.todo = @ \ {p}]
  <2>2. r.todo \ {p} \in SUBSET [row : Nat, amount : Int]
    BY <1>1 DEF Request
  <2>3. s \in Request
    BY <1>1, <2>2, Zenon DEF Request
  <2>4. s.op = r.op /\ s.order = r.order /\ s.pc = r.pc /\ s.amount = r.amount
        /\ s.total = r.total
    BY <1>1, Zenon DEF Request
  <2>5. req' = [req EXCEPT ![i] = s]
    BY <2>1
  <2> HIDE DEF s
  <2>6. GoesOn(r, s)
    BY <1>1, <2>3, <2>4 DEF GoesOn, Sound, InItsHandler, Holds
  <2> QED
    BY <1>2, <1>3, <1>5, <2>5, <2>6 DEF Stumbles
<1>6. CASE /\ Stumbles(i)
           /\ At(i, "given") \/ At(i, "tally")
           /\ req' = [req EXCEPT ![i].pc = "give", ![i].due = 0]
  <2> DEFINE s == WithDue(r, "give", 0)
  <2>1. Same(r, s) /\ s.pc = "give" /\ s.amount = r.amount /\ s.total = r.total
    BY <1>1, PcsAre, WithDueType
  <2>2. GoesOn(r, s)
    BY <1>1, <1>6, <2>1 DEF At, GoesOn, Sound, InItsHandler, Holds, Same
  <2>3. req' = [req EXCEPT ![i] = s]
    BY <1>6 DEF WithDue
  <2> QED
    BY <1>2, <1>3, <1>6, <2>2, <2>3 DEF Stumbles
<1>7. CASE ProbeFails(i)
  BY <1>2, <1>3, <1>7, PassesMoves DEF ProbeFails
<1> QED
  BY <1>4, <1>5, <1>6, <1>7 DEF Stumbles

\* What the winner of a claim becomes.
LEMMA ClaimsMoves ==
  ASSUME TypeOK, NEW i \in Slots, Claims(i), ~Answers(i)
  PROVE  \E s \in Sound : /\ req' = [req EXCEPT ![i] = s]
                          /\ s.op = "record" /\ s.order = req[i].order
<1> DEFINE r == req[i]
           s == WithPc(r, "check")
<1>1. r \in Request /\ InItsHandler(r)
  BY DEF TypeOK
<1>2. "check" \in Pcs
  BY DEF Pcs
<1>3. Same(r, s) /\ s.pc = "check" /\ s.amount = r.amount /\ s.total = r.total
  BY <1>1, <1>2, WithPcType
<1>4. s \in Sound /\ s.op = "record" /\ s.order = r.order
  BY <1>1, <1>3 DEF Claims, At, Sound, InItsHandler, Same
<1>5. req' = [req EXCEPT ![i] = s]
  BY DEF Claims, Goes, WithPc
<1> QED
  BY <1>4, <1>5

\* Whatever a request does, its slot holds a request after.
LEMMA StepSlots ==
  ASSUME TypeOK, NEW i \in Slots, Step(i)
  PROVE  \E s \in Sound : req' = [req EXCEPT ![i] = s]
<1>1. CASE Claims(i) /\ ~Answers(i)
  BY <1>1, ClaimsMoves
<1>2. CASE Answers(i)
  BY <1>2, FreeSlotType DEF Answers
<1>3. CASE ~Claims(i)
  BY <1>3, TakesMoves, RefreshesMoves, VoidsMoves, OthersMove DEF Step, GoesOn
<1> QED
  BY <1>1, <1>2, <1>3

LEMMA NextType == TypeOK /\ [Next]_vars => TypeOK'
<1> SUFFICES ASSUME TypeOK, [Next]_vars PROVE TypeOK'
  OBVIOUS
<1>1. CASE \E i \in Slots : Arrivals(i)
  <2>1. PICK i \in Slots : Arrivals(i)
    BY <1>1
  <2>2. PICK s : req' = [req EXCEPT ![i] = s] /\ GoesOn(req[i], s)
    BY <2>1, ArrivalsMove
  <2>3. req' \in [Slots -> Request] /\ \A j \in Slots : InItsHandler(req'[j])
    BY <2>2, SlotsType DEF GoesOn
  <2>4. /\ started' = started + 1
        /\ UNCHANGED <<book, drawers, deferred, untallied, faults>>
    BY <2>1, ArrivalsMove
  <2> QED
    BY <2>3, <2>4 DEF TypeOK, book
<1>2. CASE \E i \in Slots : Step(i)
  <2>1. PICK i \in Slots : Step(i)
    BY <1>2
  <2>2. PICK s \in Sound : req' = [req EXCEPT ![i] = s]
    BY <2>1, StepSlots
  <2>3. req' \in [Slots -> Request] /\ \A j \in Slots : InItsHandler(req'[j])
    BY <2>2, SlotsType
  <2>4. /\ orders' \in [Orders -> Order] /\ payments' \in Seq(Row)
        /\ drawers' \in Seq(Drawer) /\ untallied' \in Int
    BY <2>1, StepOrders, StepPayments, StepDrawers
  <2>5. /\ deferred' \subseteq [row : Nat, amount : Int]
        /\ started' = started /\ faults' = faults
    BY <2>1, StepRest
  <2> QED
    BY <2>3, <2>4, <2>5 DEF TypeOK
<1>3. CASE \E t \in deferred : TalliesLater(t)
  <2>1. PICK t \in deferred : TalliesLater(t)
    BY <1>3
  <2>2. t.amount \in Int
    BY DEF TypeOK
  <2>3. drawers' \in Seq(Drawer) /\ untallied' \in Int
    BY <2>1, <2>2, TallyType DEF TalliesLater
  <2> QED
    BY <2>1, <2>3 DEF TalliesLater, TypeOK, book
<1>4. CASE Opens
  <2>1. PICK f \in Floats :
          drawers' = Append(drawers, [open |-> TRUE, opening |-> f, sales |-> 0,
                                      in |-> 0, out |-> 0, expected |-> 0])
    BY <1>4 DEF Opens
  <2>2. [open |-> TRUE, opening |-> f, sales |-> 0, in |-> 0, out |-> 0,
         expected |-> 0] \in Drawer
    BY AmountsAssumption DEF Drawer
  <2>3. drawers' \in Seq(Drawer)
    BY <2>1, <2>2, AppendProperties DEF TypeOK
  <2> QED
    BY <1>4, <2>3 DEF Opens, TypeOK, book
<1>5. CASE \E i \in Slots : Dies(i) \/ Stumbles(i) \/ ProbeFails(i)
  <2>1. PICK i \in Slots : Dies(i) \/ Stumbles(i) \/ ProbeFails(i)
    BY <1>5
  <2>2. PICK s : req' = [req EXCEPT ![i] = s] /\ GoesOn(req[i], s)
    BY <2>1, FailsMoves
  <2>3. req' \in [Slots -> Request] /\ \A j \in Slots : InItsHandler(req'[j])
    BY <2>2, SlotsType DEF GoesOn
  <2>4. /\ untallied' \in Int /\ faults' \in [FaultKinds -> Nat]
        /\ UNCHANGED <<book, drawers, deferred, started>>
    BY <2>1, FailsMoves
  <2> QED
    BY <2>3, <2>4 DEF TypeOK, book
<1>6. CASE \E t \in deferred : Reaps(t)
  <2>1. PICK t \in deferred : Reaps(t)
    BY <1>6
  <2>2. t.amount \in Int /\ untallied' \in Int
    BY <2>1 DEF TypeOK, Reaps
  <2>3. faults' \in [FaultKinds -> Nat]
    BY <2>1, StrikeType DEF Reaps, FaultKinds
  <2> QED
    BY <2>1, <2>2, <2>3 DEF Reaps, TypeOK, book
<1>7. CASE UNCHANGED vars
  BY <1>7 DEF TypeOK, vars, book
<1> QED
  BY <1>1, <1>2, <1>3, <1>4, <1>5, <1>6, <1>7 DEF Next, Fails

\* Every reachable state of the till is well-typed, and a request is only ever
\* at a step of its own handler.
THEOREM TypeCorrect == Spec => []TypeOK
<1>1. Init => TypeOK
  BY InitType
<1>2. TypeOK /\ [Next]_vars => TypeOK'
  BY NextType
<1> QED
  BY <1>1, <1>2, PTL DEF Spec

-----------------------------------------------------------------------------
(***************************************************************************)
(* The claim.  OneClaim holds while only recordPayment itself touches       *)
(* payment_status: a verification, a refund, a settlement or a change of   *)
(* the total stores a status of its own over the claim.                    *)
(***************************************************************************)

ClaimOps == {"record", "void", "close", "paidin", "paidout"}

\* A request that does not come to hold a claim, over orders whose status stays.
LEMMA ClaimKept ==
  ASSUME TypeOK, OneClaim, NEW i \in Slots, NEW s, GoesOn(req[i], s),
         req' = [req EXCEPT ![i] = s],
         \A o \in Orders : Holders(o) # {} => orders'[o].pay = orders[o].pay
  PROVE  OneClaim'
<1>1. \A o \in Orders : Holders(o)' \subseteq Holders(o)
  BY DEF Holders, GoesOn, TypeOK
<1> QED
  BY <1>1 DEF OneClaim

\* What a step of a request that holds the claim may do to the order.
LEMMA ClaimStep ==
  ASSUME Ops \subseteq ClaimOps, TypeOK, OneClaim, NEW i \in Slots, Step(i)
  PROVE  OneClaim'
<1> DEFINE r == req[i]
<1>0. PICK o : o = r.order
  OBVIOUS
<1>1. r \in Request /\ InItsHandler(r) /\ orders \in [Orders -> Order]
  BY DEF TypeOK
<1>2. r.op \in {"none", "record", "void", "close", "paidin", "paidout"}
  BY <1>1 DEF InItsHandler, ClaimOps
<1>3. CASE Claims(i) /\ ~Answers(i)
  <2>1. /\ r.pc = "claim" /\ orders[o].pay \in {"unpaid", "partial"}
        /\ orders' = [orders EXCEPT ![o].pay = "verifying"]
    BY <1>0, <1>3 DEF Claims, At, Claimable
  <2>2. PICK s \in Sound : /\ req' = [req EXCEPT ![i] = s]
                          /\ s.op = "record" /\ s.order = o
    BY <1>0, <1>3, ClaimsMoves
  <2>3. o \in Orders
    BY <1>0, <1>1, <2>1 DEF InItsHandler
  <2>4. Holders(o) = {}
    BY <2>1, <2>3 DEF OneClaim
  <2>5. Holders(o)' \subseteq {i}
    BY <2>2, <2>4 DEF Holders, TypeOK
  <2>6. \A x \in Orders \ {o} : Holders(x)' \subseteq Holders(x)
    BY <2>2 DEF Holders, TypeOK
  <2>7. orders'[o].pay = "verifying" /\ \A x \in Orders \ {o} : orders'[x] = orders[x]
    <3>1. orders[o] \in Order
      BY <1>1, <2>3
    <3>2. [orders[o] EXCEPT !.pay = "verifying"].pay = "verifying"
      BY <3>1, Zenon DEF Order
    <3> QED
      BY <1>1, <2>1, <2>3, <3>2
  <2>8. ASSUME NEW x \in Orders
        PROVE  /\ \A j, k \in Holders(x)' : j = k
               /\ Holders(x)' # {} => orders'[x].pay = "verifying"
    <3>1. CASE x = o
      BY <2>5, <2>7, <3>1
    <3>2. CASE x # o
      BY <2>6, <2>7, <3>2 DEF OneClaim
    <3> QED
      BY <3>1, <3>2
  <2> QED
    BY <2>8 DEF OneClaim
<1>4. CASE ReleasesClaim(i) \/ StoresStatus(i)
  <2>1. o \in Orders /\ i \in Holders(o)
    BY <1>0, <1>1, <1>2, <1>4 DEF ReleasesClaim, StoresStatus, At, InItsHandler, Holders, Holds
  <2>2. Holders(o) = {i}
    BY <2>1 DEF OneClaim
  <2>3. PICK s : req' = [req EXCEPT ![i] = s] /\ ~Holds(s)
    <3>1. CASE ReleasesClaim(i)
      <4>1. ~Holds(FreeSlot)
        BY DEF FreeSlot, Holds
      <4> QED
        BY <3>1, <4>1 DEF ReleasesClaim, Answers
    <3>2. CASE StoresStatus(i)
      <4>1. WithPc(r, "end").pc = "end"
        BY <1>1, PcsAre, WithPcType
      <4>2. req' = [req EXCEPT ![i] = WithPc(r, "end")]
        BY <3>2 DEF StoresStatus, Goes, WithPc
      <4> QED
        BY <4>1, <4>2 DEF Holds
    <3> QED
      BY <1>4, <3>1, <3>2
  <2>4. Holders(o)' = {}
    BY <2>2, <2>3 DEF Holders, TypeOK
  <2>5. \A x \in Orders \ {o} : Holders(x)' \subseteq Holders(x)
    BY <2>3 DEF Holders, TypeOK
  <2>6. \A x \in Orders \ {o} : orders'[x] = orders[x]
    BY <1>0, <1>1, <1>4 DEF ReleasesClaim, StoresStatus
  <2>7. ASSUME NEW x \in Orders
        PROVE  /\ \A j, k \in Holders(x)' : j = k
               /\ Holders(x)' # {} => orders'[x].pay = "verifying"
    <3>1. CASE x = o
      BY <2>4, <3>1
    <3>2. CASE x # o
      BY <2>5, <2>6, <3>2 DEF OneClaim
    <3> QED
      BY <3>1, <3>2
  <2> QED
    BY <2>7 DEF OneClaim
<1>5. CASE Cancels(i) \/ WritesTotal(i)
  <2>1. PICK s : req' = [req EXCEPT ![i] = s] /\ GoesOn(r, s)
    BY <1>5, VoidsMoves, OthersMove DEF Voids
  <2>2. Cancels(i)
    BY <1>1, <1>2, <1>5 DEF WritesTotal, At, InItsHandler
  <2>3. \A x \in Orders : orders'[x].pay = orders[x].pay
    <3>1. \A x \in Orders : [orders[x] EXCEPT !.voided = TRUE].pay = orders[x].pay
      <4>1. \A y \in Order : [y EXCEPT !.voided = TRUE].pay = y.pay
        BY Zenon DEF Order
      <4> QED
        BY <1>1, <4>1
    <3> QED
      BY <1>1, <2>2, <3>1 DEF Cancels
  <2> QED
    BY <2>1, <2>3, ClaimKept
<1>6. CASE ~ChangesOrders(i) \/ (Claims(i) /\ Answers(i))
  <2>1. orders' = orders
    <3>1. CASE ~ChangesOrders(i)
      BY <3>1, OrdersLeft
    <3>2. CASE Claims(i) /\ Answers(i)
      <4>1. r.pc = "claim"
        BY <3>2 DEF Claims, At
      <4>2. ~Goes(i, "check")
        <5>1. WithPc(r, "check").pc = "check"
          BY <1>1, WithPcType DEF Pcs
        <5>2. FreeSlot.pc = "free"
          BY DEF FreeSlot
        <5> QED
          BY <3>2, <5>1, <5>2 DEF Goes, Answers, WithPc, TypeOK
      <4> QED
        BY <3>2, <4>2 DEF Claims
    <3> QED
      BY <1>6, <3>1, <3>2
  <2>2. PICK s : req' = [req EXCEPT ![i] = s] /\ GoesOn(r, s)
    BY <1>6, AnswersMoves, TakesMoves, RefreshesMoves, VoidsMoves, OthersMove
       DEF Step, ChangesOrders
  <2> QED
    BY <2>1, <2>2, ClaimKept
<1> QED
  BY <1>3, <1>4, <1>5, <1>6 DEF ChangesOrders

\* One payment at a time is taken for an order, and 'verifying' says so, however
\* many cashiers try and wherever a request dies, as long as no other operation
\* writes payment_status (recordPayment's claim).
THEOREM ClaimIsExclusive ==
  ASSUME Ops \subseteq ClaimOps
  PROVE  Spec => []OneClaim
<1>1. Init => TypeOK /\ OneClaim
  <2>1. Init => \A o \in Orders : Holders(o) = {}
    BY DEF Init, Holders, Holds, FreeSlot
  <2> QED
    BY <2>1, InitType DEF OneClaim
<1>2. TypeOK /\ OneClaim /\ [Next]_vars => (TypeOK /\ OneClaim)'
  <2> SUFFICES ASSUME TypeOK, OneClaim, [Next]_vars PROVE OneClaim'
    BY NextType
  <2>1. CASE \E i \in Slots : Arrivals(i) \/ Dies(i) \/ Stumbles(i) \/ ProbeFails(i)
    <3>1. PICK i \in Slots : Arrivals(i) \/ Dies(i) \/ Stumbles(i) \/ ProbeFails(i)
      BY <2>1
    <3>2. PICK s : req' = [req EXCEPT ![i] = s] /\ GoesOn(req[i], s)
      BY <3>1, ArrivalsMove, FailsMoves
    <3>3. orders' = orders
      BY <3>1, ArrivalsMove, FailsMoves DEF book
    <3> QED
      BY <3>2, <3>3, ClaimKept
  <2>2. CASE \E i \in Slots : Step(i)
    BY <2>2, ClaimStep
  <2>3. CASE UNCHANGED <<orders, req>>
    BY <2>3 DEF OneClaim, Holders
  <2>4. CASE Opens \/ \E t \in deferred : TalliesLater(t) \/ Reaps(t)
    BY <2>3, <2>4 DEF Opens, TalliesLater, Reaps, book
  <2> QED
    BY <2>1, <2>2, <2>3, <2>4 DEF Next, Fails, vars, book
<1> QED
  BY <1>1, <1>2, PTL DEF Spec

-----------------------------------------------------------------------------
(* What the book and the drawers add up to.                                 *)

AmountsOf(q) == [n \in DOMAIN q |-> q[n].amount]

LEMMA AmountsType ==
  ASSUME NEW q \in Seq(Row), NEW C \in SUBSET (DOMAIN q)
  PROVE  /\ IsFiniteSet(C) /\ \A n \in DOMAIN q : AmountsOf(q)[n] \in Int
         /\ SumOver(AmountsOf(q), C) \in Int
<1>1. DOMAIN q = 1 .. Len(q) /\ Len(q) \in Nat /\ \A n \in DOMAIN q : q[n] \in Row
  OBVIOUS
<1>2. IsFiniteSet(C)
  <2>1. IsFiniteSet(1 .. Len(q))
    BY <1>1, FS_Interval
  <2> QED
    BY <1>1, <2>1, FS_Subset
<1>3. \A n \in DOMAIN q : AmountsOf(q)[n] \in Int
  BY <1>1 DEF AmountsOf, Row
<1> QED
  BY <1>2, <1>3, SumType

\* A row that is appended: a sum over rows grows by its amount or stays.
LEMMA SumAppends ==
  ASSUME NEW q \in Seq(Row), NEW row \in Row, NEW C \in SUBSET (DOMAIN q)
  PROVE  LET g == AmountsOf(Append(q, row))
         IN /\ SumOver(g, C) = SumOver(AmountsOf(q), C)
            /\ SumOver(g, C \cup {Len(q) + 1}) = SumOver(AmountsOf(q), C) + row.amount
<1> DEFINE p == Append(q, row)
           k == Len(q) + 1
<1>1. DOMAIN q = 1 .. Len(q) /\ Len(q) \in Nat
  OBVIOUS
<1>2. p \in Seq(Row) /\ DOMAIN p = 1 .. k /\ p[k] = row
      /\ \A n \in DOMAIN q : p[n] = q[n]
  BY AppendProperties
<1>3. IsFiniteSet(C) /\ SumOver(AmountsOf(q), C) \in Int
  BY AmountsType
<1>4. C \cup {k} \in SUBSET (DOMAIN p) /\ k \notin C
  BY <1>1, <1>2
<1>5. \A n \in C : AmountsOf(p)[n] = AmountsOf(q)[n]
  BY <1>1, <1>2 DEF AmountsOf
<1>6. AmountsOf(p)[k] = row.amount
  BY <1>1, <1>2 DEF AmountsOf
<1>7. \A n \in DOMAIN p : AmountsOf(p)[n] \in Int
  BY <1>2, AmountsType
<1> HIDE DEF p, k
<1>8. SumOver(AmountsOf(p), C) = SumOver(AmountsOf(q), C)
  BY <1>3, <1>5, SumSame
<1>9. SumOver(AmountsOf(p), C \cup {k}) = AmountsOf(p)[k] + SumOver(AmountsOf(p), C)
  BY <1>3, <1>4, <1>7, SumAdd
<1>10. row.amount \in Int
  BY DEF Row
<1> QED
  BY <1>3, <1>6, <1>8, <1>9, <1>10 DEF p, k

\* Marking a row changes neither the rows there are, nor their amounts.
Marked(q, m, st) == [q EXCEPT ![m].status = st]

LEMMA RowMarked ==
  ASSUME NEW q \in Seq(Row), NEW m, NEW st, NEW p, p = Marked(q, m, st)
  PROVE  /\ DOMAIN p = DOMAIN q /\ AmountsOf(p) = AmountsOf(q)
         /\ \A n \in DOMAIN q : /\ p[n].cash = q[n].cash /\ p[n].order = q[n].order
                                /\ p[n].status = IF n = m THEN st ELSE q[n].status
<1>1. \A n \in DOMAIN q : q[n] \in Row
  OBVIOUS
<1>2. \A r \in Row : LET s == [r EXCEPT !.status = st]
                     IN s.amount = r.amount /\ s.cash = r.cash /\ s.order = r.order
                        /\ s.status = st
  BY Zenon DEF Row
<1> QED
  BY <1>1, <1>2 DEF AmountsOf, Marked

LEMMA RowAmountsAre == RowAmounts = AmountsOf(payments)
BY DEF RowAmounts, AmountsOf

LEMMA BookType == TypeOK => CashBook \in Int
BY AmountsType, RowAmountsAre DEF CashBook, TypeOK

LEMMA BookGrows ==
  ASSUME TypeOK, NEW row \in Row, Insert(row)
  PROVE  CashBook' = CashBook + (IF row.cash THEN row.amount ELSE 0)
<1> DEFINE C == {n \in DOMAIN payments : payments[n].cash}
           D == {n \in DOMAIN payments' : payments'[n].cash}
           k == Len(payments) + 1
<1>1. payments \in Seq(Row) /\ payments' = Append(payments, row) /\ DOMAIN payments = 1 .. Len(payments)
      /\ Len(payments) \in Nat
  BY DEF TypeOK, Insert
<1>2. /\ DOMAIN payments' = 1 .. k /\ payments'[k] = row
      /\ \A n \in DOMAIN payments : payments'[n] = payments[n]
  BY <1>1, AppendProperties
<1>3. D = IF row.cash THEN C \cup {k} ELSE C
  BY <1>1, <1>2
<1>4. /\ CashBook = SumOver(AmountsOf(payments), C)
      /\ CashBook' = SumOver(AmountsOf(payments'), D)
  BY RowAmountsAre DEF CashBook, RowAmounts, AmountsOf
<1>5. /\ SumOver(AmountsOf(payments'), C) = SumOver(AmountsOf(payments), C)
      /\ SumOver(AmountsOf(payments'), C \cup {k}) = SumOver(AmountsOf(payments), C) + row.amount
      /\ SumOver(AmountsOf(payments), C) \in Int
  BY <1>1, SumAppends, AmountsType
<1>6. row.amount \in Int
  BY DEF Row
<1>7. CASE row.cash
  BY <1>3, <1>4, <1>5, <1>7
<1>8. CASE ~row.cash
  <2>1. CashBook \in Int /\ D = C
    BY <1>3, <1>4, <1>5, <1>8
  <2>2. (IF row.cash THEN row.amount ELSE 0) = 0
    BY <1>8
  <2>3. CashBook' = CashBook
    BY <1>4, <1>5, <2>1
  <2> QED
    BY <2>1, <2>2, <2>3
<1> QED
  BY <1>7, <1>8

LEMMA BookMarked ==
  ASSUME TypeOK, NEW m, NEW st, payments' = Marked(payments, m, st)
  PROVE  CashBook' = CashBook
<1>1. payments \in Seq(Row)
  BY DEF TypeOK
<1> DEFINE p == payments'
<1>0. p = Marked(payments, m, st)
  OBVIOUS
<1> HIDE DEF p
<1>2. /\ DOMAIN p = DOMAIN payments /\ AmountsOf(p) = AmountsOf(payments)
      /\ \A n \in DOMAIN payments : p[n].cash = payments[n].cash
  BY <1>0, <1>1, RowMarked
<1> USE DEF p
<1>3. CashBook' = SumOver(AmountsOf(payments'), {n \in DOMAIN payments' : payments'[n].cash})
  BY DEF CashBook, RowAmounts, AmountsOf
<1> QED
  BY <1>2, <1>3, RowAmountsAre DEF CashBook

\* A request passes on, or takes up, the difference.
LEMMA CarriedMoves ==
  ASSUME TypeOK, IsFiniteSet(Slots), NEW i \in Slots, NEW s, s.due \in Int,
         req' = [req EXCEPT ![i] = s]
  PROVE  Carried \in Int /\ Carried' = Carried + (s.due - req[i].due)
<1> DEFINE f == [j \in Slots |-> req[j].due]
           g == [j \in Slots |-> req'[j].due]
<1>1. \A j \in Slots : req[j] \in Request /\ req'[j] = IF j = i THEN s ELSE req[j]
  BY DEF TypeOK
<1>2. \A j \in Slots : f[j] \in Int /\ g[j] \in Int
  BY <1>1 DEF Request
<1>3. \A j \in Slots \ {i} : f[j] = g[j]
  BY <1>1
<1>4. f[i] = req[i].due /\ g[i] = s.due
  BY <1>1
<1>5. Carried = SumOver(f, Slots) /\ Carried' = SumOver(g, Slots)
  BY DEF Carried
<1> HIDE DEF f, g
<1>6. SumOver(g, Slots) = SumOver(f, Slots) + (g[i] - f[i])
  BY <1>2, <1>3, SumChange
<1>7. SumOver(f, Slots) \in Int
  BY <1>2, SumType
<1> QED
  BY <1>4, <1>5, <1>6, <1>7

SalesOf(q) == [d \in DOMAIN q |-> q[d].sales]

LEMMA SalesType ==
  ASSUME NEW q \in Seq(Drawer)
  PROVE  /\ DOMAIN q = 1 .. Len(q) /\ Len(q) \in Nat /\ IsFiniteSet(DOMAIN q)
         /\ \A d \in DOMAIN q : q[d] \in Drawer /\ SalesOf(q)[d] \in Int
         /\ SumOver(SalesOf(q), DOMAIN q) \in Int
<1>1. DOMAIN q = 1 .. Len(q) /\ Len(q) \in Nat /\ \A d \in DOMAIN q : q[d] \in Drawer
  OBVIOUS
<1>2. IsFiniteSet(DOMAIN q)
  BY <1>1, FS_Interval
<1>3. \A d \in DOMAIN q : SalesOf(q)[d] \in Int
  BY <1>1 DEF SalesOf, Drawer
<1> QED
  BY <1>1, <1>2, <1>3, SumType

LEMMA TalliedIs == Tallied = SumOver(SalesOf(drawers), DOMAIN drawers)
BY DEF Tallied, SalesOf

LEMMA TalliedType == TypeOK => Tallied \in Int
BY TalliedIs, SalesType DEF TypeOK

\* A tally is in a drawer, or known to have found none.
LEMMA TallyCounts ==
  ASSUME TypeOK, NEW a \in Int, Tally(a)
  PROVE  /\ Tallied' \in Int /\ untallied' \in Int
         /\ Tallied' + untallied' = Tallied + untallied + a
<1>0. /\ drawers \in Seq(Drawer) /\ untallied \in Int
      /\ drawers' \in Seq(Drawer) /\ untallied' \in Int
  BY TallyType DEF TypeOK
<1>1. Tallied \in Int /\ Tallied' = SumOver(SalesOf(drawers'), DOMAIN drawers')
  BY TalliedType DEF Tallied, SalesOf
<1>2. Tallied' \in Int
  BY <1>0, <1>1, SalesType
<1>3. CASE OpenDrawers = {}
  <2>1. Tallied' = Tallied /\ untallied' = untallied + a
    BY <1>1, <1>3, TalliedIs DEF Tally
  <2> QED
    BY <1>0, <1>1, <1>2, <2>1
<1>4. CASE OpenDrawers # {}
  <2>1. PICK d \in Newest(OpenDrawers) : drawers' = [drawers EXCEPT ![d].sales = @ + a]
    BY <1>4 DEF Tally
  <2>2. untallied' = untallied
    BY <1>4 DEF Tally
  <2>3. d \in DOMAIN drawers
    BY DEF Newest, OpenDrawers
  <2> DEFINE S == DOMAIN drawers
             f == SalesOf(drawers)
             g == SalesOf(drawers')
  <2>4. DOMAIN drawers' = S /\ \A e \in S : drawers[e] \in Drawer /\ drawers'[e] \in Drawer
    BY <1>0, <2>1, SalesType
  <2>5. [drawers[d] EXCEPT !.sales = @ + a].sales = drawers[d].sales + a
    <3>1. drawers[d] \in Drawer
      BY <2>3, <2>4
    <3> QED
      BY <3>1, Zenon DEF Drawer
  <2>6. g[d] = f[d] + a /\ \A e \in S \ {d} : f[e] = g[e]
    BY <2>1, <2>3, <2>4, <2>5 DEF SalesOf
  <2>7. IsFiniteSet(S) /\ \A e \in S : f[e] \in Int /\ g[e] \in Int
    BY <1>0, <2>4, SalesType
  <2>8. Tallied = SumOver(f, S) /\ Tallied' = SumOver(g, S)
    BY <1>1, <2>4, TalliedIs
  <2> HIDE DEF S, f, g
  <2>9. SumOver(g, S) = SumOver(f, S) + (g[d] - f[d])
    BY <2>3, <2>6, <2>7, SumChange DEF S
  <2>10. f[d] \in Int
    BY <2>3, <2>7 DEF S
  <2> QED
    BY <1>0, <1>1, <2>2, <2>6, <2>8, <2>9, <2>10
<1> QED
  BY <1>2, <1>0, <1>3, <1>4

LEMMA SalesSame ==
  ASSUME DOMAIN drawers' = DOMAIN drawers, TypeOK,
         \A d \in DOMAIN drawers : drawers'[d].sales = drawers[d].sales
  PROVE  Tallied' = Tallied
<1>1. SalesOf(drawers') = SalesOf(drawers)
  BY DEF SalesOf
<1>2. Tallied' = SumOver(SalesOf(drawers'), DOMAIN drawers')
  BY DEF Tallied, SalesOf
<1> QED
  BY <1>1, <1>2, TalliedIs

\* A drawer opens with nothing tallied.
LEMMA OpensEmpty ==
  ASSUME TypeOK, Opens
  PROVE  Tallied' = Tallied
<1>1. PICK fl \in Floats :
        drawers' = Append(drawers, [open |-> TRUE, opening |-> fl, sales |-> 0,
                                    in |-> 0, out |-> 0, expected |-> 0])
  BY DEF Opens
<1>2. PICK d : drawers' = Append(drawers, d) /\ d.sales = 0 /\ d \in Drawer
  <2>1. [open |-> TRUE, opening |-> fl, sales |-> 0, in |-> 0, out |-> 0,
         expected |-> 0] \in Drawer
    BY AmountsAssumption DEF Drawer
  <2> QED
    BY <1>1, <2>1
<1> DEFINE k == Len(drawers) + 1
           S == DOMAIN drawers
           f == SalesOf(drawers)
           g == SalesOf(drawers')
<1>3. drawers \in Seq(Drawer)
  BY DEF TypeOK
<1>4. drawers' \in Seq(Drawer) /\ DOMAIN drawers' = 1 .. k /\ drawers'[k] = d
      /\ \A e \in S : drawers'[e] = drawers[e]
  BY <1>2, <1>3, AppendProperties
<1>5. S = 1 .. Len(drawers) /\ Len(drawers) \in Nat
  BY <1>3
<1>6. DOMAIN drawers' = S \cup {k} /\ k \notin S
  BY <1>4, <1>5
<1>7. IsFiniteSet(S) /\ \A e \in S \cup {k} : g[e] \in Int
  BY <1>3, <1>4, <1>6, SalesType
<1>8. g[k] = 0 /\ \A e \in S : g[e] = f[e]
  BY <1>2, <1>4, <1>5, <1>6 DEF SalesOf
<1>9. Tallied = SumOver(f, S) /\ Tallied' = SumOver(g, S \cup {k})
  BY <1>6, TalliedIs DEF Tallied, SalesOf
<1> HIDE DEF f, g, k, S
<1>10. SumOver(g, S \cup {k}) = g[k] + SumOver(g, S) /\ SumOver(g, S) \in Int
  BY <1>6, <1>7, SumAdd, SumType
<1>11. SumOver(g, S) = SumOver(f, S)
  BY <1>7, <1>8, SumSame
<1> QED
  BY <1>8, <1>9, <1>10, <1>11

AmountOf(D) == [t \in D |-> t.amount]

\* A tally that is deferred, and one that has run or is lost.
LEMMA DefersMore ==
  ASSUME NEW D, IsFiniteSet(D), D \subseteq [row : Nat, amount : Int],
         NEW t \in [row : Nat, amount : Int], t \notin D
  PROVE  /\ IsFiniteSet(D \cup {t})
         /\ SumOver(AmountOf(D), D) \in Int
         /\ SumOver(AmountOf(D \cup {t}), D \cup {t}) = SumOver(AmountOf(D), D) + t.amount
<1> DEFINE f == AmountOf(D)
           E == D \cup {t}
           g == AmountOf(E)
<1>1. \A x \in D \cup {t} : g[x] = x.amount /\ g[x] \in Int
  BY DEF AmountOf
<1>2. \A x \in D : f[x] = g[x] /\ f[x] \in Int
  BY DEF AmountOf
<1>3. IsFiniteSet(E)
  BY FS_AddElement
<1> HIDE DEF f, g
<1>4. SumOver(g, E) = g[t] + SumOver(g, D)
  BY <1>1, SumAdd
<1>5. SumOver(f, D) = SumOver(g, D) /\ SumOver(f, D) \in Int
  BY <1>2, SumSame, SumType
<1>6. t.amount \in Int
  OBVIOUS
<1> QED
  <2>1. SumOver(g, E) = SumOver(f, D) + t.amount
    BY <1>1, <1>4, <1>5, <1>6
  <2> QED
    BY <1>3, <1>5, <2>1 DEF f, g

LEMMA AwaitedIs == Awaited = SumOver(AmountOf(deferred), deferred)
BY DEF Awaited, AmountOf

-----------------------------------------------------------------------------
(* Where cash is between its row and its drawer.                            *)

\* The steps of a request at which it has cash of its row to pass on.
Carries(r) == \/ r.pc \in {"owed", "sum", "store", "end"} /\ r.op \in {"record", "settle"}
              \/ r.pc = "mark" /\ r.op = "refund"
              \/ r.pc \in {"given", "tally"} /\ r.op = "void"

\* Cash that will be told by the row it belongs to.
Pending(r) == r.due # 0 /\ r.op # "void"

OnItsWay == \A i \in Slots : req[i].due # 0 => Carries(req[i])

\* The row of a tally is there, and no other tally's.
FreshRows ==
  /\ \A i \in Slots : Pending(req[i]) => req[i].new \in DOMAIN payments
  /\ \A t \in deferred : t.row \in DOMAIN payments
  /\ \A i \in Slots, t \in deferred : Pending(req[i]) => req[i].new # t.row
  /\ \A i, j \in Slots : i # j /\ Pending(req[i]) /\ Pending(req[j])
                           => req[i].new # req[j].new

CashInv == /\ OnItsWay /\ FreshRows /\ IsFiniteSet(deferred) /\ CashAccounted

LEMMA KeepsDue ==
  ASSUME NEW r \in Request, NEW pc \in Pcs
  PROVE  /\ WithPc(r, pc).due = r.due /\ WithPc(r, pc).new = r.new
BY Zenon DEF WithPc, Request

\* The steps that move no cash.
Quiet(i) == \/ TillGate(i) \/ Claims(i) \/ ChecksOverpayment(i) \/ ReleasesClaim(i)
            \/ ChecksDuplicate(i) \/ Refreshes(i) \/ VoidReads(i) \/ Cancels(i)
            \/ MarksGiven(i) \/ VoidEnds(i) \/ WritesTotal(i) \/ Closes(i) \/ Moves(i)

\* The request is r before and s after, and carries what it carried.
SameDue(r, s) == s.due = r.due /\ (s.due # 0 => Carries(s) /\ s.new = r.new /\ s.op = r.op)

LEMMA FreeDue == FreeSlot.due = 0 /\ FreeSlot.todo = {} /\ FreeSlot.op = "none"
                 /\ FreeSlot.pc = "free"
BY DEF FreeSlot

LEMMA AnswersQuietly ==
  ASSUME OnItsWay, NEW i \in Slots, Answers(i), ~Carries(req[i])
  PROVE  \E s : req' = [req EXCEPT ![i] = s] /\ SameDue(req[i], s)
BY FreeDue DEF OnItsWay, Answers, SameDue

LEMMA GoesQuietly ==
  ASSUME TypeOK, OnItsWay, NEW i \in Slots, NEW pc \in Pcs, Goes(i, pc),
         Carries(req[i]) => Carries(WithPc(req[i], pc))
  PROVE  \E s : req' = [req EXCEPT ![i] = s] /\ SameDue(req[i], s)
<1> DEFINE r == req[i]
           s == WithPc(r, pc)
<1>1. r \in Request
  BY DEF TypeOK
<1>2. s.due = r.due /\ s.new = r.new /\ s.op = r.op
  BY <1>1, KeepsDue, WithPcType DEF Same
<1>3. req' = [req EXCEPT ![i] = s]
  BY DEF Goes, WithPc
<1> QED
  BY <1>2, <1>3 DEF SameDue, OnItsWay

LEMMA QuietMoves ==
  ASSUME TypeOK, OnItsWay, NEW i \in Slots, Quiet(i)
  PROVE  \E s : req' = [req EXCEPT ![i] = s] /\ SameDue(req[i], s)
<1> DEFINE r == req[i]
<1>1. r \in Request /\ InItsHandler(r)
  BY DEF TypeOK
<1>2. CASE Answers(i) /\ r.pc \in {"till", "claim", "release", "known", "give", "count", "move"}
  BY <1>2, AnswersQuietly DEF Carries
<1>3. CASE /\ \E pc \in Pcs : Goes(i, pc)
           /\ r.pc \in {"till", "claim", "check", "known", "cancel", "write"}
  BY <1>3, GoesQuietly DEF Carries
<1>4. CASE StoresStatus(i)
  <2>1. Carries(r) => Carries(WithPc(r, "end"))
    <3>1. /\ WithPc(r, "end").pc = "end" /\ WithPc(r, "end").op = r.op
      BY <1>1, PcsAre, WithPcType DEF Same
    <3> QED
      BY <1>4, <3>1 DEF Carries, StoresStatus, At
  <2> QED
    BY <1>4, <2>1, PcsAre, GoesQuietly DEF StoresStatus
<1>5. CASE MarksGiven(i)
  <2>1. Carries(r) => Carries(WithPc(r, "tally"))
    <3>1. /\ WithPc(r, "tally").pc = "tally" /\ WithPc(r, "tally").op = r.op
      BY <1>1, PcsAre, WithPcType DEF Same
    <3> QED
      BY <1>5, <3>1 DEF Carries, MarksGiven, At
  <2> QED
    BY <1>5, <2>1, PcsAre, GoesQuietly DEF MarksGiven
<1>6. CASE ReadsOrder(i)
  <2> DEFINE o == orders[r.order]
             s == WithRead(r, "sum", o.total, o.paidAt)
  <2>1. r.order \in Orders
    BY <1>1, <1>6 DEF ReadsOrder, At, InItsHandler
  <2>2. o.total \in Nat /\ o.paidAt \in BOOLEAN
    BY <2>1, AmountsAssumption DEF TypeOK, Order
  <2>3. Same(r, s) /\ s.pc = "sum"
    BY <1>1, <2>2, PcsAre, WithReadType
  <2>5. s.due = r.due /\ s.new = r.new
    BY <1>1, Zenon DEF WithRead, Request
  <2>4. req' = [req EXCEPT ![i] = s] /\ r.pc = "owed"
    BY <1>6 DEF ReadsOrder, At, WithRead
  <2> HIDE DEF s
  <2> QED
    BY <2>3, <2>4, <2>5 DEF Same, SameDue, OnItsWay, Carries
<1>7. CASE ReadsRows(i)
  <2> DEFINE st == PayStatus(r.total, Paid(r.order))
             s == WithStatus(r, "store", st)
  <2>1. st \in PayStatuses
    BY StatusType
  <2>2. req' = [req EXCEPT ![i] = s] /\ r.pc = "sum"
    BY <1>7 DEF ReadsRows, At, WithStatus
  <2> HIDE DEF st
  <2>3. Same(r, s) /\ s.pc = "store"
    BY <1>1, <2>1, PcsAre, WithStatusType
  <2>5. s.due = r.due /\ s.new = r.new
    BY <1>1, Zenon DEF WithStatus, Request
  <2> HIDE DEF s
  <2> QED
    BY <2>2, <2>3, <2>5 DEF Same, SameDue, OnItsWay, Carries
<1>8. CASE VoidReads(i)
  <2> DEFINE q == GivenBack(r.order)
             s == WithTodo(r, "cancel", q)
  <2>1. req' = [req EXCEPT ![i] = s] /\ r.pc = "rows"
    BY <1>8 DEF VoidReads, At, WithTodo
  <2>2. s.due = r.due
    BY <1>1, Zenon DEF WithTodo, Request
  <2> HIDE DEF s
  <2> QED
    BY <2>1, <2>2 DEF SameDue, OnItsWay, Carries
<1>9. ASSUME Claims(i), ~Answers(i) PROVE Goes(i, "check")
  BY <1>9 DEF Claims
<1>10. "check" \in Pcs
  BY DEF Pcs
<1> QED
  BY <1>2, <1>3, <1>4, <1>5, <1>6, <1>7, <1>8, <1>9, <1>10, PcsAre
     DEF Quiet, Refreshes, TillGate, PassesTill, Claims, ChecksOverpayment, AfterRefusal,
         ReleasesClaim, ChecksDuplicate, Cancels, VoidEnds, WritesTotal, Closes, Moves, At

\* A request that carries on what it carried leaves the tallies told apart.
LEMMA FreshStays ==
  ASSUME TypeOK, OnItsWay, FreshRows, NEW i \in Slots, NEW s, SameDue(req[i], s),
         req' = [req EXCEPT ![i] = s], DOMAIN payments \subseteq DOMAIN payments',
         deferred' \subseteq deferred
  PROVE  OnItsWay' /\ FreshRows'
<1>1. \A j \in Slots : req'[j] = IF j = i THEN s ELSE req[j]
  BY DEF TypeOK
<1>2. \A j \in Slots : Pending(req'[j]) => Pending(req[j]) /\ req'[j].new = req[j].new
  BY <1>1 DEF SameDue, Pending
<1>3. OnItsWay'
  BY <1>1 DEF OnItsWay, SameDue
<1> QED
  BY <1>2, <1>3 DEF FreshRows

\* A request that has passed on its cash, with a tally deferred for its row.
LEMMA FreshDefers ==
  ASSUME TypeOK, OnItsWay, FreshRows, NEW i \in Slots, NEW s, s.due = 0,
         req' = [req EXCEPT ![i] = s], DOMAIN payments' = DOMAIN payments,
         \/ deferred' = deferred
         \/ /\ Pending(req[i])
            /\ deferred' = deferred \cup {[row |-> req[i].new, amount |-> req[i].due]}
  PROVE  OnItsWay' /\ FreshRows'
<1>1. \A j \in Slots : req'[j] = IF j = i THEN s ELSE req[j]
  BY DEF TypeOK
<1>2. \A j \in Slots : Pending(req'[j]) => j # i /\ req'[j] = req[j]
  BY <1>1 DEF Pending
<1>3. OnItsWay'
  BY <1>1 DEF OnItsWay
<1>4. \A t \in deferred' \ deferred : Pending(req[i]) /\ t.row = req[i].new
  OBVIOUS
<1>5. /\ \A j \in Slots : Pending(req'[j]) => req'[j].new \in DOMAIN payments'
      /\ \A t \in deferred' : t.row \in DOMAIN payments'
  BY <1>2, <1>4 DEF FreshRows
<1>6. \A j \in Slots, t \in deferred' : Pending(req'[j]) => req'[j].new # t.row
  BY <1>2, <1>4 DEF FreshRows
<1>7. \A j, k \in Slots : j # k /\ Pending(req'[j]) /\ Pending(req'[k])
                            => req'[j].new # req'[k].new
  BY <1>2 DEF FreshRows
<1> QED
  BY <1>3, <1>5, <1>6, <1>7 DEF FreshRows

\* A request that has inserted a row: no other tally is of that row.
LEMMA FreshInserts ==
  ASSUME TypeOK, OnItsWay, FreshRows, NEW i \in Slots, NEW s, s.due # 0 => Carries(s),
         s.op # "void" => s.new = Len(payments) + 1,
         req' = [req EXCEPT ![i] = s], NEW row, Insert(row), row \in Row, deferred' = deferred
  PROVE  OnItsWay' /\ FreshRows'
<1>1. \A j \in Slots : req'[j] = IF j = i THEN s ELSE req[j]
  BY DEF TypeOK
<1>2. /\ DOMAIN payments = 1 .. Len(payments) /\ Len(payments) \in Nat
      /\ DOMAIN payments' = 1 .. (Len(payments) + 1)
  BY AppendProperties DEF TypeOK, Insert
<1>3. Pending(s) => s.new \in DOMAIN payments' /\ s.new \notin DOMAIN payments
  BY <1>2 DEF Pending
<1>4. OnItsWay'
  BY <1>1 DEF OnItsWay
<1>5. /\ \A j \in Slots : Pending(req'[j]) => req'[j].new \in DOMAIN payments'
      /\ \A t \in deferred' : t.row \in DOMAIN payments'
  BY <1>1, <1>2, <1>3 DEF FreshRows
<1>6. \A j \in Slots, t \in deferred' : Pending(req'[j]) => req'[j].new # t.row
  BY <1>1, <1>3 DEF FreshRows
<1>7. \A j, k \in Slots : j # k /\ Pending(req'[j]) /\ Pending(req'[k])
                            => req'[j].new # req'[k].new
  BY <1>1, <1>3 DEF FreshRows
<1> QED
  BY <1>4, <1>5, <1>6, <1>7 DEF FreshRows

\* What stays in the deferred tallies, and what one more or one less makes.
LEMMA AwaitedType ==
  ASSUME TypeOK, IsFiniteSet(deferred)
  PROVE  Awaited \in Int
<1>1. \A t \in deferred : AmountOf(deferred)[t] \in Int
  BY DEF TypeOK, AmountOf
<1> QED
  BY <1>1, AwaitedIs, SumType

LEMMA AwaitedGrows ==
  ASSUME TypeOK, FreshRows, IsFiniteSet(deferred), NEW i \in Slots, Pending(req[i]),
         deferred' = deferred \cup {[row |-> req[i].new, amount |-> req[i].due]}
  PROVE  IsFiniteSet(deferred') /\ Awaited' = Awaited + req[i].due
<1> DEFINE t == [row |-> req[i].new, amount |-> req[i].due]
<1>1. req[i].new \in Nat /\ req[i].due \in Int
  BY DEF TypeOK, Request
<1>2. t \in [row : Nat, amount : Int] /\ t \notin deferred
  BY <1>1 DEF FreshRows
<1>3. deferred \subseteq [row : Nat, amount : Int]
  BY DEF TypeOK
<1>4. Awaited' = SumOver(AmountOf(deferred'), deferred')
  BY DEF Awaited, AmountOf
<1>5. t.amount = req[i].due /\ deferred' = deferred \cup {t}
  OBVIOUS
<1> HIDE DEF t
<1> QED
  BY <1>2, <1>3, <1>4, <1>5, AwaitedIs, DefersMore

LEMMA AwaitedShrinks ==
  ASSUME TypeOK, IsFiniteSet(deferred), NEW t \in deferred, deferred' = deferred \ {t}
  PROVE  /\ IsFiniteSet(deferred') /\ t.amount \in Int
         /\ Awaited' \in Int /\ Awaited = Awaited' + t.amount
<1> DEFINE D == deferred \ {t}
<1>1. deferred \subseteq [row : Nat, amount : Int]
  BY DEF TypeOK
<1>2. /\ t \in [row : Nat, amount : Int] /\ t \notin D
      /\ D \subseteq [row : Nat, amount : Int] /\ D \cup {t} = deferred /\ D = deferred'
  BY <1>1
<1>3. IsFiniteSet(D)
  BY FS_RemoveElement
<1>4. Awaited' = SumOver(AmountOf(deferred'), deferred')
  BY DEF Awaited, AmountOf
<1> HIDE DEF D
<1>5. /\ SumOver(AmountOf(D), D) \in Int
      /\ SumOver(AmountOf(D \cup {t}), D \cup {t}) = SumOver(AmountOf(D), D) + t.amount
  BY <1>2, <1>3, DefersMore
<1> QED
  BY <1>2, <1>3, <1>4, <1>5, AwaitedIs

LEMMA AwaitedSame == deferred' = deferred => Awaited' = Awaited
BY DEF Awaited

LEMMA TalliedSame == drawers' = drawers => Tallied' = Tallied
BY DEF Tallied

LEMMA BookSame == payments' = payments => CashBook' = CashBook
BY DEF CashBook, RowAmounts

LEMMA SumsType ==
  ASSUME TypeOK, CashInv, IsFiniteSet(Slots)
  PROVE  /\ CashBook \in Int /\ Tallied \in Int /\ Carried \in Int /\ Awaited \in Int
         /\ untallied \in Int /\ \A i \in Slots : req[i].due \in Int
<1>1. \A i \in Slots : req[i].due \in Int
  BY DEF TypeOK, Request
<1>2. Carried = SumOver([i \in Slots |-> req[i].due], Slots)
  BY DEF Carried
<1>3. \A i \in Slots : [j \in Slots |-> req[j].due][i] \in Int
  BY <1>1
<1>4. Carried \in Int
  BY <1>2, <1>3, SumType
<1> QED
  BY <1>1, <1>4, BookType, TalliedType, AwaitedType DEF CashInv, TypeOK

LEMMA QuietCash ==
  ASSUME TypeOK, CashInv, IsFiniteSet(Slots), NEW i \in Slots, Quiet(i)
  PROVE  CashInv'
<1>1. PICK s : req' = [req EXCEPT ![i] = s] /\ SameDue(req[i], s)
  BY QuietMoves DEF CashInv
<1>2. deferred' = deferred /\ untallied' = untallied
  BY DEF Quiet, Refreshes, TillGate, Claims, ChecksOverpayment, ReleasesClaim,
         ChecksDuplicate, ReadsOrder, ReadsRows, StoresStatus, VoidReads, Cancels,
         MarksGiven, VoidEnds, WritesTotal, Closes, Moves
<1>3. CashBook' = CashBook /\ DOMAIN payments' = DOMAIN payments
  <2>1. CASE MarksGiven(i)
    <3>1. payments' = Marked(payments, req[i].row, "refunded")
      BY <2>1 DEF MarksGiven, Marked
    <3>2. DOMAIN Marked(payments, req[i].row, "refunded") = DOMAIN payments
      BY DEF Marked
    <3> QED
      BY <3>1, <3>2, BookMarked
  <2>2. CASE ~MarksGiven(i)
    <3>1. payments' = payments
      BY <2>2 DEF Quiet, Refreshes, TillGate, Claims, ChecksOverpayment, ReleasesClaim,
         ChecksDuplicate, ReadsOrder, ReadsRows, StoresStatus, VoidReads, Cancels,
         VoidEnds, WritesTotal, Closes, Moves, book
    <3> QED
      BY <3>1, BookSame
  <2> QED
    BY <2>1, <2>2
<1>4. Tallied' = Tallied
  <2>1. drawers \in [1 .. Len(drawers) -> Drawer] /\ req[i] \in Request
    BY DEF TypeOK
  <2>2. CASE Closes(i)
    <3>1. \A e \in Drawer : \A x : [e EXCEPT !.open = FALSE, !.expected = x].sales = e.sales
      BY Zenon DEF Drawer
    <3>2. /\ DOMAIN drawers' = DOMAIN drawers
          /\ \A d \in DOMAIN drawers : drawers'[d].sales = drawers[d].sales
      BY <2>1, <2>2, <3>1 DEF Closes
    <3> QED
      BY <3>2, SalesSame
  <2>3. CASE Moves(i)
    <3>1. \A e \in Drawer : \A x : /\ [e EXCEPT !.in = x].sales = e.sales
                               /\ [e EXCEPT !.out = x].sales = e.sales
      BY Zenon DEF Drawer
    <3>2. \A e \in Drawer : /\ [e EXCEPT !.in = @ + req[i].amount].sales = e.sales
                            /\ [e EXCEPT !.out = @ + req[i].amount].sales = e.sales
      BY <3>1
    <3>3. /\ DOMAIN drawers' = DOMAIN drawers
          /\ \A d \in DOMAIN drawers : drawers'[d].sales = drawers[d].sales
      BY <2>1, <2>3, <3>2 DEF Moves
    <3> QED
      BY <3>3, SalesSame
  <2>4. CASE ~Closes(i) /\ ~Moves(i)
    <3>1. drawers' = drawers
      BY <2>4 DEF Quiet, Refreshes, TillGate, Claims, ChecksOverpayment, ReleasesClaim,
         ChecksDuplicate, ReadsOrder, ReadsRows, StoresStatus, VoidReads, Cancels,
         MarksGiven, VoidEnds, WritesTotal
    <3> QED
      BY <3>1, TalliedSame
  <2> QED
    BY <2>2, <2>3, <2>4
<1>5. OnItsWay' /\ FreshRows'
  BY <1>1, <1>2, <1>3, FreshStays DEF CashInv
<1>6. /\ CashBook \in Int /\ Tallied \in Int /\ Carried \in Int /\ Awaited \in Int
      /\ untallied \in Int /\ req[i].due \in Int
  BY SumsType
<1>7. Carried' = Carried + 0
  <2>1. s.due = req[i].due
    BY <1>1 DEF SameDue
  <2>2. Carried' = Carried + (s.due - req[i].due)
    BY <1>1, <1>6, <2>1, CarriedMoves
  <2> QED
    BY <1>6, <2>1, <2>2
<1>8. CashAccounted'
  BY <1>2, <1>3, <1>4, <1>6, <1>7, AwaitedSame DEF CashInv, CashAccounted
<1> QED
  BY <1>2, <1>5, <1>8 DEF CashInv

\* A row goes into the book, and its cash with the request.
LEMMA InsertCash ==
  ASSUME TypeOK, CashInv, IsFiniteSet(Slots), NEW i \in Slots, NEW s, NEW row \in Row,
         Insert(row), req' = [req EXCEPT ![i] = s], ~Carries(req[i]),
         s.due = IF row.cash THEN row.amount ELSE 0, s.due # 0 => Carries(s),
         s.op # "void" => s.new = Len(payments) + 1,
         UNCHANGED <<drawers, deferred, untallied>>
  PROVE  CashInv'
<1>1. req[i].due = 0
  BY DEF CashInv, OnItsWay
<1>2. /\ CashBook \in Int /\ Tallied \in Int /\ Carried \in Int /\ Awaited \in Int
      /\ untallied \in Int
  BY SumsType
<1>3. s.due \in Int
  BY DEF Row
<1>4. CashBook' = CashBook + s.due
  BY BookGrows
<1>5. Carried' = Carried + s.due
  <2>1. Carried' = Carried + (s.due - req[i].due)
    BY <1>3, CarriedMoves
  <2> QED
    BY <1>1, <1>2, <1>3, <2>1
<1>6. OnItsWay' /\ FreshRows'
  BY FreshInserts DEF CashInv
<1>7. CashAccounted'
  BY <1>2, <1>3, <1>4, <1>5, AwaitedSame, TalliedSame DEF CashInv, CashAccounted
<1> QED
  BY <1>6, <1>7 DEF CashInv

LEMMA InsertsCash ==
  ASSUME TypeOK, CashInv, IsFiniteSet(Slots), NEW i \in Slots,
         InsertsPayment(i) \/ InsertsRefund(i) \/ GivesBack(i)
  PROVE  CashInv'
<1> DEFINE r == req[i]
<1>1. r \in Request /\ InItsHandler(r) /\ Len(payments) + 1 \in Nat
  BY DEF TypeOK
<1>2. CASE InsertsPayment(i)
  <2> DEFINE s == WithNew(r, "owed", Len(payments) + 1, CashIn(r))
  <2>1. req' = [req EXCEPT ![i] = s] /\ Insert(NewRow(r)) /\ UNCHANGED <<drawers, deferred, untallied>>
    BY <1>2 DEF InsertsPayment, WithNew
  <2>2. r.order \in Orders /\ r.pc = "insert" /\ r.op \in {"record", "settle"}
    BY <1>1, <1>2 DEF InsertsPayment, InItsHandler, At
  <2>3. NewRow(r) \in Row /\ CashIn(r) = IF NewRow(r).cash THEN NewRow(r).amount ELSE 0
    BY <1>1, <2>2 DEF NewRow, Row, RowStatuses, Request, CashIn
  <2>4. s.pc = "owed" /\ s.new = Len(payments) + 1 /\ s.due = CashIn(r) /\ s.op = r.op
    BY <1>1, Zenon DEF WithNew, Request
  <2>5. Carries(s) /\ ~Carries(r)
    BY <2>2, <2>4 DEF Carries
  <2> HIDE DEF s
  <2> QED
    BY <2>1, <2>3, <2>4, <2>5, InsertCash
<1>3. CASE InsertsRefund(i)
  <2> DEFINE s == WithNew(r, "mark", Len(payments) + 1, CashBack(r))
  <2>1. req' = [req EXCEPT ![i] = s] /\ Insert(RefundRow(r)) /\ UNCHANGED <<drawers, deferred, untallied>>
    BY <1>3 DEF InsertsRefund, WithNew
  <2>2. r.order \in Orders /\ r.pc = "insert" /\ r.op = "refund"
    BY <1>1, <1>3 DEF InsertsRefund, InItsHandler, At
  <2>3. RefundRow(r) \in Row /\ CashBack(r) = IF RefundRow(r).cash THEN RefundRow(r).amount ELSE 0
    BY <1>1, <2>2 DEF RefundRow, Row, RowStatuses, Request, CashBack
  <2>4. s.pc = "mark" /\ s.new = Len(payments) + 1 /\ s.due = CashBack(r) /\ s.op = r.op
    BY <1>1, Zenon DEF WithNew, Request
  <2>5. Carries(s) /\ ~Carries(r)
    BY <2>2, <2>4 DEF Carries
  <2> HIDE DEF s
  <2> QED
    BY <2>1, <2>3, <2>4, <2>5, InsertCash
<1>4. CASE GivesBack(i)
  <2>1. PICK p \in r.todo :
          /\ r.pc = "give"
          /\ Insert(RefundRow(WithGiven(r, p.row, p.amount, -p.amount, r.todo \ {p})))
          /\ req' = [req EXCEPT ![i] = WithGiven(r, p.row, p.amount, -p.amount, r.todo \ {p})]
          /\ UNCHANGED <<drawers, deferred, untallied>>
    BY <1>4 DEF GivesBack, At, WithGiven
  <2> DEFINE s == WithGiven(r, p.row, p.amount, -p.amount, r.todo \ {p})
  <2>2. p \in [row : Nat, amount : Int] /\ -p.amount \in Int
    BY <1>1 DEF Request
  <2>3. r.order \in Orders /\ r.op = "void"
    BY <1>1, <2>1 DEF InItsHandler
  <2>4. s.pc = "given" /\ s.due = -p.amount /\ s.op = r.op
    BY <1>1, Zenon DEF WithGiven, Request
  <2>5. s.cash = TRUE /\ s.amount = p.amount /\ s.order = r.order
    BY <1>1, Zenon DEF WithGiven, Request
  <2>6. Carries(s) /\ ~Carries(r)
    BY <2>1, <2>3, <2>4 DEF Carries
  <2> HIDE DEF s
  <2>7. /\ RefundRow(s) \in Row
        /\ s.due = IF RefundRow(s).cash THEN RefundRow(s).amount ELSE 0
    BY <2>2, <2>3, <2>4, <2>5 DEF RefundRow, Row, RowStatuses
  <2> QED
    BY <2>1, <2>3, <2>4, <2>6, <2>7, InsertCash DEF s
<1> QED
  BY <1>2, <1>3, <1>4

\* A request lets go of its cash: to a drawer, to nobody, or to a deferred tally.
LEMMA PassesCash ==
  ASSUME TypeOK, CashInv, IsFiniteSet(Slots), NEW i \in Slots, NEW s, s.due = 0,
         req' = [req EXCEPT ![i] = s], 
         CashBook' = CashBook, DOMAIN payments' = DOMAIN payments,
         \/ /\ Tallied' \in Int /\ untallied' \in Int
            /\ Tallied' + untallied' = Tallied + untallied + req[i].due
            /\ deferred' = deferred
         \/ /\ deferred' = deferred \cup {[row |-> req[i].new, amount |-> req[i].due]}
            /\ Pending(req[i])
            /\ UNCHANGED <<drawers, untallied>>
  PROVE  CashInv'
<1>1. /\ CashBook \in Int /\ Tallied \in Int /\ Carried \in Int /\ Awaited \in Int
      /\ untallied \in Int /\ req[i].due \in Int
  BY SumsType
<1>2. Carried' = Carried + (0 - req[i].due)
  <2>1. s.due \in Int
    OBVIOUS
  <2>2. Carried' = Carried + (s.due - req[i].due)
    BY <2>1, CarriedMoves
  <2> QED
    BY <2>2
<1>3. OnItsWay' /\ FreshRows'
  <2>1. \/ deferred' = deferred
        \/ /\ Pending(req[i])
           /\ deferred' = deferred \cup {[row |-> req[i].new, amount |-> req[i].due]}
    OBVIOUS
  <2> QED
    BY <2>1, FreshDefers DEF CashInv
<1>4. CASE /\ Tallied' \in Int /\ untallied' \in Int
           /\ Tallied' + untallied' = Tallied + untallied + req[i].due
           /\ deferred' = deferred
  <2>1. /\ Tallied' \in Int /\ untallied' \in Int
        /\ Tallied' + untallied' = Tallied + untallied + req[i].due
    BY <1>4
  <2>2. Awaited' = Awaited /\ IsFiniteSet(deferred')
    BY <1>4, AwaitedSame DEF CashInv
  <2>3. PICK b \in Int, c \in Int, w \in Int, n \in Int, d \in Int :
          /\ b = CashBook /\ c = Carried /\ w = Awaited /\ d = req[i].due
          /\ n = Tallied + untallied
    BY <1>1
  <2>4. b = n + c + w
    BY <1>1, <2>3 DEF CashInv, CashAccounted
  <2>5. Carried' = c - d /\ Tallied' + untallied' = n + d
    BY <1>2, <2>1, <2>3
  <2>6. PICK t \in Int, u \in Int : t = Tallied' /\ u = untallied'
    BY <2>1
  <2>7. CashBook' = b /\ Awaited' = w /\ b = t + (c - d) + w + u
    BY <2>2, <2>3, <2>4, <2>5, <2>6
  <2>8. CashAccounted'
    BY <2>5, <2>6, <2>7 DEF CashAccounted
  <2> QED
    BY <1>3, <2>2, <2>8 DEF CashInv
<1>5. CASE /\ deferred' = deferred \cup {[row |-> req[i].new, amount |-> req[i].due]}
           /\ Pending(req[i])
           /\ UNCHANGED <<drawers, untallied>>
  <2>1. Awaited' = Awaited + req[i].due /\ IsFiniteSet(deferred')
    BY <1>5, AwaitedGrows DEF CashInv
  <2>2. Tallied' = Tallied /\ untallied' = untallied
    BY <1>5, TalliedSame
  <2>3. CashAccounted'
    BY <1>1, <1>2, <2>1, <2>2 DEF CashInv, CashAccounted
  <2> QED
    BY <1>3, <2>1, <2>3 DEF CashInv
<1> QED
  BY <1>4, <1>5

\* Cash that reaches a drawer, or is known to reach none.
LEMMA TalliesCash ==
  ASSUME TypeOK, NEW a \in Int,
         Tally(a) \/ (drawers' = drawers /\ untallied' = untallied + a)
  PROVE  /\ Tallied' \in Int /\ untallied' \in Int
         /\ Tallied' + untallied' = Tallied + untallied + a
<1>1. CASE Tally(a)
  BY <1>1, TallyCounts
<1>2. CASE drawers' = drawers /\ untallied' = untallied + a
  BY <1>2, TalliedSame, TalliedType DEF TypeOK
<1> QED
  BY <1>1, <1>2

LEMMA DueType == ASSUME TypeOK, NEW i \in Slots PROVE req[i].due \in Int
BY DEF TypeOK, Request

LEMMA HandsOver ==
  ASSUME TypeOK, CashInv, IsFiniteSet(Slots), NEW i \in Slots,
         MarksRow(i) \/ Finishes(i) \/ TalliesGiven(i)
  PROVE  CashInv'
<1> DEFINE r == req[i]
<1>1. r \in Request /\ InItsHandler(r)
  BY DEF TypeOK
<1>2. r.due # 0 => Carries(r)
  BY DEF CashInv, OnItsWay
<1>3. CASE MarksRow(i)
  <2> DEFINE s == WithDue(r, "owed", 0)
  <2>1. req' = [req EXCEPT ![i] = s] /\ r.pc = "mark"
    BY <1>3 DEF MarksRow, At, WithDue
  <2>2. s.due = 0
    BY <1>1, Zenon DEF WithDue, Request
  <2> HIDE DEF s
  <2>3. PICK st : payments' = Marked(payments, r.row, st)
    BY <1>3 DEF MarksRow, Marked
  <2>4. DOMAIN Marked(payments, r.row, st) = DOMAIN payments
    BY DEF Marked
  <2>5. CashBook' = CashBook
    BY <2>3, BookMarked
  <2>6. CASE r.due = 0
    <3>1. UNCHANGED <<drawers, deferred, untallied>>
      BY <1>3, <2>6 DEF MarksRow
    <3>2. untallied' = untallied + r.due
      BY <2>6, <3>1 DEF TypeOK
    <3>9. /\ Tallied' \in Int /\ untallied' \in Int
         /\ Tallied' + untallied' = Tallied + untallied + req[i].due
      BY <2>1, <2>2, <2>3, <2>4, <2>5, <3>1, <3>2, DueType, TalliesCash
    <3> QED
      BY <2>1, <2>2, <2>3, <2>4, <2>5, <3>1, <3>2, <3>9, PassesCash
  <2>7. CASE r.due # 0
    <3>1. /\ deferred' = deferred \cup {[row |-> r.new, amount |-> r.due]}
          /\ UNCHANGED <<drawers, untallied>>
      BY <1>3, <2>7 DEF MarksRow
    <3>2. Pending(r)
      BY <1>2, <2>1, <2>7 DEF Pending, Carries
    <3> QED
      BY <2>1, <2>2, <2>3, <2>4, <2>5, <3>1, <3>2, PassesCash
  <2> QED
    BY <2>6, <2>7
<1>4. CASE Finishes(i)
  <2>1. req' = [req EXCEPT ![i] = FreeSlot] /\ r.pc = "end" /\ payments' = payments
    BY <1>4 DEF Finishes, Answers, At, book
  <2>2. CashBook' = CashBook
    BY <2>1, BookSame
  <2>3. CASE r.op = "settle"
    <3>1. Tally(r.due) /\ deferred' = deferred
      BY <1>4, <2>3 DEF Finishes
    <3>2. DOMAIN payments' = DOMAIN payments
      BY <2>1
    <3>9. /\ Tallied' \in Int /\ untallied' \in Int
         /\ Tallied' + untallied' = Tallied + untallied + req[i].due
      BY <2>1, <2>2, <3>1, <3>2, DueType, TalliesCash
    <3> QED
      BY <2>1, <2>2, <3>1, <3>2, FreeDue, <3>9, PassesCash
  <2>4. CASE r.op # "settle" /\ r.due = 0
    <3>1. UNCHANGED <<drawers, deferred, untallied>>
      BY <1>4, <2>4 DEF Finishes
    <3>2. untallied' = untallied + r.due
      BY <2>4, <3>1 DEF TypeOK
    <3>9. /\ Tallied' \in Int /\ untallied' \in Int
         /\ Tallied' + untallied' = Tallied + untallied + req[i].due
      BY <2>1, <2>2, <3>1, <3>2, DueType, TalliesCash
    <3> QED
      BY <2>1, <2>2, <3>1, <3>2, FreeDue, <3>9, PassesCash
  <2>5. CASE r.op # "settle" /\ r.due # 0
    <3>1. r.op = "record"
      BY <1>2, <2>1, <2>5 DEF Carries
    <3>2. /\ deferred' = deferred \cup {[row |-> r.new, amount |-> r.due]}
          /\ UNCHANGED <<drawers, untallied>>
      BY <1>4, <2>5, <3>1 DEF Finishes
    <3>3. Pending(r)
      BY <2>5, <3>1 DEF Pending
    <3> QED
      BY <2>1, <2>2, <3>2, <3>3, FreeDue, PassesCash
  <2> QED
    BY <2>3, <2>4, <2>5
<1>5. CASE TalliesGiven(i)
  <2> DEFINE s == WithDue(r, "give", 0)
  <2>1. /\ req' = [req EXCEPT ![i] = s] /\ Tally(r.due)
        /\ deferred' = deferred /\ payments' = payments
    BY <1>5 DEF TalliesGiven, WithDue, book
  <2>2. s.due = 0
    BY <1>1, Zenon DEF WithDue, Request
  <2> HIDE DEF s
  <2>3. CashBook' = CashBook /\ DOMAIN payments' = DOMAIN payments
    BY <2>1, BookSame
  <2>9. /\ Tallied' \in Int /\ untallied' \in Int
       /\ Tallied' + untallied' = Tallied + untallied + req[i].due
    BY <2>1, <2>2, <2>3, DueType, TalliesCash
  <2> QED
    BY <2>1, <2>2, <2>3, <2>9, PassesCash
<1> QED
  BY <1>3, <1>4, <1>5

\* A request that dies, or a loop that stumbles, leaves its cash untallied.
LEMMA FailsCash ==
  ASSUME TypeOK, CashInv, IsFiniteSet(Slots), NEW i \in Slots,
         Dies(i) \/ Stumbles(i) \/ ProbeFails(i)
  PROVE  CashInv'
<1> DEFINE r == req[i]
<1>1. r \in Request /\ InItsHandler(r) /\ untallied \in Int
  BY DEF TypeOK
<1>2. (r.due # 0 => Carries(r)) /\ OnItsWay
  BY DEF CashInv, OnItsWay
<1>3. UNCHANGED <<payments, drawers, deferred>> /\ CashBook' = CashBook
  BY BookSame DEF Dies, Stumbles, ProbeFails, book
<1>4. CASE Dies(i)
  <2>1. req' = [req EXCEPT ![i] = FreeSlot] /\ untallied' = untallied + r.due
    BY <1>4 DEF Dies, Answers
  <2>9. /\ Tallied' \in Int /\ untallied' \in Int
       /\ Tallied' + untallied' = Tallied + untallied + req[i].due
    BY <1>3, <2>1, DueType, TalliesCash
  <2> QED
    BY <1>3, <2>1, FreeDue, <2>9, PassesCash
<1>5. CASE Stumbles(i)
  <2>1. PICK s : req' = [req EXCEPT ![i] = s] /\ s.due = 0
    <3>1. CASE At(i, "give") /\ \E p \in r.todo : req' = [req EXCEPT ![i].todo = @ \ {p}]
      <4>1. PICK p : req' = [req EXCEPT ![i] = [r EXCEPT !.todo = @ \ {p}]]
        BY <3>1
      <4>2. [r EXCEPT !.todo = @ \ {p}].due = r.due
        BY <1>1, Zenon DEF Request
      <4>3. r.due = 0
        BY <1>2, <3>1 DEF At, Carries
      <4> QED
        BY <4>1, <4>2, <4>3
    <3>2. CASE req' = [req EXCEPT ![i].pc = "give", ![i].due = 0]
      <4>1. req' = [req EXCEPT ![i] = WithDue(r, "give", 0)]
        BY <3>2 DEF WithDue
      <4>2. WithDue(r, "give", 0).due = 0
        BY <1>1, Zenon DEF WithDue, Request
      <4> QED
        BY <4>1, <4>2
    <3> QED
      BY <1>5, <3>1, <3>2 DEF Stumbles
  <2>2. untallied' = untallied + r.due
    BY <1>5 DEF Stumbles
  <2>9. /\ Tallied' \in Int /\ untallied' \in Int
       /\ Tallied' + untallied' = Tallied + untallied + req[i].due
    BY <1>3, <2>1, <2>2, DueType, TalliesCash
  <2> QED
    BY <1>3, <2>1, <2>2, <2>9, PassesCash
<1>6. CASE ProbeFails(i)
  <2>1. PassesTill(i) /\ ~Carries(r) /\ untallied' = untallied
    BY <1>6 DEF ProbeFails, At, Carries
  <2>2. r.due = 0
    BY <1>2, <2>1
  <2>3. PICK pc \in Pcs : Goes(i, pc)
    BY <2>1, PcsAre DEF PassesTill
  <2>4. PICK s : req' = [req EXCEPT ![i] = s] /\ SameDue(r, s)
    BY <1>2, <2>1, <2>3, GoesQuietly
  <2>5. s.due = 0 /\ untallied' = untallied + r.due
    BY <1>1, <2>1, <2>2, <2>4 DEF SameDue
  <2>9. /\ Tallied' \in Int /\ untallied' \in Int
       /\ Tallied' + untallied' = Tallied + untallied + req[i].due
    BY <1>3, <2>4, <2>5, DueType, TalliesCash
  <2> QED
    BY <1>3, <2>4, <2>5, <2>9, PassesCash
<1> QED
  BY <1>4, <1>5, <1>6

\* What arrives carries nothing.
LEMMA ArrivesEmpty ==
  ASSUME NEW i \in Slots, Arrivals(i), TypeOK
  PROVE  \E s : req' = [req EXCEPT ![i] = s] /\ s.due = 0
<1>1. ASSUME NEW r, r.due = 0, Arrives(i, r)
      PROVE  \E s : req' = [req EXCEPT ![i] = s] /\ s.due = 0
  BY <1>1 DEF Arrives
<1>2. CASE RecordArrives(i)
  BY <1>1, <1>2 DEF RecordArrives, FreeSlot
<1>3. CASE SettleArrives(i)
  BY <1>1, <1>3 DEF SettleArrives, FreeSlot
<1>4. CASE VerifyArrives(i)
  BY <1>1, <1>4 DEF VerifyArrives, FreeSlot
<1>5. CASE RefundArrives(i)
  BY <1>1, <1>5 DEF RefundArrives, FreeSlot
<1>6. CASE AmendArrives(i)
  BY <1>1, <1>6 DEF AmendArrives, FreeSlot
<1>7. CASE VoidArrives(i)
  BY <1>1, <1>7 DEF VoidArrives, FreeSlot
<1>8. CASE CloseArrives(i)
  BY <1>1, <1>8 DEF CloseArrives, FreeSlot
<1>9. CASE MoveArrives(i)
  BY <1>1, <1>9 DEF MoveArrives, FreeSlot
<1> QED
  BY <1>2, <1>3, <1>4, <1>5, <1>6, <1>7, <1>8, <1>9 DEF Arrivals

LEMMA ArrivesCash ==
  ASSUME TypeOK, CashInv, IsFiniteSet(Slots), NEW i \in Slots, Arrivals(i)
  PROVE  CashInv'
<1>1. PICK s : req' = [req EXCEPT ![i] = s] /\ s.due = 0
  BY ArrivesEmpty
<1>2. UNCHANGED <<book, drawers, deferred, untallied, faults>>
  BY ArrivalsMove
<1>3. req[i].due = 0
  <2>1. req[i].pc = "free"
    BY DEF Arrivals, Arrives, RecordArrives, SettleArrives, VerifyArrives, RefundArrives,
           AmendArrives, VoidArrives, CloseArrives, MoveArrives
  <2> QED
    BY <2>1 DEF CashInv, OnItsWay, Carries
<1>4. untallied' = untallied + req[i].due /\ CashBook' = CashBook
  BY <1>2, <1>3, BookSame DEF book, TypeOK
<1>9. /\ Tallied' \in Int /\ untallied' \in Int
     /\ Tallied' + untallied' = Tallied + untallied + req[i].due
  BY <1>1, <1>2, <1>4, DueType, TalliesCash DEF book
<1> QED
  BY <1>1, <1>2, <1>4, <1>9, PassesCash DEF book

\* A deferred tally runs, or is lost.
LEMMA DeferredCash ==
  ASSUME TypeOK, CashInv, IsFiniteSet(Slots), NEW t \in deferred,
         TalliesLater(t) \/ Reaps(t)
  PROVE  CashInv'
<1>1. /\ deferred' = deferred \ {t} /\ req' = req /\ payments' = payments
      /\ Tally(t.amount) \/ (drawers' = drawers /\ untallied' = untallied + t.amount)
  BY DEF TalliesLater, Reaps, book
<1>2. /\ IsFiniteSet(deferred') /\ t.amount \in Int
      /\ Awaited' \in Int /\ Awaited = Awaited' + t.amount
  BY <1>1, AwaitedShrinks DEF CashInv
<1>3. /\ CashBook \in Int /\ Tallied \in Int /\ Carried \in Int /\ untallied \in Int
  BY SumsType
<1>4. /\ Tallied' \in Int /\ untallied' \in Int
      /\ Tallied' + untallied' = Tallied + untallied + t.amount
  <2>1. CASE Tally(t.amount)
    BY <1>2, <2>1, TallyCounts
  <2>2. CASE drawers' = drawers /\ untallied' = untallied + t.amount
    BY <1>2, <1>3, <2>2, TalliedSame
  <2> QED
    BY <1>1, <2>1, <2>2
<1>5. CashBook' = CashBook /\ Carried' = Carried
  BY <1>1, BookSame DEF Carried
<1>6. CashAccounted'
  <2>1. PICK c \in Int, a \in Int, n \in Int, d \in Int, x \in Int, u \in Int :
          /\ c = Carried /\ a = Awaited' /\ d = t.amount /\ n = Tallied + untallied
          /\ x = Tallied' /\ u = untallied'
    BY <1>2, <1>3, <1>4
  <2>2. CashBook = n + c + (a + d)
    BY <1>2, <1>3, <2>1 DEF CashInv, CashAccounted
  <2>3. x + u = n + d
    BY <1>4, <2>1
  <2>4. CashBook' = x + c + a + u
    BY <1>5, <2>2, <2>3
  <2> QED
    BY <1>5, <2>1, <2>4 DEF CashAccounted
<1>7. OnItsWay' /\ FreshRows'
  BY <1>1 DEF CashInv, OnItsWay, FreshRows
<1> QED
  BY <1>2, <1>6, <1>7 DEF CashInv

LEMMA CashInit ==
  ASSUME IsFiniteSet(Slots), Init
  PROVE  CashInv
<1>1. /\ payments = <<>> /\ drawers = <<>> /\ deferred = {} /\ untallied = 0
      /\ req = [i \in Slots |-> FreeSlot]
  BY DEF Init
<1>2. IsFiniteSet(deferred)
  BY <1>1, FS_EmptySet
<1>3. \A i \in Slots : req[i].due = 0
  BY <1>1, FreeDue
<1>4. OnItsWay /\ FreshRows
  BY <1>1, <1>3 DEF OnItsWay, FreshRows, Pending
<1>5. DOMAIN payments = {} /\ DOMAIN drawers = {}
  BY <1>1
<1>6. {n \in DOMAIN payments : payments[n].cash} = {}
  BY <1>5
<1>7. CashBook = 0 /\ Tallied = 0 /\ Awaited = 0
  BY <1>1, <1>5, <1>6, SumEmpty DEF CashBook, Tallied, Awaited
<1>8. Carried = 0
  <2> DEFINE f == [i \in Slots |-> req[i].due]
  <2>1. \A i \in Slots : f[i] = 0
    BY <1>3
  <2>2. Carried = SumOver(f, Slots)
    BY DEF Carried
  <2> HIDE DEF f
  <2> QED
    BY <2>1, <2>2, SumZero
<1> QED
  BY <1>1, <1>2, <1>4, <1>7, <1>8 DEF CashInv, CashAccounted

LEMMA CashNext ==
  ASSUME TypeOK, CashInv, IsFiniteSet(Slots), [Next]_vars
  PROVE  CashInv'
<1>1. CASE \E i \in Slots : Arrivals(i)
  BY <1>1, ArrivesCash
<1>2. CASE \E i \in Slots : Step(i)
  <2>1. PICK i \in Slots : Step(i)
    BY <1>2
  <2>2. \/ Quiet(i) \/ MarksRow(i) \/ Finishes(i) \/ TalliesGiven(i)
        \/ InsertsPayment(i) \/ InsertsRefund(i) \/ GivesBack(i)
    BY <2>1 DEF Step, Takes, Voids, Quiet
  <2> QED
    BY <2>2, QuietCash, HandsOver, InsertsCash
<1>3. CASE \E t \in deferred : TalliesLater(t) \/ Reaps(t)
  BY <1>3, DeferredCash
<1>4. CASE \E i \in Slots : Dies(i) \/ Stumbles(i) \/ ProbeFails(i)
  BY <1>4, FailsCash
<1>5. CASE Opens
  <2>1. Tallied' = Tallied
    BY <1>5, OpensEmpty
  <2>2. UNCHANGED <<payments, req, deferred, untallied>>
    BY <1>5 DEF Opens, book
  <2>3. CashAccounted'
    BY <2>1, <2>2, BookSame, AwaitedSame DEF CashInv, CashAccounted, Carried
  <2> QED
    BY <2>2, <2>3 DEF CashInv, OnItsWay, FreshRows
<1>6. CASE UNCHANGED vars
  <2>1. UNCHANGED <<payments, drawers, req, deferred, untallied>>
    BY <1>6 DEF vars, book
  <2>2. CashAccounted'
    BY <2>1, BookSame, AwaitedSame, TalliedSame DEF CashInv, CashAccounted, Carried
  <2> QED
    BY <2>1, <2>2 DEF CashInv, OnItsWay, FreshRows
<1> QED
  BY <1>1, <1>2, <1>3, <1>4, <1>5, <1>6 DEF Next, Fails

\* Every cash row of the book is in a drawer's tally, on its way to one, or known
\* to have found none: for any operations, overlapping requests and failures.
THEOREM CashIsAccounted ==
  ASSUME IsFiniteSet(Slots)
  PROVE  Spec => []CashAccounted
<1>1. Init => TypeOK /\ CashInv
  BY InitType, CashInit
<1>2. TypeOK /\ CashInv /\ [Next]_vars => (TypeOK /\ CashInv)'
  BY NextType, CashNext
<1>3. CashInv => CashAccounted
  BY DEF CashInv
<1> QED
  BY <1>1, <1>2, <1>3, PTL DEF Spec

-----------------------------------------------------------------------------
(***************************************************************************)
(* What an order has taken, while only recordPayment and void touch it.     *)
(***************************************************************************)

\* A request on an order that costs t and has taken p, void or not: what it has
\* read is still so where it matters.
PaysIn(r, t, p, void) ==
  /\ r.op = "record" => r.total = t
  /\ r.op = "record" /\ r.pc = "insert" => p + r.amount <= t
  /\ \A q \in r.todo : q.amount > 0
  /\ r.pc \in {"give", "given", "tally"} => void
  /\ r.op = "record" /\ r.pc = "store" /\ ~void => r.status = PayStatus(t, p)

NoneRejected == \A n \in DOMAIN payments : payments[n].status # "rejected"

Takings ==
  /\ NoneRejected
  /\ \A i \in Slots, o \in Orders :
       req[i].order = o => PaysIn(req[i], orders[o].total, Paid(o), orders[o].voided)
  /\ NeverOverpaid
  /\ PaidIsCovered

PaidRows(o) == {n \in RowsOf(o) : payments[n].status # "rejected"}

LEMMA PaidType ==
  ASSUME TypeOK, NEW o \in Orders
  PROVE  Paid(o) \in Int /\ Paid(o) = SumOver(AmountsOf(payments), PaidRows(o))
<1>1. Paid(o) = SumOver(AmountsOf(payments), PaidRows(o))
  BY RowAmountsAre DEF Paid, PaidRows
<1>2. PaidRows(o) \in SUBSET (DOMAIN payments)
  BY DEF PaidRows, RowsOf
<1> QED
  BY <1>1, <1>2, AmountsType DEF TypeOK

LEMMA PaidSame == payments' = payments => \A o : Paid(o)' = Paid(o)
BY DEF Paid, RowsOf, RowAmounts

\* A row counts for its order.
LEMMA PaidAppends ==
  ASSUME TypeOK, NoneRejected, NEW row \in Row, row.status # "rejected", Insert(row)
  PROVE  /\ NoneRejected'
         /\ \A o \in Orders :
              Paid(o)' = IF o = row.order THEN Paid(o) + row.amount ELSE Paid(o)
<1> DEFINE k == Len(payments) + 1
<1>1. payments \in Seq(Row) /\ payments' = Append(payments, row) /\ DOMAIN payments = 1 .. Len(payments)
      /\ Len(payments) \in Nat
  BY DEF TypeOK, Insert
<1>2. /\ DOMAIN payments' = 1 .. k /\ payments'[k] = row
      /\ \A n \in DOMAIN payments : payments'[n] = payments[n]
  BY <1>1, AppendProperties
<1>3. NoneRejected'
  BY <1>1, <1>2 DEF NoneRejected
<1>4. ASSUME NEW o \in Orders
      PROVE  Paid(o)' = IF o = row.order THEN Paid(o) + row.amount ELSE Paid(o)
  <2> DEFINE C == PaidRows(o)
             D == {n \in DOMAIN payments' : payments'[n].order = o /\ payments'[n].status # "rejected"}
  <2>1. D = IF row.order = o THEN C \cup {k} ELSE C
    BY <1>1, <1>2 DEF PaidRows, RowsOf
  <2>2. Paid(o)' = SumOver(AmountsOf(payments'), D)
    <3>1. {n \in RowsOf(o)' : payments'[n].status # "rejected"} = D
      BY DEF RowsOf
    <3> QED
      BY <3>1 DEF Paid, RowAmounts, AmountsOf
  <2>3. Paid(o) = SumOver(AmountsOf(payments), C) /\ C \in SUBSET (DOMAIN payments)
    BY PaidType DEF PaidRows, RowsOf
  <2>4. /\ SumOver(AmountsOf(payments'), C) = SumOver(AmountsOf(payments), C)
        /\ SumOver(AmountsOf(payments'), C \cup {k}) = SumOver(AmountsOf(payments), C) + row.amount
    BY <1>1, <2>3, SumAppends
  <2> QED
    BY <2>1, <2>2, <2>3, <2>4
<1> QED
  BY <1>3, <1>4

LEMMA PaidMarked ==
  ASSUME TypeOK, NoneRejected, NEW m, NEW st, st # "rejected",
         payments' = Marked(payments, m, st)
  PROVE  NoneRejected' /\ \A o \in Orders : Paid(o)' = Paid(o)
<1> DEFINE p == payments'
<1>0. p = Marked(payments, m, st) /\ payments \in Seq(Row)
  BY DEF TypeOK
<1> HIDE DEF p
<1>1. /\ DOMAIN p = DOMAIN payments /\ AmountsOf(p) = AmountsOf(payments)
      /\ \A n \in DOMAIN payments : /\ p[n].order = payments[n].order
                                    /\ p[n].status = IF n = m THEN st ELSE payments[n].status
  BY <1>0, RowMarked
<1> USE DEF p
<1>2. NoneRejected'
  BY <1>1 DEF NoneRejected
<1>3. ASSUME NEW o \in Orders PROVE Paid(o)' = Paid(o)
  <2>1. {n \in RowsOf(o)' : payments'[n].status # "rejected"} = PaidRows(o)
    BY <1>1 DEF RowsOf, PaidRows, NoneRejected
  <2>2. Paid(o)' = SumOver(AmountsOf(payments'), PaidRows(o))
    BY <2>1 DEF Paid, RowAmounts, AmountsOf
  <2> QED
    BY <1>1, <2>2, PaidType
<1> QED
  BY <1>2, <1>3

LEMMA KeepsRest ==
  ASSUME NEW r \in Request, NEW pc
  PROVE  LET s == WithPc(r, pc)
         IN s.op = r.op /\ s.order = r.order /\ s.total = r.total /\ s.amount = r.amount
            /\ s.todo = r.todo /\ s.status = r.status /\ s.pc = pc
<1>1. \A x : WithPc(r, x).op = r.op /\ WithPc(r, x).order = r.order
             /\ WithPc(r, x).total = r.total /\ WithPc(r, x).amount = r.amount
  BY Zenon DEF WithPc, Request
<1>2. \A x : WithPc(r, x).todo = r.todo /\ WithPc(r, x).status = r.status
             /\ WithPc(r, x).pc = x
  BY Zenon DEF WithPc, Request
<1> QED
  BY <1>1, <1>2

\* A step of one request that leaves what the orders have taken.
LEMMA TakingsStay ==
  ASSUME TypeOK, Takings, NEW i \in Slots, NEW s, req' = [req EXCEPT ![i] = s],
         NoneRejected', \A o \in Orders : Paid(o)' = Paid(o),
         \A o \in Orders : /\ orders'[o].total = orders[o].total
                           /\ orders[o].voided => orders'[o].voided
                           /\ orders'[o].pay = "paid" /\ ~orders'[o].voided
                                => orders[o].pay = "paid" \/ Paid(o) = orders[o].total,
         \A o \in Orders : s.order = o =>
           PaysIn(s, orders[o].total, Paid(o), orders'[o].voided)
  PROVE  Takings'
<1>1. \A j \in Slots : req'[j] = IF j = i THEN s ELSE req[j]
  BY DEF TypeOK
<1>2. ASSUME NEW j \in Slots, NEW o \in Orders, req'[j].order = o
      PROVE  PaysIn(req'[j], orders'[o].total, Paid(o)', orders'[o].voided)
  <2>1. CASE j = i
    BY <1>1, <1>2, <2>1
  <2>2. CASE j # i
    <3>1. PaysIn(req[j], orders[o].total, Paid(o), orders[o].voided) /\ req'[j] = req[j]
      BY <1>1, <1>2, <2>2 DEF Takings
    <3> QED
      BY <3>1 DEF PaysIn
  <2> QED
    BY <2>1, <2>2
<1>3. NeverOverpaid'
  BY DEF Takings, NeverOverpaid
<1>4. PaidIsCovered'
  BY DEF Takings, PaidIsCovered
<1> QED
  BY <1>2, <1>3, <1>4 DEF Takings

\* The insertion of a payment: the order is its claim's, and has room for it.
LEMMA InsertTakes ==
  ASSUME Ops \subseteq ClaimOps, TypeOK, OneClaim, Takings, NEW i \in Slots,
         InsertsPayment(i)
  PROVE  Takings'
<1>0. PICK o : o = req[i].order
  OBVIOUS
<1> DEFINE r == req[i]
           s == WithNew(r, "owed", Len(payments) + 1, CashIn(r))
<1>1. r \in Request /\ InItsHandler(r)
  BY DEF TypeOK
<1>2. r.op = "record" /\ o \in Orders /\ r.pc = "insert" /\ r.amount \in Nat
  BY <1>0, <1>1 DEF InsertsPayment, At, InItsHandler, ClaimOps
<1>3. /\ NewRow(r) \in Row /\ NewRow(r).status # "rejected" /\ NewRow(r).order = o
      /\ NewRow(r).amount = r.amount
  BY <1>0, <1>1, <1>2 DEF NewRow, Row, RowStatuses, Request
<1>4. Insert(NewRow(r)) /\ req' = [req EXCEPT ![i] = s] /\ orders' = orders
  BY DEF InsertsPayment, WithNew
<1>5. /\ NoneRejected'
      /\ \A x \in Orders : Paid(x)' = IF x = o THEN Paid(x) + r.amount ELSE Paid(x)
  <2>1. PICK row \in Row : row = NewRow(r)
    BY <1>3
  <2>2. Insert(row)
    BY <1>4, <2>1
  <2> QED
    BY <1>3, <2>1, <2>2, PaidAppends DEF Takings
<1>6. \A x \in Orders : Paid(x) \in Int /\ orders[x].total \in Nat
  BY PaidType, AmountsAssumption DEF TypeOK, Order
<1>7. PaysIn(r, orders[o].total, Paid(o), orders[o].voided)
  BY <1>0, <1>2 DEF Takings
<1>8. Paid(o) + r.amount <= orders[o].total
  BY <1>2, <1>7 DEF PaysIn
<1>9. i \in Holders(o) /\ orders[o].pay = "verifying"
  BY <1>0, <1>2 DEF OneClaim, Holders, Holds
<1>10. s.op = r.op /\ s.order = r.order /\ s.total = r.total /\ s.todo = r.todo
       /\ s.pc = "owed"
  BY <1>1, Zenon DEF WithNew, Request
<1>11. PaysIn(s, orders[o].total, Paid(o)', orders[o].voided)
  BY <1>2, <1>7, <1>10 DEF PaysIn
<1> HIDE DEF s
<1>12. \A j \in Slots : req'[j] = IF j = i THEN s ELSE req[j]
  BY <1>4 DEF TypeOK
<1>13. ASSUME NEW j \in Slots, NEW x \in Orders, req'[j].order = x
       PROVE  PaysIn(req'[j], orders'[x].total, Paid(x)', orders'[x].voided)
  <2>1. CASE j = i
    BY <1>0, <1>4, <1>10, <1>11, <1>12, <1>13, <2>1
  <2>2. CASE j # i
    <3>1. PaysIn(req[j], orders[x].total, Paid(x), orders[x].voided) /\ req'[j] = req[j]
      BY <1>12, <1>13, <2>2 DEF Takings
    <3>2. CASE x = o
      <4>1. j \notin Holders(o)
        BY <1>2, <1>9, <2>2 DEF OneClaim
      <4>2. ~(req[j].op = "record" /\ req[j].pc \in {"insert", "store"})
        BY <1>13, <3>1, <3>2, <4>1 DEF Holders, Holds
      <4> QED
        BY <1>4, <3>1, <4>2 DEF PaysIn
    <3>3. CASE x # o
      BY <1>4, <1>5, <3>1, <3>3
    <3> QED
      BY <3>2, <3>3
  <2> QED
    BY <2>1, <2>2
<1>14. NeverOverpaid'
  BY <1>4, <1>5, <1>8 DEF Takings, NeverOverpaid
<1>15. PaidIsCovered'
  <2>1. ASSUME NEW x \in Orders, orders[x].pay = "paid", ~orders[x].voided
        PROVE  Paid(x)' = orders[x].total
    <3>1. x # o
      BY <1>9, <2>1
    <3> QED
      BY <1>5, <2>1, <3>1 DEF Takings, PaidIsCovered
  <2> QED
    BY <1>4, <2>1 DEF PaidIsCovered
<1> QED
  BY <1>5, <1>13, <1>14, <1>15 DEF Takings

\* A refund of a void: the order is void, and has taken less.
LEMMA GiveTakes ==
  ASSUME TypeOK, Takings, NEW i \in Slots, GivesBack(i)
  PROVE  Takings'
<1>0. PICK o : o = req[i].order
  OBVIOUS
<1> DEFINE r == req[i]
<1>1. r \in Request /\ InItsHandler(r)
  BY DEF TypeOK
<1>2. PICK p \in r.todo :
        /\ r.pc = "give"
        /\ Insert(RefundRow(WithGiven(r, p.row, p.amount, -p.amount, r.todo \ {p})))
        /\ req' = [req EXCEPT ![i] = WithGiven(r, p.row, p.amount, -p.amount, r.todo \ {p})]
        /\ orders' = orders
  BY DEF GivesBack, At, WithGiven
<1> DEFINE s == WithGiven(r, p.row, p.amount, -p.amount, r.todo \ {p})
<1>3. r.op = "void" /\ o \in Orders
  BY <1>0, <1>1, <1>2 DEF InItsHandler
<1>4. PaysIn(r, orders[o].total, Paid(o), orders[o].voided)
  BY <1>0, <1>3 DEF Takings
<1>5. p.amount > 0 /\ orders[o].voided /\ p.amount \in Int /\ -p.amount \in Int
  BY <1>1, <1>2, <1>4 DEF PaysIn, Request
<1>6. s.op = r.op /\ s.order = r.order /\ s.pc = "given" /\ s.amount = p.amount
      /\ s.todo = r.todo \ {p} /\ s.cash = TRUE
  BY <1>1, Zenon DEF WithGiven, Request
<1>7. PaysIn(s, orders[o].total, Paid(o)', orders[o].voided)
  BY <1>3, <1>4, <1>5, <1>6 DEF PaysIn
<1> HIDE DEF s
<1>8. /\ RefundRow(s) \in Row /\ RefundRow(s).status # "rejected"
      /\ RefundRow(s).order = o /\ RefundRow(s).amount = -p.amount
  BY <1>0, <1>3, <1>5, <1>6 DEF RefundRow, Row, RowStatuses
<1>9. Insert(RefundRow(s)) /\ req' = [req EXCEPT ![i] = s]
  BY <1>2 DEF s
<1>10. /\ NoneRejected'
       /\ \A x \in Orders : Paid(x)' = IF x = o THEN Paid(x) + (-p.amount) ELSE Paid(x)
  <2>1. PICK row \in Row : row = RefundRow(s)
    BY <1>8
  <2>2. Insert(row)
    BY <1>9, <2>1
  <2> QED
    BY <1>8, <2>1, <2>2, PaidAppends DEF Takings
<1>11. \A x \in Orders : Paid(x) \in Int /\ orders[x].total \in Nat
  BY PaidType, AmountsAssumption DEF TypeOK, Order
<1>12. \A j \in Slots : req'[j] = IF j = i THEN s ELSE req[j]
  BY <1>9 DEF TypeOK
<1>13. ASSUME NEW j \in Slots, NEW x \in Orders, req'[j].order = x
       PROVE  PaysIn(req'[j], orders'[x].total, Paid(x)', orders'[x].voided)
  <2>1. CASE j = i
    BY <1>0, <1>2, <1>6, <1>7, <1>12, <1>13, <2>1
  <2>2. CASE j # i
    <3>1. PaysIn(req[j], orders[x].total, Paid(x), orders[x].voided) /\ req'[j] = req[j]
      BY <1>12, <1>13, <2>2 DEF Takings
    <3>2. CASE x = o
      <4>0. Paid(o)' = Paid(o) + (-p.amount) /\ Paid(o) \in Int
        BY <1>3, <1>10, <1>11
      <4>1. Paid(o)' \in Int /\ Paid(o)' <= Paid(o)
        BY <1>5, <4>0
      <4>2. req[j] \in Request /\ InItsHandler(req[j])
        BY DEF TypeOK
      <4>3. req[j].op = "record" => req[j].amount \in Nat /\ req[j].total \in Nat
        BY <4>2 DEF InItsHandler, Request
      <4>4. PICK b \in Int, c \in Int : b = Paid(o)' /\ c = Paid(o) /\ b <= c
        BY <1>3, <1>11, <4>1
      <4>5. PICK t \in Nat : t = orders[o].total
        BY <1>3, <1>11
      <4>6. PaysIn(req[j], t, c, TRUE) => PaysIn(req[j], t, b, TRUE)
        BY <4>3, <4>4 DEF PaysIn
      <4>7. orders[o].voided = TRUE
        BY <1>3, <1>5 DEF TypeOK, Order
      <4> QED
        <5>1. PaysIn(req[j], t, c, TRUE)
          BY <3>1, <3>2, <4>4, <4>5, <4>7
        <5>2. PaysIn(req[j], t, b, TRUE)
          BY <4>6, <5>1
        <5> QED
          BY <1>2, <3>1, <3>2, <4>4, <4>5, <4>7, <5>2
    <3>3. CASE x # o
      BY <1>2, <1>10, <3>1, <3>3
    <3> QED
      BY <3>2, <3>3
  <2> QED
    BY <2>1, <2>2
<1>14. NeverOverpaid'
  <2>1. ASSUME NEW x \in Orders PROVE Paid(x)' <= orders[x].total
    <3>1. Paid(x) <= orders[x].total /\ Paid(x) \in Int /\ orders[x].total \in Nat
      BY <1>11 DEF Takings, NeverOverpaid
    <3>2. Paid(x)' = Paid(x) \/ Paid(x)' = Paid(x) + (-p.amount)
      BY <1>10
    <3> QED
      BY <1>5, <3>1, <3>2
  <2> QED
    BY <1>2, <2>1 DEF NeverOverpaid
<1>15. PaidIsCovered'
  BY <1>2, <1>5, <1>10 DEF Takings, PaidIsCovered
<1> QED
  BY <1>10, <1>13, <1>14, <1>15 DEF Takings

\* A slot that is free, and one whose request only goes on, is in order.
LEMMA FreePays == \A t, p, b : PaysIn(FreeSlot, t, p, b)
BY DEF PaysIn, FreeSlot

LEMMA TakingsAnswered ==
  ASSUME TypeOK, Takings, NEW i \in Slots, Answers(i), payments' = payments,
         \A o \in Orders : /\ orders'[o].total = orders[o].total
                           /\ orders[o].voided => orders'[o].voided
                           /\ orders'[o].pay = "paid" /\ ~orders'[o].voided
                                => orders[o].pay = "paid" \/ Paid(o) = orders[o].total
  PROVE  Takings'
<1>1. NoneRejected' /\ \A o \in Orders : Paid(o)' = Paid(o)
  BY PaidSame DEF Takings, NoneRejected
<1> QED
  BY <1>1, FreePays, TakingsStay DEF Answers

\* A request goes on with what it has; only its step changes.
LEMMA TakingsGo ==
  ASSUME TypeOK, Takings, NEW i \in Slots, NEW pc, Goes(i, pc),
         NoneRejected', \A o \in Orders : Paid(o)' = Paid(o),
         \A o \in Orders : /\ orders'[o].total = orders[o].total
                           /\ orders[o].voided => orders'[o].voided
                           /\ orders'[o].pay = "paid" /\ ~orders'[o].voided
                                => orders[o].pay = "paid" \/ Paid(o) = orders[o].total,
         pc # "store",
         pc = "insert" /\ req[i].op = "record"
           => Paid(req[i].order) + req[i].amount <= req[i].total,
         pc \in {"give", "given", "tally"}
           => \A o \in Orders : req[i].order = o => orders'[o].voided
  PROVE  Takings'
<1> DEFINE r == req[i]
           s == WithPc(r, pc)
<1>1. r \in Request
  BY DEF TypeOK
<1>2. /\ s.op = r.op /\ s.order = r.order /\ s.total = r.total /\ s.amount = r.amount
      /\ s.todo = r.todo /\ s.pc = pc
  BY <1>1, KeepsRest
<1>3. req' = [req EXCEPT ![i] = s]
  BY DEF Goes, WithPc
<1> HIDE DEF s
<1>4. ASSUME NEW o \in Orders, s.order = o
      PROVE  PaysIn(s, orders[o].total, Paid(o), orders'[o].voided)
  <2>1. PaysIn(r, orders[o].total, Paid(o), orders[o].voided)
    BY <1>2, <1>4 DEF Takings
  <2> QED
    BY <1>2, <1>4, <2>1 DEF PaysIn
<1> QED
  BY <1>3, <1>4, TakingsStay

\* The steps of a payment before its row and after it.
LEMMA RecordTakes ==
  ASSUME Ops \subseteq ClaimOps, TypeOK, OneClaim, Takings, NEW i \in Slots,
         Takes(i), ~InsertsPayment(i)
  PROVE  Takings'
<1> DEFINE r == req[i]
<1>1. r \in Request /\ InItsHandler(r) /\ orders \in [Orders -> Order]
  BY DEF TypeOK
<1>2. payments' = payments
  BY DEF Takes, TillGate, Claims, ChecksOverpayment, ReleasesClaim, ChecksDuplicate,
         Finishes, book
<1>3. NoneRejected' /\ \A o \in Orders : Paid(o)' = Paid(o)
  BY <1>2, PaidSame DEF Takings, NoneRejected
<1>4. CASE orders' = orders /\ Answers(i)
  BY <1>2, <1>4, TakingsAnswered
<1>5. CASE orders' = orders /\ \E pc \in {"claim", "known"} : Goes(i, pc)
  <2>1. PICK pc \in {"claim", "known"} : Goes(i, pc)
    BY <1>5
  <2> QED
    BY <1>3, <1>5, <2>1, TakingsGo
<1>6. CASE /\ Claims(i) /\ Goes(i, "check")
           /\ orders' = [orders EXCEPT ![r.order].pay = "verifying"]
  <2>1. r.order \in Orders /\ Goes(i, "check")
        /\ orders' = [orders EXCEPT ![r.order].pay = "verifying"]
    BY <1>1, <1>6 DEF Claims, At, InItsHandler
  <2>2. \A x \in Order : LET y == [x EXCEPT !.pay = "verifying"]
                         IN y.total = x.total /\ y.voided = x.voided /\ y.pay = "verifying"
    BY Zenon DEF Order
  <2>3. \A o \in Orders : /\ orders'[o].total = orders[o].total
                          /\ orders'[o].voided = orders[o].voided
                          /\ orders'[o].pay \in {orders[o].pay, "verifying"}
    BY <1>1, <2>1, <2>2
  <2> QED
    BY <1>3, <2>1, <2>3, TakingsGo
<1>7. CASE ChecksOverpayment(i)
  <2>1. PICK pc \in {"release", "insert"} :
          Goes(i, pc) /\ (pc = "insert" => ~(r.amount > Outstanding(r)))
    BY <1>7 DEF ChecksOverpayment, AfterRefusal
  <2>2. orders' = orders /\ r.op = "record" /\ r.order \in Orders /\ r.amount \in Nat
        /\ r.total \in Nat
    BY <1>1, <1>7 DEF ChecksOverpayment, At, InItsHandler, book, Request
  <2>3. Paid(r.order) \in Int
    BY <2>2, PaidType
  <2>4. pc = "insert" => Paid(r.order) + r.amount <= r.total
    BY <2>1, <2>2, <2>3 DEF Outstanding
  <2> QED
    BY <1>3, <2>1, <2>2, <2>4, TakingsGo
<1>8. CASE ReleasesClaim(i)
  <2>1. r.order \in Orders /\ Answers(i)
        /\ orders' = [orders EXCEPT ![r.order].pay =
                                      IF @ = "verifying" THEN "unpaid" ELSE @]
    BY <1>1, <1>8 DEF ReleasesClaim, At, InItsHandler
  <2>2. \A x \in Order : \A v : LET y == [x EXCEPT !.pay = v]
                            IN y.total = x.total /\ y.voided = x.voided /\ y.pay = v
    BY Zenon DEF Order
  <2>3. PICK v : /\ v \in {orders[r.order].pay, "unpaid"}
                 /\ orders' = [orders EXCEPT ![r.order].pay = v]
    BY <2>1
  <2>4. \A o \in Orders : /\ orders'[o].total = orders[o].total
                          /\ orders'[o].voided = orders[o].voided
                          /\ orders'[o].pay \in {orders[o].pay, "unpaid"}
    BY <1>1, <2>1, <2>2, <2>3
  <2> QED
    BY <1>2, <2>1, <2>4, TakingsAnswered
<1>9. ASSUME ChecksDuplicate(i) PROVE FALSE
  BY <1>1, <1>9 DEF ChecksDuplicate, At, InItsHandler, ClaimOps
<1> QED
  BY <1>4, <1>5, <1>6, <1>7, <1>8, <1>9
     DEF Takes, TillGate, PassesTill, Claims, Finishes, book

\* The refresh: what it stores is what the rows add up to, unless the order is void.
LEMMA RefreshTakes ==
  ASSUME Ops \subseteq ClaimOps, TypeOK, OneClaim, Takings, NEW i \in Slots, Refreshes(i)
  PROVE  Takings'
<1>0. PICK o : o = req[i].order
  OBVIOUS
<1> DEFINE r == req[i]
<1>1. r \in Request /\ InItsHandler(r) /\ orders \in [Orders -> Order]
  BY DEF TypeOK
<1>2. r.op = "record" /\ o \in Orders
  BY <1>0, <1>1 DEF Refreshes, ReadsOrder, ReadsRows, StoresStatus, At, InItsHandler, ClaimOps
<1>3. payments' = payments
  BY DEF Refreshes, ReadsOrder, ReadsRows, StoresStatus, book
<1>4. NoneRejected' /\ \A x \in Orders : Paid(x)' = Paid(x)
  BY <1>3, PaidSame DEF Takings, NoneRejected
<1>5. PaysIn(r, orders[o].total, Paid(o), orders[o].voided)
  BY <1>0, <1>2 DEF Takings
<1>6. CASE ReadsOrder(i)
  <2> DEFINE s == WithRead(r, "sum", orders[o].total, orders[o].paidAt)
  <2>1. req' = [req EXCEPT ![i] = s] /\ orders' = orders
    BY <1>0, <1>6 DEF ReadsOrder, WithRead, book
  <2>2. s.op = r.op /\ s.order = r.order /\ s.total = orders[o].total
        /\ s.todo = r.todo /\ s.pc = "sum"
    BY <1>1, Zenon DEF WithRead, Request
  <2> HIDE DEF s
  <2>3. PaysIn(s, orders[o].total, Paid(o), orders[o].voided)
    BY <1>5, <2>2 DEF PaysIn
  <2> QED
    BY <1>0, <1>4, <2>1, <2>2, <2>3, TakingsStay
<1>7. CASE ReadsRows(i)
  <2> DEFINE s == WithStatus(r, "store", PayStatus(r.total, Paid(o)))
  <2>1. req' = [req EXCEPT ![i] = s] /\ orders' = orders
    BY <1>0, <1>7 DEF ReadsRows, WithStatus, book
  <2>2. s.op = r.op /\ s.order = r.order /\ s.total = r.total
        /\ s.todo = r.todo /\ s.pc = "store" /\ s.status = PayStatus(r.total, Paid(o))
    BY <1>1, Zenon DEF WithStatus, Request
  <2> HIDE DEF s
  <2>3. PaysIn(s, orders[o].total, Paid(o), orders[o].voided)
    BY <1>2, <1>5, <2>2 DEF PaysIn
  <2> QED
    BY <1>0, <1>4, <2>1, <2>2, <2>3, TakingsStay
<1>8. CASE StoresStatus(i)
  <2>1. r.pc = "store" /\ Goes(i, "end")
        /\ orders' = [orders EXCEPT ![o].pay = r.status, ![o].paidAt = PaidAt(r)]
    BY <1>0, <1>8 DEF StoresStatus, At
  <2>2. \A x \in Order : \A v, w :
          LET y == [x EXCEPT !.pay = v, !.paidAt = w]
          IN y.total = x.total /\ y.voided = x.voided /\ y.pay = v
    BY Zenon DEF Order
  <2>3. \A x \in Orders : /\ orders'[x].total = orders[x].total
                          /\ orders'[x].voided = orders[x].voided
                          /\ orders'[x].pay = IF x = o THEN r.status ELSE orders[x].pay
    BY <1>1, <1>2, <2>1, <2>2
  <2>4. r.status = "paid" /\ ~orders[o].voided => Paid(o) = orders[o].total
    BY <1>2, <1>5, <2>1, PaidType DEF PaysIn, PayStatus
  <2> QED
    BY <1>4, <2>1, <2>3, <2>4, TakingsGo
<1> QED
  BY <1>6, <1>7, <1>8 DEF Refreshes

\* A void reads the rows to give back, and cancels the order before it gives any.
LEMMA VoidTakes ==
  ASSUME TypeOK, Takings, NEW i \in Slots, Voids(i), ~GivesBack(i)
  PROVE  Takings'
<1>0. PICK o : o = req[i].order
  OBVIOUS
<1> DEFINE r == req[i]
<1>1. r \in Request /\ InItsHandler(r) /\ orders \in [Orders -> Order]
  BY DEF TypeOK
<1>2. r.op = "void" \/ VoidEnds(i)
  BY <1>1 DEF Voids, VoidReads, Cancels, MarksGiven, TalliesGiven, At, InItsHandler
<1>3. r.op = "void" => o \in Orders /\ PaysIn(r, orders[o].total, Paid(o), orders[o].voided)
  BY <1>0, <1>1 DEF InItsHandler, Takings
<1>4. ASSUME payments' = payments
      PROVE  NoneRejected' /\ \A x \in Orders : Paid(x)' = Paid(x)
  BY <1>4, PaidSame DEF Takings, NoneRejected
<1>5. CASE VoidReads(i)
  <2> DEFINE s == WithTodo(r, "cancel", GivenBack(o))
  <2>1. /\ req' = [req EXCEPT ![i] = s] /\ orders' = orders /\ payments' = payments
        /\ r.op = "void"
    BY <1>0, <1>1, <1>5 DEF VoidReads, WithTodo, book, At, InItsHandler
  <2>2. s.op = r.op /\ s.order = r.order /\ s.todo = GivenBack(o) /\ s.pc = "cancel"
    BY <1>1, Zenon DEF WithTodo, Request
  <2>3. \A p \in GivenBack(o) : p.amount > 0
    BY DEF GivenBack
  <2> HIDE DEF s
  <2>4. PaysIn(s, orders[o].total, Paid(o), orders[o].voided)
    BY <1>3, <2>1, <2>2, <2>3 DEF PaysIn
  <2> QED
    BY <1>0, <1>4, <2>1, <2>2, <2>4, TakingsStay
<1>6. CASE Cancels(i)
  <2>1. /\ orders' = [orders EXCEPT ![o].voided = TRUE] /\ Goes(i, "give")
        /\ payments' = payments /\ r.op = "void"
    BY <1>0, <1>1, <1>6 DEF Cancels, At, InItsHandler
  <2>2. \A x \in Order : LET y == [x EXCEPT !.voided = TRUE]
                         IN y.total = x.total /\ y.voided = TRUE /\ y.pay = x.pay
    BY Zenon DEF Order
  <2>3. \A x \in Orders : /\ orders'[x].total = orders[x].total
                          /\ orders'[x].voided = (x = o \/ orders[x].voided)
                          /\ orders'[x].pay = orders[x].pay
    <3>1. \A x \in Orders : orders[x] \in Order /\ orders[x].voided \in BOOLEAN
      BY <1>1 DEF Order
    <3> QED
      BY <1>1, <1>3, <2>1, <2>2, <3>1
  <2> QED
    BY <1>0, <1>4, <2>1, <2>3, TakingsGo
<1>7. CASE MarksGiven(i)
  <2>1. payments' = Marked(payments, r.row, "refunded") /\ Goes(i, "tally")
        /\ orders' = orders /\ r.pc = "given" /\ r.op = "void"
    BY <1>1, <1>7 DEF MarksGiven, Marked, At, InItsHandler
  <2>2. NoneRejected' /\ \A x \in Orders : Paid(x)' = Paid(x)
    BY <2>1, PaidMarked DEF Takings
  <2>3. orders[o].voided
    BY <1>3, <2>1 DEF PaysIn
  <2> QED
    BY <1>0, <2>1, <2>2, <2>3, TakingsGo
<1>8. CASE TalliesGiven(i)
  <2> DEFINE s == WithDue(r, "give", 0)
  <2>1. /\ req' = [req EXCEPT ![i] = s] /\ orders' = orders /\ payments' = payments
        /\ r.op = "void" /\ r.pc = "tally"
    BY <1>1, <1>8 DEF TalliesGiven, WithDue, book, At, InItsHandler
  <2>2. s.op = r.op /\ s.order = r.order /\ s.todo = r.todo /\ s.pc = "give"
    BY <1>1, Zenon DEF WithDue, Request
  <2> HIDE DEF s
  <2>3. PaysIn(s, orders[o].total, Paid(o), orders[o].voided)
    BY <1>3, <2>1, <2>2 DEF PaysIn
  <2> QED
    BY <1>0, <1>4, <2>1, <2>2, <2>3, TakingsStay
<1>9. CASE VoidEnds(i)
  BY <1>9, TakingsAnswered DEF VoidEnds, book
<1> QED
  BY <1>5, <1>6, <1>7, <1>8, <1>9 DEF Voids

\* What arrives has read the total, and nothing else yet.
LEMMA ArrivesTakes ==
  ASSUME Ops \subseteq ClaimOps, TypeOK, Takings, NEW i \in Slots, Arrivals(i)
  PROVE  Takings'
<1>1. UNCHANGED <<book, drawers, deferred, untallied, faults>>
  BY ArrivalsMove
<1>2. ASSUME NEW r, Arrives(i, r),
             \A o \in Orders : r.order = o => PaysIn(r, orders[o].total, Paid(o), orders[o].voided)
      PROVE  Takings'
  <2>1. NoneRejected' /\ \A o \in Orders : Paid(o)' = Paid(o)
    BY <1>1, PaidSame DEF Takings, NoneRejected, book
  <2>2. req' = [req EXCEPT ![i] = r] /\ orders' = orders
    BY <1>1, <1>2 DEF Arrives, book
  <2> QED
    BY <1>2, <2>1, <2>2, TakingsStay
<1>3. CASE RecordArrives(i)
  <2>1. PICK o \in Orders, a \in Amounts, c \in BOOLEAN :
          Arrives(i, [FreeSlot EXCEPT !.op = "record", !.pc = "till", !.order = o,
                                 !.amount = a, !.cash = c, !.total = orders[o].total])
    BY <1>3 DEF RecordArrives
  <2> DEFINE r == [FreeSlot EXCEPT !.op = "record", !.pc = "till", !.order = o,
                                 !.amount = a, !.cash = c, !.total = orders[o].total]
  <2>2. r.order = o /\ r.total = orders[o].total /\ r.todo = {} /\ r.pc = "till"
    BY DEF FreeSlot
  <2>3. Arrives(i, r)
    BY <2>1
  <2> HIDE DEF r
  <2> QED
    BY <1>2, <2>2, <2>3 DEF PaysIn
<1>4. CASE VoidArrives(i)
  <2>1. PICK o \in Orders :
          Arrives(i, [FreeSlot EXCEPT !.op = "void", !.pc = "rows", !.order = o])
    BY <1>4 DEF VoidArrives
  <2> DEFINE r == [FreeSlot EXCEPT !.op = "void", !.pc = "rows", !.order = o]
  <2>2. r.op = "void" /\ r.todo = {} /\ r.pc = "rows" /\ Arrives(i, r)
    BY <2>1 DEF FreeSlot
  <2> HIDE DEF r
  <2> QED
    BY <1>2, <2>2 DEF PaysIn
<1>5. CASE CloseArrives(i) \/ MoveArrives(i)
  <2>1. \E r : Arrives(i, r) /\ r.op # "record" /\ r.todo = {} /\ r.pc \in {"count", "move"}
    <3>1. CASE CloseArrives(i)
      <4>1. PICK d : Arrives(i, [FreeSlot EXCEPT !.op = "close", !.pc = "count", !.drawer = d,
                              !.amount = Ledger(d)])
        BY <3>1 DEF CloseArrives
      <4> DEFINE r == [FreeSlot EXCEPT !.op = "close", !.pc = "count", !.drawer = d,
                              !.amount = Ledger(d)]
      <4>2. r.op = "close" /\ r.todo = {} /\ r.pc = "count"
        BY DEF FreeSlot
      <4> QED
        BY <4>1, <4>2
    <3>2. CASE MoveArrives(i)
      <4>1. PICK op \in {"paidin", "paidout"}, a \in Amounts, d \in Newest(OpenDrawers) :
              Arrives(i, [FreeSlot EXCEPT !.op = op, !.pc = "move", !.amount = a, !.drawer = d])
        BY <3>2 DEF MoveArrives
      <4> DEFINE r == [FreeSlot EXCEPT !.op = op, !.pc = "move", !.amount = a, !.drawer = d]
      <4>2. r.op \in {"paidin", "paidout"} /\ r.todo = {} /\ r.pc = "move"
        BY DEF FreeSlot
      <4> QED
        BY <4>1, <4>2
    <3> QED
      BY <1>5, <3>1, <3>2
  <2> QED
    BY <1>2, <2>1 DEF PaysIn
<1>6. ASSUME SettleArrives(i) \/ VerifyArrives(i) \/ RefundArrives(i) \/ AmendArrives(i)
      PROVE  FALSE
  BY <1>6 DEF SettleArrives, VerifyArrives, RefundArrives, AmendArrives, Arrives, ClaimOps,
              FreeSlot
<1> QED
  BY <1>3, <1>4, <1>5, <1>6 DEF Arrivals

\* A request cut off, a void's loop that stumbles, a till that cannot be read.
LEMMA FailsTakes ==
  ASSUME TypeOK, Takings, NEW i \in Slots, Dies(i) \/ Stumbles(i) \/ ProbeFails(i)
  PROVE  Takings'
<1>0. PICK o : o = req[i].order
  OBVIOUS
<1> DEFINE r == req[i]
<1>1. r \in Request /\ InItsHandler(r)
  BY DEF TypeOK
<1>2. orders' = orders /\ payments' = payments
  BY DEF Dies, Stumbles, ProbeFails, book
<1>3. NoneRejected' /\ \A x \in Orders : Paid(x)' = Paid(x)
  BY <1>2, PaidSame DEF Takings, NoneRejected
<1>4. CASE Dies(i)
  BY <1>2, <1>4, TakingsAnswered DEF Dies
<1>5. CASE ProbeFails(i)
  <2>1. PICK pc \in {"claim", "known"} : Goes(i, pc)
    BY <1>5 DEF ProbeFails, PassesTill
  <2> QED
    BY <1>2, <1>3, <2>1, TakingsGo
<1>6. CASE Stumbles(i)
  <2>1. /\ r.op = "void" /\ o \in Orders /\ r.pc \in {"give", "given", "tally"}
        /\ PaysIn(r, orders[o].total, Paid(o), orders[o].voided)
    BY <1>0, <1>1, <1>6 DEF Stumbles, At, InItsHandler, Takings
  <2>2. PICK s : /\ req' = [req EXCEPT ![i] = s] /\ s.op = "void" /\ s.order = o
                 /\ s.todo \subseteq r.todo /\ s.pc = "give"
    <3>1. CASE At(i, "give") /\ \E p \in r.todo : req' = [req EXCEPT ![i].todo = @ \ {p}]
      <4>1. PICK p : req' = [req EXCEPT ![i] = [r EXCEPT !.todo = @ \ {p}]]
        BY <3>1
      <4> DEFINE s == [r EXCEPT !.todo = @ \ {p}]
      <4>2. s.op = r.op /\ s.order = r.order /\ s.pc = r.pc /\ s.todo = r.todo \ {p}
        BY <1>1, Zenon DEF Request
      <4> QED
        BY <1>0, <2>1, <3>1, <4>1, <4>2 DEF At
    <3>2. CASE req' = [req EXCEPT ![i].pc = "give", ![i].due = 0]
      <4> DEFINE s == WithDue(r, "give", 0)
      <4>1. req' = [req EXCEPT ![i] = s]
        BY <3>2 DEF WithDue
      <4>2. s.op = r.op /\ s.order = r.order /\ s.todo = r.todo /\ s.pc = "give"
        BY <1>1, Zenon DEF WithDue, Request
      <4> QED
        BY <1>0, <2>1, <4>1, <4>2
    <3> QED
      BY <1>6, <3>1, <3>2 DEF Stumbles
  <2>3. PaysIn(s, orders[o].total, Paid(o), orders[o].voided)
    BY <2>1, <2>2 DEF PaysIn
  <2> QED
    BY <1>2, <1>3, <2>2, <2>3, TakingsStay
<1> QED
  BY <1>4, <1>5, <1>6

LEMMA TakingsInit == Init => Takings
<1> SUFFICES ASSUME Init PROVE Takings
  OBVIOUS
<1>1. TypeOK
  BY InitType
<1>2. payments = <<>> /\ \A i \in Slots : req[i] = FreeSlot
  BY DEF Init
<1>3. \A o \in Orders : Paid(o) = 0
  <2>1. \A o \in Orders : PaidRows(o) = {}
    BY <1>2 DEF PaidRows, RowsOf
  <2> QED
    BY <1>1, <2>1, PaidType, SumEmpty
<1>4. NoneRejected
  BY <1>2 DEF NoneRejected
<1>5. NeverOverpaid
  <2>1. \A o \in Orders : orders[o].total \in Totals
    BY <1>1 DEF TypeOK, Order
  <2>2. \A t \in Totals : t \in Nat
    BY AmountsAssumption
  <2> QED
    BY <1>3, <2>1, <2>2 DEF NeverOverpaid
<1>6. PaidIsCovered
  <2>1. \A o \in Orders : orders[o].pay = "unpaid"
    BY DEF Init
  <2> QED
    BY <2>1 DEF PaidIsCovered
<1> QED
  BY <1>2, <1>4, <1>5, <1>6, FreePays DEF Takings

LEMMA TakingsNext ==
  ASSUME Ops \subseteq ClaimOps, TypeOK, OneClaim, Takings, [Next]_vars
  PROVE  Takings'
<1>1. CASE \E i \in Slots : Arrivals(i)
  BY <1>1, ArrivesTakes
<1>2. CASE \E i \in Slots : Dies(i) \/ Stumbles(i) \/ ProbeFails(i)
  BY <1>2, FailsTakes
<1>3. CASE \E i \in Slots : Step(i)
  <2>1. PICK i \in Slots : Step(i)
    BY <1>3
  <2>2. req[i] \in Request /\ InItsHandler(req[i])
    BY DEF TypeOK
  <2>3. ~(InsertsRefund(i) \/ MarksRow(i) \/ WritesTotal(i))
    BY <2>2 DEF InsertsRefund, MarksRow, WritesTotal, At, InItsHandler, ClaimOps
  <2>4. CASE Closes(i) \/ Moves(i)
    BY <2>4, TakingsAnswered DEF Closes, Moves, book
  <2> QED
    BY <2>1, <2>3, <2>4, RecordTakes, InsertTakes, RefreshTakes, VoidTakes, GiveTakes
       DEF Step, Takes, Voids
<1>4. CASE UNCHANGED <<book, req>>
  BY <1>4, PaidSame DEF book, Takings, NoneRejected, NeverOverpaid, PaidIsCovered
<1>5. CASE Opens \/ \E t \in deferred : TalliesLater(t) \/ Reaps(t)
  BY <1>4, <1>5 DEF Opens, TalliesLater, Reaps
<1> QED
  BY <1>1, <1>2, <1>3, <1>4, <1>5 DEF Next, Fails, vars

\* The claim, the types and the takings, kept together.
LEMMA TakingsAlways ==
  ASSUME Ops \subseteq ClaimOps
  PROVE  Spec => []Takings
<1>1. Init => Takings
  BY TakingsInit
<1>2. TypeOK /\ OneClaim /\ Takings /\ [Next]_vars => Takings'
  BY TakingsNext
<1>3. Spec => []TypeOK
  BY TypeCorrect
<1>4. Spec => []OneClaim
  BY ClaimIsExclusive
<1> QED
  BY <1>1, <1>2, <1>3, <1>4, PTL DEF Spec

\* No order takes more than it costs, however many cashiers try at once, whatever
\* was paid before and wherever a request dies (recordPayment's check behind its
\* claim), while payments and voids are what touches the order.
THEOREM NothingOverpaid ==
  ASSUME Ops \subseteq ClaimOps
  PROVE  Spec => []NeverOverpaid
<1>1. Takings => NeverOverpaid
  BY DEF Takings
<1> QED
  BY <1>1, TakingsAlways, PTL

\* An order that is marked paid, and is not void, has taken what it costs
\* (refreshPaymentStatus), under the same condition.
THEOREM PaidMeansPaid ==
  ASSUME Ops \subseteq ClaimOps
  PROVE  Spec => []PaidIsCovered
<1>1. Takings => PaidIsCovered
  BY DEF Takings
<1> QED
  BY <1>1, TakingsAlways, PTL

=============================================================================
