---------------------------- MODULE StockProofs ----------------------------
(***************************************************************************)
(* What is proved of the stock ledger.  The types come first: what a step  *)
(* makes of the request it is a step of is stated once for every action,   *)
(* and everything after that is about those requests.                      *)
(***************************************************************************)
EXTENDS Stock, SequenceTheorems, SumProofs

-----------------------------------------------------------------------------
(* Types.                                                                  *)

MoveTypes == {"sale", "void_reversal", "adjustment", "count", "waste", "purchase"}

Refs    == [kind : {"none", "orders", "purchases"}, id : Nat]
Move    == [item : Items, qty : Int, type : MoveTypes, ref : Refs]
Share   == [row : Nat, lot : Nat, qty : Int]
Row     == [item : Items, qty : Int, type : MoveTypes, ref : Refs, alloc : SUBSET Share]
LotRow  == [item : Items, expiry : Nat, received : Nat, left : Int]
Counted == [item : Items, qty : Nat]

Request == [op : AllOps \cup {"none"}, pc : Pcs, ref : Refs, arg : Nat, expiry : Nat,
            sheet : Seq(Counted), todo : Seq(Move), cur : Int,
            shares : SUBSET Share, alloc : SUBSET Share, left : Int]

\* The movements a request of each kind has still to post.
MoveFits(r, m) ==
  /\ m.ref = r.ref
  /\ r.op = "consume"  => m.type = "sale" /\ m.qty < 0
  /\ r.op = "void"     => m.type = "void_reversal"
  /\ r.op = "unbuy"    => m.type = "void_reversal" /\ m.qty < 0
  /\ r.op = "purchase" => m.type = "purchase" /\ m.qty > 0
  /\ r.op \in {"adjust", "count", "waste"} => m.type \in {"adjustment", "count", "waste"}

\* What it is about.
RefFits(r) ==
  /\ r.op \in {"consume", "void"} => r.ref.kind = "orders" /\ r.ref.id \in Orders
  /\ r.op = "unbuy" => r.ref.kind = "purchases"
  /\ r.op = "purchase" => r.ref.kind \in {"none", "purchases"}
  /\ r.op \in {"adjust", "count", "waste", "none"} => r.ref = NoRef

\* Where it may be, and what it holds there.
PcFits(r) ==
  /\ (r.pc = "free") <=> (r.op = "none")
  /\ r.pc \in {"post"} \cup Posting => r.todo # <<>>
  /\ r.pc = "weigh" => r.sheet # <<>> /\ r.todo = <<>>
  /\ r.sheet # <<>> => r.op = "count"
  /\ r.pc \in {"claim", "snapshot", "reopen"} => r.op = "consume" /\ r.todo = <<>>
  /\ r.pc \in {"cancel", "sales"} => r.op = "void" /\ r.todo = <<>>
  /\ r.pc = "already" => r.op = "void"
  /\ r.pc = "bill" => r.op = "purchase" /\ Len(r.todo) = 1
  /\ r.op = "purchase" /\ r.pc # "bill" => r.ref.kind = "purchases"
  /\ r.pc = "shelve" => r.op = "purchase" /\ r.todo = <<>>
  /\ r.pc = "bought" => r.op = "unbuy" /\ r.todo = <<>>
  /\ r.pc = "close" => r.op \in {"void", "unbuy"} /\ r.todo = <<>>
  /\ r.pc \notin {"share", "write"} => r.shares = {}
  /\ r.pc \notin {"share", "write", "insert"} => r.alloc = {}
  /\ r.pc \in {"share", "write"} => r.shares # {}
  /\ r.op = "none" => r.todo = <<>>

Fits(r) == /\ PcFits(r) /\ RefFits(r)
           /\ \A k \in DOMAIN r.todo : MoveFits(r, r.todo[k])

TypeOK ==
  /\ stock \in [Items -> Int]
  /\ moves \in Seq(Row)
  /\ lots \in Seq(LotRow)
  /\ orders \in [Orders -> [consumed : BOOLEAN, voided : BOOLEAN]]
  /\ purchases \in Seq(BOOLEAN)
  /\ req \in [Slots -> Request] /\ \A i \in Slots : Fits(req[i])
  /\ \A n \in DOMAIN moves : moves[n].type = "purchase" => moves[n].qty > 0
  /\ started \in Nat /\ faults \in Nat
  /\ disturbed \subseteq Items /\ troubled \subseteq Refs

\* Every share is of a batch there is.
Known ==
  /\ \A n \in DOMAIN moves : \A s \in moves[n].alloc : s.lot \in DOMAIN lots
  /\ \A i \in Slots : \A s \in req[i].alloc \cup req[i].shares : s.lot \in DOMAIN lots

\* The item a slot is posting a movement of.
Posts(i, x) == req[i].pc \in Posting /\ Posted(i).item = x

\* Where postings of an item neither overlapped nor were cut short, one request at most is
\* posting a movement of it, and what it read is the stock.
Alone == \A x \in Items \ disturbed : \A i \in Slots : Posts(i, x) =>
  /\ req[i].cur = stock[x]
  /\ \A j \in Slots \ {i} : ~Posts(j, x)

Clean(b) == lots[b].item \notin disturbed /\ ~GivenBack(b)

\* The shares a request holds are of its item and each of another batch.  A draw takes no
\* more than a clean batch has, and what was read of the next one still stands; only what
\* was drawn for an order that is voided since is put back.
SharedOf(r) ==
  /\ \A s \in r.alloc : s.row = 0 /\ lots[s.lot].item = Head(r.todo).item
  /\ \A s, t \in r.alloc : s.lot = t.lot => s = t
  /\ r.pc \in {"share", "write"} =>
       /\ Head(r.todo).qty < 0 =>
            /\ r.shares \subseteq r.alloc
            /\ \A s \in r.shares : Clean(s.lot) =>
                 /\ s.qty <= lots[s.lot].left
                 /\ r.pc = "write" /\ s \in Foremost(r.shares) => r.left = lots[s.lot].left
       /\ ~(Head(r.todo).qty < 0) => \A s \in r.shares : GivenBack(s.lot)

Shared == \A i \in Slots : SharedOf(req[i])

\* Rows are about orders there are, and record finitely many shares.
Recordable ==
  /\ \A n \in DOMAIN moves : /\ moves[n].ref.kind = "orders" => moves[n].ref.id \in Orders
                             /\ IsFiniteSet(moves[n].alloc)
  /\ \A i \in Slots : IsFiniteSet(req[i].alloc)

\* A void past its UPDATE has the order voided.
VoidsWritten == \A i \in Slots :
  req[i].op = "void" /\ req[i].pc # "cancel" => orders[req[i].ref.id].voided

-----------------------------------------------------------------------------
(* What a step makes of the request it is a step of.                       *)

\* What a request is about does not change while it is served.
Alike(s, r) == s.op = r.op /\ s.ref = r.ref /\ s.arg = r.arg /\ s.expiry = r.expiry

\* The rest of a request.
Becomes(s, pc, sheet, todo, cur, shares, alloc, left) ==
  /\ s.pc = pc /\ s.sheet = sheet /\ s.todo = todo /\ s.cur = cur
  /\ s.shares = shares /\ s.alloc = alloc /\ s.left = left

LEMMA PcsAre ==
  \A pc \in {"free", "claim", "bill", "bought", "cancel", "sales", "already", "weigh",
        "post", "batch", "share", "write", "insert", "set", "snapshot", "shelve", "reopen",
        "close"} : pc \in Pcs
BY DEF Pcs

LEMMA EmptyTodo == <<>> \in Seq(Move) /\ <<>> \in Seq(Counted)
OBVIOUS

LEMMA FreeIs ==
  /\ FreeSlot \in Request /\ Fits(FreeSlot)
  /\ FreeSlot.op = "none" /\ FreeSlot.ref = NoRef
  /\ Becomes(FreeSlot, "free", <<>>, <<>>, 0, {}, {}, 0)
BY EmptyTodo, PcsAre DEF FreeSlot, Request, Becomes, Fits, PcFits, RefFits, MoveFits, NoRef,
   Refs, Posting

LEMMA Kept ==
  ASSUME TypeOK, NEW i \in Slots
  PROVE  /\ req[i] \in Request /\ Fits(req[i]) /\ PcFits(req[i]) /\ RefFits(req[i])
         /\ req[i].pc \in Pcs /\ req[i].todo \in Seq(Move) /\ req[i].sheet \in Seq(Counted)
         /\ req[i].shares \subseteq Share /\ req[i].alloc \subseteq Share
         /\ req[i].cur \in Int /\ req[i].left \in Int /\ req[i].ref \in Refs
         /\ req[i].arg \in Nat /\ req[i].expiry \in Nat
BY DEF TypeOK, Request, Fits

LEMMA PostedIs ==
  ASSUME TypeOK, NEW i \in Slots, req[i].todo # <<>>
  PROVE  /\ Posted(i) \in Move /\ MoveFits(req[i], Posted(i))
         /\ Posted(i) = req[i].todo[1]
<1>1. req[i].todo \in Seq(Move)
  BY Kept
<1>2. Posted(i) = req[i].todo[1] /\ 1 \in DOMAIN req[i].todo
  BY <1>1 DEF Posted
<1> QED
  BY <1>1, <1>2 DEF TypeOK, Fits

LEMMA TailIs ==
  ASSUME NEW S, NEW q \in Seq(S), q # <<>>
  PROVE  /\ Tail(q) \in Seq(S)
         /\ \A k \in DOMAIN Tail(q) : k + 1 \in DOMAIN q /\ Tail(q)[k] = q[k + 1]
OBVIOUS

\* Other requests are left alone.
LEMMA GoesOne ==
  ASSUME TypeOK, NEW i \in Slots, NEW s, Goes(i, s)
  PROVE  req'[i] = s /\ \A j \in Slots \ {i} : req'[j] = req[j]
BY DEF TypeOK, Goes

LEMMA GoesType ==
  ASSUME TypeOK, NEW i \in Slots, NEW s \in Request, Fits(s), Goes(i, s)
  PROVE  req' \in [Slots -> Request] /\ \A j \in Slots : Fits(req'[j])
BY DEF TypeOK, Goes

LEMMA ReadsItemDoes ==
  ASSUME TypeOK, NEW i \in Slots, ReadsItem(i)
  PROVE  LET r == req[i] IN
         \E s \in Request : /\ Goes(i, s) /\ Alike(s, r)
                           /\ Becomes(s, "batch", r.sheet, r.todo, stock[Posted(i).item],
                                      {}, {}, r.left)
                           /\ r.pc = "post" /\ r.todo # <<>>
<1> DEFINE r == req[i]
           c == stock[Posted(i).item]
           s == [r EXCEPT !.pc = "batch", !.cur = c]
<1>1. r.pc = "post" /\ r.todo # <<>> /\ r \in Request /\ r.shares = {} /\ r.alloc = {}
  BY Kept DEF ReadsItem, At, PcFits
<1>2. c \in Int
  BY <1>1, PostedIs DEF TypeOK, Move
<1>3. s \in Request /\ Alike(s, r) /\ Becomes(s, "batch", r.sheet, r.todo, c, r.shares, r.alloc, r.left)
  BY <1>1, <1>2, PcsAre, Zenon DEF Request, Alike, Becomes
<1>4. Goes(i, s)
  BY DEF ReadsItem
<1> QED
  BY <1>1, <1>3, <1>4

LEMMA LeastIs ==
  \A a, b \in Int : Least(a, b) \in Int /\ Least(a, b) <= a /\ Least(a, b) <= b
BY DEF Least

LEMMA GreatestIs ==
  \A a, b \in Int : Greatest(a, b) \in Int /\ (a <= b => Greatest(a, b) = b)
BY DEF Greatest

\* A draw takes from the batches of its item, from each once and no more than it has.
LEMMA AllocateIs ==
  ASSUME TypeOK, NEW item, NEW need \in Int
  PROVE  /\ \A s \in AllocateFEFO(item, need) :
              /\ s \in Share /\ s.row = 0
              /\ s.lot \in DOMAIN lots /\ lots[s.lot].item = item
              /\ s.qty <= lots[s.lot].left
         /\ \A s, t \in AllocateFEFO(item, need) : s.lot = t.lot => s = t
<1> DEFINE open == OpenLots(item)
           leftIn == [c \in open |-> lots[c].left]
           prior(b) == SumOver(leftIn, {c \in open : Before(c, b)})
           part(b) == [row |-> 0, lot |-> b, qty |-> Least(lots[b].left, need - prior(b))]
<1>1. AllocateFEFO(item, need) = {part(b) : b \in {c \in open : prior(c) < need}}
  BY DEF AllocateFEFO, Allocate
<1>2. /\ DOMAIN lots = 1 .. Len(lots) /\ Len(lots) \in Nat
      /\ \A b \in DOMAIN lots : lots[b] \in LotRow
  BY DEF TypeOK
<1>3. open \in SUBSET (DOMAIN lots) /\ \A b \in open : lots[b].item = item
  BY DEF OpenLots
<1>4. IsFiniteSet(open) /\ \A c \in open : leftIn[c] \in Int
  <2>1. IsFiniteSet(1 .. Len(lots))
    BY <1>2, FS_Interval
  <2>2. IsFiniteSet(open)
    BY <1>2, <1>3, <2>1, FS_Subset
  <2>3. \A c \in open : lots[c].left \in Int
    BY <1>2, <1>3 DEF LotRow
  <2> QED
    BY <2>2, <2>3
<1>5. ASSUME NEW b PROVE prior(b) \in Int
  <2> DEFINE T == {c \in open : Before(c, b)}
  <2>1. IsFiniteSet(T) /\ \A c \in T : leftIn[c] \in Int
    BY <1>4, FS_Subset
  <2> HIDE DEF T, leftIn
  <2>2. SumOver(leftIn, T) \in Int
    BY <2>1, SumType
  <2> QED
    BY <2>2 DEF T
<1> HIDE DEF prior
<1>6. ASSUME NEW b \in open
      PROVE  /\ part(b) \in Share /\ part(b).row = 0 /\ part(b).lot = b
             /\ part(b).qty <= lots[b].left
  <2>1. lots[b].left \in Int /\ need - prior(b) \in Int /\ b \in Nat
    BY <1>2, <1>3, <1>5 DEF LotRow
  <2>2. PICK q \in Int : q = Least(lots[b].left, need - prior(b)) /\ q <= lots[b].left
    BY <2>1, LeastIs
  <2> QED
    BY <2>1, <2>2 DEF Share
<1> HIDE DEF part, open
<1>7. ASSUME NEW s \in AllocateFEFO(item, need)
      PROVE  \E b \in open : s = part(b)
  BY <1>1
<1> QED
  BY <1>3, <1>6, <1>7

LEMMA AllocatedIs ==
  ASSUME TypeOK, NEW ref, NEW s \in Allocated(ref)
  PROVE  /\ s \in Share
         /\ \E n \in RowsOf(ref) : \E t \in moves[n].alloc : t.lot = s.lot
<1>0. PICK n \in RowsOf(ref) : s \in {[t EXCEPT !.row = n] : t \in moves[n].alloc}
  BY DEF Allocated
<1>1. PICK t \in moves[n].alloc : s = [t EXCEPT !.row = n]
  BY <1>0
<1>2. n \in DOMAIN moves /\ moves[n] \in Row /\ n \in Nat
  BY DEF TypeOK, RowsOf
<1>3. t \in Share
  BY <1>2 DEF Row
<1>4. s \in Share /\ s.lot = t.lot
  BY <1>1, <1>2, <1>3 DEF Share
<1> QED
  BY <1>1, <1>4

LEMMA PlanType ==
  ASSUME TypeOK, NEW m \in Move
  PROVE  Plan(m) \in SUBSET Share
<1>1. CASE m.qty < 0
  <2>1. -m.qty \in Int
    BY DEF Move
  <2>2. \A s \in AllocateFEFO(m.item, -m.qty) : s \in Share
    BY <2>1, AllocateIs
  <2>3. Plan(m) = AllocateFEFO(m.item, -m.qty)
    BY <1>1 DEF Plan, Restores, Move
  <2> QED
    BY <2>2, <2>3
<1>2. CASE ~(m.qty < 0)
  BY <1>2, AllocatedIs DEF Plan
<1> QED
  BY <1>1, <1>2

LEMMA PlansBatchesDoes ==
  ASSUME TypeOK, NEW i \in Slots, PlansBatches(i)
  PROVE  LET r == req[i]
             p == Plan(Posted(i)) IN
         \E s \in Request :
           /\ Goes(i, s) /\ Alike(s, r)
           /\ Becomes(s, IF p = {} THEN "insert" ELSE "share", r.sheet, r.todo, r.cur, p,
                      IF Posted(i).qty < 0 THEN p ELSE {}, r.left)
           /\ r.pc = "batch" /\ r.todo # <<>> /\ p \subseteq Share
<1> DEFINE r == req[i]
<1>0. PICK p : p = Plan(Posted(i))
  OBVIOUS
<1>1. PICK a : a = IF Posted(i).qty < 0 THEN p ELSE {}
  OBVIOUS
<1>2. PICK pc : pc = IF p = {} THEN "insert" ELSE "share"
  OBVIOUS
<1> DEFINE s == [r EXCEPT !.pc = pc, !.shares = p, !.alloc = a]
<1>3. r.pc = "batch" /\ r.todo # <<>> /\ r \in Request
  BY Kept DEF PlansBatches, At, PcFits, Posting
<1>4. p \in SUBSET Share /\ a \in SUBSET Share /\ pc \in Pcs
  BY <1>0, <1>1, <1>2, <1>3, PostedIs, PlanType, PcsAre
<1>5. s \in Request /\ Alike(s, r) /\ Becomes(s, pc, r.sheet, r.todo, r.cur, p, a, r.left)
  BY <1>3, <1>4, Zenon DEF Request, Alike, Becomes
<1>6. Goes(i, s)
  BY <1>0, <1>1, <1>2 DEF PlansBatches
<1> QED
  BY <1>0, <1>1, <1>2, <1>3, <1>4, <1>5, <1>6

LEMMA ShareIs ==
  ASSUME TypeOK, NEW i \in Slots, NEW f \in Foremost(req[i].shares)
  PROVE  f \in Share /\ f \in req[i].shares
BY Kept DEF Foremost

LEMMA ReadsBatchDoes ==
  ASSUME TypeOK, NEW i \in Slots, ReadsBatch(i), Known
  PROVE  LET r == req[i] IN
         \E f \in Foremost(r.shares), s \in Request :
           /\ Goes(i, s) /\ Alike(s, r)
           /\ Becomes(s, "write", r.sheet, r.todo, r.cur, r.shares, r.alloc, lots[f.lot].left)
           /\ r.pc = "share" /\ r.todo # <<>>
<1> DEFINE r == req[i]
<1>1. PICK f \in Foremost(r.shares) :
         At(i, "share") /\ Goes(i, [req[i] EXCEPT !.pc = "write", !.left = lots[f.lot].left])
  BY DEF ReadsBatch
<1> DEFINE l == lots[f.lot].left
           s == [r EXCEPT !.pc = "write", !.left = l]
<1>2. r.pc = "share" /\ r.todo # <<>> /\ r \in Request
  BY <1>1, Kept DEF At, PcFits, Posting
<1>3. l \in Int
  <2>1. f \in r.shares
    BY DEF Foremost
  <2>2. lots[f.lot] \in LotRow
    BY <2>1 DEF TypeOK, Known
  <2> QED
    BY <2>2 DEF LotRow
<1>4. s \in Request /\ Alike(s, r) /\ Becomes(s, "write", r.sheet, r.todo, r.cur, r.shares, r.alloc, l)
  BY <1>2, <1>3, PcsAre, Zenon DEF Request, Alike, Becomes
<1> QED
  BY <1>1, <1>2, <1>4

LEMMA WritesBatchDoes ==
  ASSUME TypeOK, NEW i \in Slots, WritesBatch(i)
  PROVE  LET r == req[i] IN
         \E f \in Foremost(r.shares), s \in Request :
           /\ Goes(i, s) /\ Alike(s, r)
           /\ Becomes(s, IF r.shares \ {f} = {} THEN "insert" ELSE "share", r.sheet, r.todo,
                      r.cur, r.shares \ {f}, r.alloc, 0)
           /\ lots' = [lots EXCEPT ![f.lot].left = Left(r.left, f.qty, Restores(Posted(i)))]
           /\ Left(r.left, f.qty, Restores(Posted(i))) \in Int
           /\ r.pc = "write" /\ r.todo # <<>>
<1> DEFINE r == req[i]
<1>1. PICK f \in Foremost(r.shares) :
        /\ At(i, "write")
        /\ lots' = [lots EXCEPT ![f.lot].left = Left(r.left, f.qty, Restores(Posted(i)))]
        /\ Goes(i, [r EXCEPT !.pc = IF r.shares \ {f} = {} THEN "insert" ELSE "share",
                             !.shares = r.shares \ {f}, !.left = 0])
  BY DEF WritesBatch
<1>2. PICK p : p = r.shares \ {f}
  OBVIOUS
<1>3. PICK pc : pc = IF p = {} THEN "insert" ELSE "share"
  OBVIOUS
<1> DEFINE s == [r EXCEPT !.pc = pc, !.shares = p, !.left = 0]
<1>4. r.pc = "write" /\ r.todo # <<>> /\ r \in Request
  BY <1>1, Kept DEF At, PcFits, Posting
<1>5. p \in SUBSET Share /\ pc \in Pcs
  BY <1>2, <1>3, Kept, PcsAre
<1>6. s \in Request /\ Alike(s, r) /\ Becomes(s, pc, r.sheet, r.todo, r.cur, p, r.alloc, 0)
  <2>1. 0 \in Int
    OBVIOUS
  <2> QED
    BY <1>4, <1>5, <2>1, Zenon DEF Request, Alike, Becomes
<1>7. Left(r.left, f.qty, Restores(Posted(i))) \in Int
  <2>1. r.left \in Int /\ f.qty \in Int
    BY Kept, ShareIs DEF Share
  <2>2. r.left + f.qty \in Int /\ r.left - f.qty \in Int /\ 0 \in Int
    BY <2>1
  <2>3. Greatest(0, r.left - f.qty) \in Int
    BY <2>2, GreatestIs
  <2> QED
    BY <2>2, <2>3, Zenon DEF Left
<1> QED
  BY <1>1, <1>2, <1>3, <1>4, <1>6, <1>7

LEMMA RowOfType ==
  ASSUME NEW m \in Move, NEW a \in SUBSET Share
  PROVE  /\ RowOf(m, a) \in Row
         /\ RowOf(m, a).item = m.item /\ RowOf(m, a).qty = m.qty /\ RowOf(m, a).type = m.type
         /\ RowOf(m, a).ref = m.ref /\ RowOf(m, a).alloc = a
BY DEF RowOf, Row, Move

LEMMA InsertsRowDoes ==
  ASSUME TypeOK, NEW i \in Slots, InsertsRow(i)
  PROVE  LET r == req[i] IN
         \E s \in Request : /\ Goes(i, s) /\ Alike(s, r)
                           /\ Becomes(s, "set", r.sheet, r.todo, r.cur, {}, {}, r.left)
                           /\ r.pc = "insert" /\ r.todo # <<>> /\ r.shares = {}
<1> DEFINE r == req[i]
           s == [r EXCEPT !.pc = "set", !.alloc = {}]
<1>1. r.pc = "insert" /\ r.todo # <<>> /\ r \in Request /\ r.shares = {}
  BY Kept DEF InsertsRow, At, PcFits, Posting
<1>2. s \in Request /\ Alike(s, r) /\ Becomes(s, "set", r.sheet, r.todo, r.cur, r.shares, {}, r.left)
  BY <1>1, PcsAre, Zenon DEF Request, Alike, Becomes
<1> QED
  BY <1>1, <1>2 DEF InsertsRow

\* Where a request is once it continues as r.
Onward(s, r) ==
  \/ /\ Alike(s, r) /\ Becomes(s, s.pc, r.sheet, r.todo, r.cur, r.shares, r.alloc, r.left)
     /\ \/ s.pc = "post" /\ r.todo # <<>>
        \/ s.pc = "weigh" /\ r.todo = <<>> /\ r.sheet # <<>>
        \/ s.pc = "snapshot" /\ r.op = "consume" /\ r.todo = <<>> /\ r.sheet = <<>>
        \/ s.pc = "shelve" /\ r.op = "purchase" /\ r.todo = <<>> /\ r.sheet = <<>>
        \/ s.pc = "close" /\ r.op \in {"void", "unbuy"} /\ r.todo = <<>> /\ r.sheet = <<>>
  \/ /\ s = FreeSlot /\ r.op \in {"adjust", "count", "waste"}
     /\ r.todo = <<>> /\ r.sheet = <<>>

LEMMA WithPcIs ==
  ASSUME NEW r \in Request, NEW pc \in Pcs
  PROVE  LET s == [r EXCEPT !.pc = pc] IN
         /\ s \in Request /\ Alike(s, r)
         /\ Becomes(s, pc, r.sheet, r.todo, r.cur, r.shares, r.alloc, r.left)
BY Zenon DEF Request, Alike, Becomes

LEMMA AfterLastIs ==
  ASSUME NEW op \in AllOps
  PROVE  \/ op = "consume" /\ AfterLast[op] = "snapshot"
         \/ op = "purchase" /\ AfterLast[op] = "shelve"
         \/ op \in {"void", "unbuy"} /\ AfterLast[op] = "close"
         \/ op \in {"adjust", "count", "waste"} /\ AfterLast[op] = "free"
BY DEF AfterLast, AllOps

LEMMA ContinuesDoes ==
  ASSUME NEW i \in Slots, NEW r \in Request, r.op \in AllOps, Continues(i, r)
  PROVE  \E s \in Request : Goes(i, s) /\ Onward(s, r)
<1> DEFINE s(pc) == [r EXCEPT !.pc = pc]
<1>1. \A pc \in Pcs : /\ s(pc) \in Request /\ Alike(s(pc), r)
                      /\ Becomes(s(pc), pc, r.sheet, r.todo, r.cur, r.shares, r.alloc, r.left)
  BY WithPcIs
<1>2. \A pc \in Pcs : s(pc).pc = pc
  BY <1>1 DEF Becomes
<1>3. CASE r.todo # <<>>
  <2>1. Goes(i, s("post"))
    BY <1>3 DEF Continues
  <2> HIDE DEF s
  <2> QED
    BY <1>1, <1>2, <1>3, <2>1, PcsAre DEF Onward
<1>4. CASE r.todo = <<>> /\ r.sheet # <<>>
  <2>1. Goes(i, s("weigh"))
    BY <1>4 DEF Continues
  <2> HIDE DEF s
  <2> QED
    BY <1>1, <1>2, <1>4, <2>1, PcsAre DEF Onward
<1>5. CASE r.todo = <<>> /\ r.sheet = <<>>
  <2>1. IF AfterLast[r.op] = "free" THEN Answers(i) ELSE Goes(i, s(AfterLast[r.op]))
    BY <1>5 DEF Continues
  <2> HIDE DEF s
  <2>2. CASE r.op = "consume"
    BY <1>1, <1>2, <1>5, <2>1, <2>2, AfterLastIs, PcsAre DEF Onward
  <2>3. CASE r.op = "purchase"
    BY <1>1, <1>2, <1>5, <2>1, <2>3, AfterLastIs, PcsAre DEF Onward
  <2>4. CASE r.op \in {"void", "unbuy"}
    BY <1>1, <1>2, <1>5, <2>1, <2>4, AfterLastIs, PcsAre DEF Onward
  <2>5. CASE r.op \in {"adjust", "count", "waste"}
    BY <1>5, <2>1, <2>5, AfterLastIs, FreeIs DEF Onward, Answers
  <2> QED
    BY <2>2, <2>3, <2>4, <2>5 DEF AllOps
<1> QED
  BY <1>3, <1>4, <1>5

\* A request that may continue.
Ready(r) ==
  /\ r.op \in AllOps /\ r.shares = {} /\ r.alloc = {} /\ RefFits(r)
  /\ r.sheet # <<>> => r.op = "count"
  /\ r.op = "purchase" => r.ref.kind = "purchases"
  /\ \A k \in DOMAIN r.todo : MoveFits(r, r.todo[k])

LEMMA OnwardFits ==
  ASSUME NEW r \in Request, Ready(r), NEW s \in Request, Onward(s, r)
  PROVE  Fits(s)
<1>1. CASE s = FreeSlot
  BY <1>1, FreeIs
<1>2. CASE s # FreeSlot
  <2>1. Alike(s, r) /\ Becomes(s, s.pc, r.sheet, r.todo, r.cur, r.shares, r.alloc, r.left)
    BY <1>2 DEF Onward
  <2>2. RefFits(s)
    BY <2>1 DEF Ready, RefFits, Alike
  <2>3. \A k \in DOMAIN s.todo : MoveFits(s, s.todo[k])
    BY <2>1 DEF Ready, MoveFits, Alike, Becomes
  <2>4. PcFits(s)
    BY <1>2, <2>1 DEF Ready, Onward, PcFits, Alike, Becomes, Posting, AllOps
  <2> QED
    BY <2>2, <2>3, <2>4 DEF Fits
<1> QED
  BY <1>1, <1>2

-----------------------------------------------------------------------------
(* Rows in the order they were inserted.                                   *)

LEMMA GreatestOf ==
  ASSUME NEW S, IsFiniteSet(S), S \subseteq Nat, S # {}
  PROVE  \E m \in S : \A k \in S : k <= m
<1> DEFINE G == {T \in SUBSET S : T # {} => \E m \in T : \A k \in T : k <= m}
<1>1. {} \in G
  OBVIOUS
<1>2. ASSUME NEW T \in SUBSET S, T # {}, \A x \in T : T \ {x} \in G
      PROVE  T \in G
  <2>1. PICK x \in T : TRUE
    BY <1>2
  <2>2. CASE T \ {x} = {}
    BY <2>1, <2>2
  <2>3. CASE T \ {x} # {}
    <3>1. PICK m \in T \ {x} : \A k \in T \ {x} : k <= m
      BY <1>2, <2>3
    <3>2. m \in Nat /\ x \in Nat
      OBVIOUS
    <3>3. CASE x <= m
      BY <3>1, <3>3
    <3>4. CASE ~(x <= m)
      BY <3>1, <3>2, <3>4
    <3> QED
      BY <3>3, <3>4
  <2> QED
    BY <2>2, <2>3
<1> HIDE DEF G
<1>3. SUBSET S \subseteq G
  BY <1>1, <1>2, PartsInduction
<1>4. S \in G
  BY <1>3
<1> QED
  BY <1>4 DEF G

\* A numbering of a set of numbers from the least on.
Numbers(q, S) ==
  /\ q \in [1 .. Cardinality(S) -> S]
  /\ \A x \in S : \E k \in 1 .. Cardinality(S) : q[k] = x
  /\ \A a, b \in 1 .. Cardinality(S) : a < b => q[a] < q[b]

LEMMA NumbersExists ==
  ASSUME NEW S, IsFiniteSet(S), S \subseteq Nat
  PROVE  \E q : Numbers(q, S)
<1> DEFINE G == {T \in SUBSET S : \E q : Numbers(q, T)}
<1>1. {} \in G
  <2> DEFINE q == [k \in 1 .. 0 |-> k]
  <2>1. Cardinality({}) = 0
    BY FS_EmptySet
  <2>2. Numbers(q, {})
    BY <2>1 DEF Numbers
  <2> QED
    BY <2>2
<1>2. ASSUME NEW T \in SUBSET S, T # {}, \A x \in T : T \ {x} \in G
      PROVE  T \in G
  <2>1. IsFiniteSet(T)
    BY FS_Subset
  <2>2. PICK m \in T : \A k \in T : k <= m
    BY <1>2, <2>1, GreatestOf
  <2>3. PICK q : Numbers(q, T \ {m})
    BY <1>2
  <2>4. PICK n \in Nat : n = Cardinality(T \ {m})
    BY <2>1, FS_RemoveElement, FS_CardinalityType
  <2>5. Cardinality(T) = n + 1
    <3>1. Cardinality(T \ {m}) = Cardinality(T) - 1
      BY <2>1, FS_RemoveElement
    <3>2. Cardinality(T) \in Nat
      BY <2>1, FS_CardinalityType
    <3> QED
      BY <2>4, <3>1, <3>2
  <2>6. /\ q \in [1 .. n -> T \ {m}]
        /\ \A x \in T \ {m} : \E k \in 1 .. n : q[k] = x
        /\ \A a, b \in 1 .. n : a < b => q[a] < q[b]
    BY <2>3, <2>4 DEF Numbers
  <2> DEFINE p == [k \in 1 .. n + 1 |-> IF k = n + 1 THEN m ELSE q[k]]
  <2>7. p \in [1 .. n + 1 -> T]
    BY <2>6
  <2>8. \A x \in T : \E k \in 1 .. n + 1 : p[k] = x
    <3> TAKE x \in T
    <3>1. CASE x = m
      BY <3>1
    <3>2. CASE x # m
      BY <2>6, <3>2
    <3> QED
      BY <3>1, <3>2
  <2>9. \A a, b \in 1 .. n + 1 : a < b => p[a] < p[b]
    <3> SUFFICES ASSUME NEW a \in 1 .. n + 1, NEW b \in 1 .. n + 1, a < b
                 PROVE  p[a] < p[b]
      OBVIOUS
    <3>1. a \in 1 .. n /\ p[a] = q[a] /\ q[a] \in T /\ q[a] # m
      BY <2>6
    <3>2. CASE b = n + 1
      <4>1. q[a] \in Nat /\ m \in Nat /\ q[a] <= m /\ p[b] = m
        BY <2>2, <3>1, <3>2
      <4> QED
        BY <3>1, <4>1
    <3>3. CASE b # n + 1
      BY <2>6, <3>1, <3>3
    <3> QED
      BY <3>2, <3>3
  <2> HIDE DEF p
  <2>10. Numbers(p, T)
    BY <2>5, <2>7, <2>8, <2>9 DEF Numbers
  <2> QED
    BY <2>10
<1> HIDE DEF G
<1>3. SUBSET S \subseteq G
  BY <1>1, <1>2, PartsInduction
<1>4. S \in G
  BY <1>3
<1> QED
  BY <1>4 DEF G

LEMMA InOrderIs ==
  ASSUME NEW S, IsFiniteSet(S), S \subseteq Nat
  PROVE  Numbers(InOrder(S), S)
<1>0. PICK n \in Nat : n = Cardinality(S)
  BY FS_CardinalityType
<1>1. PICK p : Numbers(p, S)
  BY NumbersExists
<1>2. \A a, b \in 1 .. n : p[a] = p[b] => a = b
  <2> SUFFICES ASSUME NEW a \in 1 .. n, NEW b \in 1 .. n, p[a] = p[b], a # b PROVE FALSE
    OBVIOUS
  <2>1. p[a] \in S /\ p[a] \in Nat
    BY <1>0, <1>1 DEF Numbers
  <2>2. CASE a < b
    <3>1. p[a] < p[b]
      BY <1>0, <1>1, <2>2 DEF Numbers
    <3> QED
      BY <2>1, <3>1
  <2>3. CASE b < a
    <3>1. p[b] < p[a]
      BY <1>0, <1>1, <2>3 DEF Numbers
    <3> QED
      BY <2>1, <3>1
  <2> QED
    BY <2>2, <2>3
<1>3. p \in Bijection(1 .. n, S)
  BY <1>0, <1>1, <1>2 DEF Numbers, Bijection, Injection, Surjection, IsInjective
<1>4. DOMAIN p = 1 .. n
  BY <1>0, <1>1 DEF Numbers
<1>5. \E q \in Bijection(1 .. n, S) : \A a, b \in DOMAIN q : a < b => q[a] < q[b]
  BY <1>0, <1>1, <1>3, <1>4 DEF Numbers
<1>6. /\ InOrder(S) \in Bijection(1 .. n, S)
      /\ \A a, b \in DOMAIN InOrder(S) : a < b => InOrder(S)[a] < InOrder(S)[b]
  BY <1>0, <1>5 DEF InOrder
<1> QED
  BY <1>0, <1>6 DEF Numbers, Bijection, Injection, Surjection

\* The rows of a reference and a type, and where they are.
RowsFor(ref, type) == {n \in RowsOf(ref) : moves[n].type = type}

LEMMA RowsForType ==
  ASSUME TypeOK, NEW ref
  PROVE  /\ IsFiniteSet(RowsOf(ref)) /\ RowsOf(ref) \subseteq Nat
         /\ \A type : IsFiniteSet(RowsFor(ref, type)) /\ RowsFor(ref, type) \subseteq Nat
<1>1. DOMAIN moves = 1 .. Len(moves) /\ Len(moves) \in Nat
  BY DEF TypeOK
<1>2. IsFiniteSet(DOMAIN moves) /\ DOMAIN moves \subseteq Nat
  BY <1>1, FS_Interval
<1>3. RowsOf(ref) \in SUBSET (DOMAIN moves)
  BY DEF RowsOf
<1>4. \A type : RowsFor(ref, type) \in SUBSET (DOMAIN moves)
  BY <1>3 DEF RowsFor
<1> QED
  BY <1>2, <1>3, <1>4, FS_Subset

LEMMA RowsAre ==
  ASSUME TypeOK, NEW ref, NEW type
  PROVE  LET S == RowsFor(ref, type)
             q == InOrder(S) IN
         /\ Numbers(q, S)
         /\ Rows(ref, type) \in Seq(Row)
         /\ DOMAIN Rows(ref, type) = 1 .. Cardinality(S)
         /\ \A k \in 1 .. Cardinality(S) :
              q[k] \in S /\ Rows(ref, type)[k] = moves[q[k]]
<1> DEFINE S == RowsFor(ref, type)
<1>0. PICK q : q = InOrder(S)
  OBVIOUS
<1>1. PICK n \in Nat : n = Cardinality(S)
  BY RowsForType, FS_CardinalityType
<1>2. Numbers(q, S)
  BY <1>0, RowsForType, InOrderIs
<1>3. Rows(ref, type) = [k \in DOMAIN q |-> moves[q[k]]]
  BY <1>0 DEF Rows, RowsFor
<1>4. DOMAIN q = 1 .. n /\ \A k \in 1 .. n : q[k] \in S /\ q[k] \in DOMAIN moves
  BY <1>1, <1>2 DEF Numbers, RowsFor, RowsOf
<1>5. \A k \in 1 .. n : moves[q[k]] \in Row
  BY <1>4 DEF TypeOK
<1>6. [k \in 1 .. n |-> moves[q[k]]] \in Seq(Row)
  BY <1>5
<1> QED
  BY <1>0, <1>1, <1>2, <1>3, <1>4, <1>6

\* Reversals of rows of a reference fit the request that undoes it.
LEMMA ReversalsAre ==
  ASSUME TypeOK, NEW ref, NEW type, NEW q, q = Reversals(Rows(ref, type))
  PROVE  /\ q \in Seq(Move) /\ DOMAIN q = DOMAIN Rows(ref, type)
         /\ \A k \in DOMAIN q :
              /\ q[k].type = "void_reversal" /\ q[k].ref = ref
              /\ q[k].item = Rows(ref, type)[k].item /\ q[k].qty = -Rows(ref, type)[k].qty
              /\ type = "purchase" => q[k].qty < 0
<1>0. PICK rows : rows = Rows(ref, type)
  OBVIOUS
<1>1. PICK n \in Nat : n = Cardinality(RowsFor(ref, type))
  BY RowsForType, FS_CardinalityType
<1>2. rows \in Seq(Row) /\ DOMAIN rows = 1 .. n
  BY <1>0, <1>1, RowsAre
<1>3. \A k \in 1 .. n : \E m \in RowsFor(ref, type) : rows[k] = moves[m]
  BY <1>0, <1>1, RowsAre
<1>4. \A k \in 1 .. n : /\ rows[k] \in Row /\ rows[k].ref = ref
                        /\ type = "purchase" => rows[k].qty > 0
  <2> TAKE k \in 1 .. n
  <2>1. PICK m \in RowsFor(ref, type) : rows[k] = moves[m]
    BY <1>3
  <2>2. m \in DOMAIN moves /\ moves[m].ref = ref /\ moves[m].type = type
    BY DEF RowsFor, RowsOf
  <2>3. moves[m] \in Row /\ (type = "purchase" => moves[m].qty > 0)
    BY <2>2 DEF TypeOK
  <2> QED
    BY <2>1, <2>2, <2>3
<1>5. \A row \in Row : /\ Reversal(row) \in Move /\ Reversal(row).type = "void_reversal"
                       /\ Reversal(row).ref = row.ref /\ Reversal(row).item = row.item
                       /\ Reversal(row).qty = -row.qty /\ row.qty \in Int
  BY DEF Reversal, Move, Row, MoveTypes
<1>6. q = [k \in 1 .. n |-> Reversal(rows[k])]
  BY <1>0, <1>2 DEF Reversals
<1>7. DOMAIN q = 1 .. n /\ \A k \in 1 .. n : q[k] = Reversal(rows[k]) /\ q[k] \in Move
  BY <1>4, <1>5, <1>6
<1>8. q \in Seq(Move)
  BY <1>6, <1>7
<1>9. \A k \in 1 .. n : /\ q[k].type = "void_reversal" /\ q[k].ref = ref
                        /\ q[k].item = rows[k].item /\ q[k].qty = -rows[k].qty
                        /\ type = "purchase" => q[k].qty < 0
  BY <1>4, <1>5, <1>7
<1> QED
  BY <1>0, <1>2, <1>7, <1>8, <1>9

\* What is continued with, and where it leads.
Resumes(i, s, sheet, todo, cur) ==
  \E r \in Request :
    /\ Alike(r, req[i]) /\ Becomes(r, req[i].pc, sheet, todo, cur, {}, {}, req[i].left)
    /\ Ready(r) /\ Onward(s, r)

LEMMA ReadyKept ==
  ASSUME TypeOK, NEW i \in Slots, req[i].op \in AllOps, req[i].pc # "bill",
         req[i].pc \notin {"share", "write", "insert"},
         NEW r \in Request, NEW sheet, NEW todo, NEW cur,
         Alike(r, req[i]),
         Becomes(r, req[i].pc, sheet, todo, cur, req[i].shares, req[i].alloc, req[i].left),
         \A k \in DOMAIN todo : MoveFits(req[i], todo[k]),
         sheet # <<>> => req[i].op = "count"
  PROVE  Ready(r) /\ r.shares = {} /\ r.alloc = {}
<1>1. r.shares = {} /\ r.alloc = {}
  BY Kept DEF PcFits, Becomes
<1>2. RefFits(r) /\ (r.op = "purchase" => r.ref.kind = "purchases")
  BY Kept DEF RefFits, PcFits, Alike
<1>3. \A k \in DOMAIN r.todo : MoveFits(r, r.todo[k])
  BY DEF Becomes, Alike, MoveFits
<1> QED
  BY <1>1, <1>2, <1>3 DEF Ready, Alike, Becomes

LEMMA OpsServed ==
  ASSUME TypeOK, NEW i \in Slots, req[i].pc # "free"
  PROVE  req[i].op \in AllOps /\ req[i].op # "none"
BY Kept DEF PcFits, Request, TypeOK

LEMMA WeighsDoes ==
  ASSUME TypeOK, NEW i \in Slots, Weighs(i)
  PROVE  \E s \in Request, todo \in Seq(Move) :
           Goes(i, s) /\ Resumes(i, s, Tail(req[i].sheet), todo, req[i].cur)
           /\ req[i].pc = "weigh" /\ req[i].op = "count"
<1> DEFINE r == req[i]
           line == Head(r.sheet)
           diff == line.qty - stock[line.item]
           todo == IF diff = 0 THEN <<>> ELSE Single(line.item, diff, "count")
           p == [r EXCEPT !.sheet = Tail(@), !.todo = todo]
<1>1. r.pc = "weigh" /\ r.sheet # <<>> /\ r.op = "count" /\ r.ref = NoRef /\ r \in Request
  BY Kept DEF Weighs, At, PcFits, RefFits
<1>2. line \in Counted /\ Tail(r.sheet) \in Seq(Counted)
  BY <1>1, Kept, TailIs
<1>3. line.item \in Items /\ diff \in Int
  BY <1>2 DEF Counted, TypeOK
<1>4. todo \in Seq(Move) /\ \A k \in DOMAIN todo : MoveFits(r, todo[k])
  <2> HIDE DEF diff, line
  <2>1. CASE diff = 0
    BY <2>1, EmptyTodo
  <2>2. CASE diff # 0
    <3> DEFINE m == [item |-> line.item, qty |-> diff, type |-> "count", ref |-> NoRef]
    <3>1. m \in Move
      BY <1>3 DEF Move, MoveTypes, NoRef, Refs
    <3>2. todo = <<m>>
      BY <2>2 DEF Single
    <3>3. MoveFits(r, m)
      BY <1>1 DEF MoveFits
    <3> HIDE DEF m, todo
    <3> QED
      BY <3>1, <3>2, <3>3
  <2> QED
    BY <2>1, <2>2
<1> HIDE DEF todo
<1>5. /\ p \in Request /\ Alike(p, r)
      /\ Becomes(p, r.pc, Tail(r.sheet), todo, r.cur, r.shares, r.alloc, r.left)
  BY <1>1, <1>2, <1>4, Zenon DEF Request, Alike, Becomes
<1>6. Continues(i, p)
  BY DEF Weighs, todo
<1> HIDE DEF p
<1>7. p.op \in AllOps
  BY <1>1, <1>5 DEF Alike, AllOps
<1>8. PICK s \in Request : Goes(i, s) /\ Onward(s, p)
  BY <1>5, <1>6, <1>7, ContinuesDoes
<1>9. Ready(p) /\ p.shares = {} /\ p.alloc = {}
  BY <1>1, <1>4, <1>5, <1>7, ReadyKept DEF Alike, AllOps
<1>10. Resumes(i, s, Tail(r.sheet), todo, r.cur)
  BY <1>5, <1>8, <1>9 DEF Resumes, Becomes
<1> QED
  BY <1>1, <1>4, <1>8, <1>10

LEMMA StoresBalanceDoes ==
  ASSUME TypeOK, NEW i \in Slots, StoresBalance(i)
  PROVE  /\ \E s \in Request : Goes(i, s) /\ Resumes(i, s, req[i].sheet, Tail(req[i].todo), 0)
         /\ req[i].pc = "set" /\ req[i].todo # <<>> /\ req[i].op \in AllOps
<1> DEFINE r == req[i]
           todo == Tail(r.todo)
           p == [r EXCEPT !.todo = todo, !.cur = 0]
<1>1. /\ r.pc = "set" /\ r.todo # <<>> /\ r \in Request /\ r.op \in AllOps
      /\ (r.sheet # <<>> => r.op = "count")
  BY Kept, OpsServed DEF StoresBalance, At, PcFits, Posting
<1>2. todo \in Seq(Move) /\ \A k \in DOMAIN todo : MoveFits(r, todo[k])
  <2>1. r.todo \in Seq(Move) /\ \A k \in DOMAIN r.todo : MoveFits(r, r.todo[k])
    BY Kept DEF Fits
  <2> QED
    BY <1>1, <2>1, TailIs
<1> HIDE DEF todo
<1>3. /\ p \in Request /\ Alike(p, r)
      /\ Becomes(p, r.pc, r.sheet, todo, 0, r.shares, r.alloc, r.left)
  <2>1. 0 \in Int
    OBVIOUS
  <2> QED
    BY <1>1, <1>2, <2>1, Zenon DEF Request, Alike, Becomes
<1>4. Continues(i, p)
  BY DEF StoresBalance, todo
<1> HIDE DEF p
<1>5. PICK s \in Request : Goes(i, s) /\ Onward(s, p)
  BY <1>1, <1>3, <1>4, ContinuesDoes DEF Alike
<1>6. Ready(p) /\ p.shares = {} /\ p.alloc = {}
  BY <1>1, <1>2, <1>3, ReadyKept
<1>7. Resumes(i, s, r.sheet, todo, 0)
  BY <1>3, <1>5, <1>6 DEF Resumes, Becomes
<1> QED
  BY <1>1, <1>5, <1>7 DEF todo

LEMMA SalesAre ==
  ASSUME NEW o \in Orders
  PROVE  /\ SalesOf(o) \in Seq(Move) /\ DOMAIN SalesOf(o) = DOMAIN Recipe[o]
         /\ DOMAIN Recipe[o] = 1 .. Len(Recipe[o]) /\ Len(Recipe[o]) \in Nat
         /\ \A k \in DOMAIN Recipe[o] :
              /\ SalesOf(o)[k].item = Recipe[o][k].item /\ SalesOf(o)[k].qty = -Recipe[o][k].qty
              /\ SalesOf(o)[k].type = "sale" /\ SalesOf(o)[k].ref = OrderRef(o)
              /\ SalesOf(o)[k].qty < 0
<1>1. Recipe[o] \in Seq(Line) /\ o \in Nat
  BY OrdersAssumption
<1>2. DOMAIN Recipe[o] = 1 .. Len(Recipe[o]) /\ Len(Recipe[o]) \in Nat
  BY <1>1
<1>3. OrderRef(o) \in Refs
  BY <1>1 DEF OrderRef, Refs
<1>4. \A k \in DOMAIN Recipe[o] : Recipe[o][k] \in Line
  BY <1>1
<1>5. \A k \in DOMAIN Recipe[o] : /\ SalesOf(o)[k] \in Move
        /\ SalesOf(o)[k].item = Recipe[o][k].item /\ SalesOf(o)[k].qty = -Recipe[o][k].qty
        /\ SalesOf(o)[k].type = "sale" /\ SalesOf(o)[k].ref = OrderRef(o)
        /\ SalesOf(o)[k].qty < 0
  <2> TAKE k \in DOMAIN Recipe[o]
  <2>1. Recipe[o][k].item \in Items /\ Recipe[o][k].qty \in Nat \ {0}
    BY <1>4 DEF Line
  <2>2. SalesOf(o)[k] = [item |-> Recipe[o][k].item, qty |-> -Recipe[o][k].qty,
                        type |-> "sale", ref |-> OrderRef(o)]
    BY DEF SalesOf
  <2> QED
    BY <1>3, <2>1, <2>2 DEF Move, MoveTypes
<1>6. SalesOf(o) \in Seq(Move) /\ DOMAIN SalesOf(o) = DOMAIN Recipe[o]
  <2>1. PICK n \in Nat : n = Len(Recipe[o])
    BY <1>2
  <2>2. PICK q : q = SalesOf(o)
    OBVIOUS
  <2>3. q = [k \in 1 .. n |-> q[k]]
    BY <1>2, <2>1, <2>2 DEF SalesOf
  <2>4. \A k \in 1 .. n : q[k] \in Move
    BY <1>2, <1>5, <2>1, <2>2
  <2>5. q \in Seq(Move) /\ DOMAIN q = 1 .. n
    BY <2>3, <2>4
  <2> QED
    BY <1>2, <2>1, <2>2, <2>5
<1> QED
  BY <1>2, <1>5, <1>6

\* A request about an order or a purchase.
LEMMA RefIs ==
  ASSUME TypeOK, NEW i \in Slots, req[i].op \in {"consume", "void"}
  PROVE  req[i].ref.id \in Orders /\ req[i].ref = OrderRef(req[i].ref.id)
BY Kept DEF RefFits, Refs, OrderRef

LEMMA AnswersDoes ==
  ASSUME TypeOK, NEW i \in Slots, Answers(i)
  PROVE  req' \in [Slots -> Request] /\ \A j \in Slots : Fits(req'[j])
BY FreeIs, GoesType DEF Answers

LEMMA ClaimsDoes ==
  ASSUME TypeOK, NEW i \in Slots, Claims(i)
  PROVE  LET r == req[i]
             o == req[i].ref.id IN
         /\ r.pc = "claim" /\ r.op = "consume" /\ r.todo = <<>> /\ o \in Orders
         /\ \/ /\ Claimable(o) /\ orders' = [orders EXCEPT ![o].consumed = TRUE]
               /\ \E s \in Request : Goes(i, s) /\ Resumes(i, s, r.sheet, SalesOf(o), r.cur)
            \/ Answers(i) /\ orders' = orders
<1> DEFINE r == req[i]
           o == r.ref.id
           p == [r EXCEPT !.todo = SalesOf(o)]
<1>1. /\ r.pc = "claim" /\ r.op = "consume" /\ r.todo = <<>> /\ r \in Request
      /\ r.ref = OrderRef(o) /\ o \in Orders /\ r.sheet = <<>>
  BY Kept, RefIs DEF Claims, At, PcFits
<1>2. /\ SalesOf(o) \in Seq(Move)
      /\ \A k \in DOMAIN SalesOf(o) : MoveFits(r, SalesOf(o)[k])
  BY <1>1, SalesAre DEF MoveFits
<1>3. /\ p \in Request /\ Alike(p, r)
      /\ Becomes(p, r.pc, r.sheet, SalesOf(o), r.cur, r.shares, r.alloc, r.left)
  BY <1>1, <1>2, Zenon DEF Request, Alike, Becomes
<1>4. CASE /\ Claimable(o) /\ orders' = [orders EXCEPT ![o].consumed = TRUE]
           /\ Continues(i, p)
  <2> HIDE DEF p
  <2>1. p.op \in AllOps
    BY <1>1, <1>3 DEF Alike, AllOps
  <2>2. PICK s \in Request : Goes(i, s) /\ Onward(s, p)
    BY <1>3, <1>4, <2>1, ContinuesDoes
  <2>3. Ready(p) /\ p.shares = {} /\ p.alloc = {}
    BY <1>1, <1>2, <1>3, <2>1, ReadyKept DEF Alike
  <2>4. Resumes(i, s, r.sheet, SalesOf(o), r.cur)
    BY <1>3, <2>2, <2>3 DEF Resumes, Becomes
  <2> QED
    BY <1>1, <1>4, <2>2, <2>4
<1>5. CASE Answers(i) /\ orders' = orders
  BY <1>1, <1>5
<1> QED
  BY <1>4, <1>5 DEF Claims

LEMMA CancelsDoes ==
  ASSUME TypeOK, NEW i \in Slots, Cancels(i)
  PROVE  LET r == req[i] IN
         /\ r.pc = "cancel" /\ r.op = "void" /\ r.todo = <<>> /\ r.ref.id \in Orders
         /\ r.ref = OrderRef(r.ref.id)
         /\ \E s \in Request : /\ Goes(i, s) /\ Alike(s, r)
                              /\ Becomes(s, "sales", r.sheet, <<>>, r.cur, {}, {}, r.left)
<1> DEFINE r == req[i]
           s == [r EXCEPT !.pc = "sales"]
<1>1. /\ r.pc = "cancel" /\ r.op = "void" /\ r.todo = <<>> /\ r \in Request
      /\ r.shares = {} /\ r.alloc = {} /\ r.ref.id \in Orders /\ r.ref = OrderRef(r.ref.id)
  BY Kept, RefIs DEF Cancels, At, PcFits
<1>2. /\ s \in Request /\ Alike(s, r)
      /\ Becomes(s, "sales", r.sheet, r.todo, r.cur, r.shares, r.alloc, r.left)
  BY <1>1, WithPcIs, PcsAre
<1> HIDE DEF s
<1>3. Goes(i, s)
  BY DEF Cancels, s
<1> QED
  BY <1>1, <1>2, <1>3

LEMMA ReadsSalesDoes ==
  ASSUME TypeOK, NEW i \in Slots, ReadsSales(i)
  PROVE  LET r == req[i]
             sales == Rows(r.ref, "sale") IN
         /\ r.pc = "sales" /\ r.op = "void" /\ r.todo = <<>>
         /\ \/ Answers(i) /\ sales = <<>>
            \/ \E s \in Request :
                 /\ Goes(i, s) /\ Alike(s, r) /\ Reversals(sales) \in Seq(Move)
                 /\ Becomes(s, "already", r.sheet, Reversals(sales), r.cur, {}, {}, r.left)
                 /\ \A k \in DOMAIN Reversals(sales) : MoveFits(s, Reversals(sales)[k])
<1> DEFINE r == req[i]
<1>0. PICK todo : todo = Reversals(Rows(r.ref, "sale"))
  OBVIOUS
<1> DEFINE s == [r EXCEPT !.pc = "already", !.todo = todo]
<1>1. /\ r.pc = "sales" /\ r.op = "void" /\ r.todo = <<>> /\ r \in Request
      /\ r.shares = {} /\ r.alloc = {}
  BY Kept DEF ReadsSales, At, PcFits
<1>2. todo \in Seq(Move) /\ \A k \in DOMAIN todo : todo[k].type = "void_reversal" /\ todo[k].ref = r.ref
  BY <1>0, ReversalsAre
<1>3. /\ s \in Request /\ Alike(s, r)
      /\ Becomes(s, "already", r.sheet, todo, r.cur, r.shares, r.alloc, r.left)
  BY <1>1, <1>2, PcsAre, Zenon DEF Request, Alike, Becomes
<1>4. \/ Answers(i) /\ Rows(r.ref, "sale") = <<>>
      \/ Goes(i, s)
  BY <1>0 DEF ReadsSales
<1>5. \A k \in DOMAIN todo : MoveFits(s, todo[k])
  BY <1>1, <1>2, <1>3 DEF MoveFits, Alike
<1> QED
  BY <1>0, <1>1, <1>2, <1>3, <1>4, <1>5

LEMMA ChecksReversedDoes ==
  ASSUME TypeOK, NEW i \in Slots, ChecksReversed(i)
  PROVE  LET r == req[i] IN
         /\ r.pc = "already" /\ r.op = "void"
         /\ \/ Answers(i) /\ Rows(r.ref, "void_reversal") # <<>>
            \/ /\ \E s \in Request : Goes(i, s) /\ Resumes(i, s, r.sheet, r.todo, r.cur)
               /\ Rows(r.ref, "void_reversal") = <<>>
<1> DEFINE r == req[i]
<1>1. /\ r.pc = "already" /\ r.op = "void" /\ r \in Request
      /\ r.shares = {} /\ r.alloc = {} /\ r.sheet = <<>>
      /\ \A k \in DOMAIN r.todo : MoveFits(r, r.todo[k])
  BY Kept DEF ChecksReversed, At, PcFits, Fits
<1>2. CASE Rows(r.ref, "void_reversal") # <<>>
  BY <1>1, <1>2 DEF ChecksReversed
<1>3. CASE Rows(r.ref, "void_reversal") = <<>>
  <2>1. Continues(i, r)
    BY <1>3 DEF ChecksReversed
  <2>2. PICK s \in Request : Goes(i, s) /\ Onward(s, r)
    BY <1>1, <2>1, ContinuesDoes DEF AllOps
  <2>3. Alike(r, r) /\ Becomes(r, r.pc, r.sheet, r.todo, r.cur, {}, {}, r.left)
    BY <1>1 DEF Alike, Becomes
  <2>4. Ready(r)
    BY <1>1, Kept DEF Ready, AllOps
  <2>5. Resumes(i, s, r.sheet, r.todo, r.cur)
    BY <1>1, <2>2, <2>3, <2>4 DEF Resumes
  <2> QED
    BY <1>1, <1>3, <2>2, <2>5
<1> QED
  BY <1>2, <1>3

LEMMA ReadsBoughtDoes ==
  ASSUME TypeOK, NEW i \in Slots, ReadsBought(i)
  PROVE  LET r == req[i]
             todo == Reversals(Rows(r.ref, "purchase")) IN
         /\ r.pc = "bought" /\ r.op = "unbuy" /\ r.todo = <<>>
         /\ \E s \in Request : Goes(i, s) /\ Resumes(i, s, r.sheet, todo, r.cur)
<1> DEFINE r == req[i]
<1>0. PICK todo : todo = Reversals(Rows(r.ref, "purchase"))
  OBVIOUS
<1> DEFINE p == [r EXCEPT !.todo = todo]
<1>1. /\ r.pc = "bought" /\ r.op = "unbuy" /\ r.todo = <<>> /\ r \in Request /\ r.sheet = <<>>
  BY Kept DEF ReadsBought, At, PcFits
<1>2. todo \in Seq(Move) /\ \A k \in DOMAIN todo : MoveFits(r, todo[k])
  BY <1>0, <1>1, ReversalsAre DEF MoveFits
<1>3. /\ p \in Request /\ Alike(p, r)
      /\ Becomes(p, r.pc, r.sheet, todo, r.cur, r.shares, r.alloc, r.left)
  BY <1>1, <1>2, Zenon DEF Request, Alike, Becomes
<1>4. Continues(i, p)
  BY <1>0 DEF ReadsBought
<1> HIDE DEF p
<1>5. PICK s \in Request : Goes(i, s) /\ Onward(s, p)
  BY <1>1, <1>3, <1>4, ContinuesDoes DEF Alike, AllOps
<1>6. Ready(p) /\ p.shares = {} /\ p.alloc = {}
  BY <1>1, <1>2, <1>3, ReadyKept DEF AllOps
<1>7. Resumes(i, s, r.sheet, todo, r.cur)
  BY <1>3, <1>5, <1>6 DEF Resumes, Becomes
<1> QED
  BY <1>0, <1>1, <1>5, <1>7

LEMMA PurchaseRefIs ==
  ASSUME TypeOK
  PROVE  LET ref == PurchaseRef(Len(purchases) + 1)
         IN ref \in Refs /\ ref.kind = "purchases" /\ ref.id = Len(purchases) + 1 /\ ref # NoRef
BY DEF TypeOK, PurchaseRef, Refs, NoRef

LEMMA BooksPurchaseDoes ==
  ASSUME TypeOK, NEW i \in Slots, BooksPurchase(i)
  PROVE  LET r == req[i]
             ref == PurchaseRef(Len(purchases) + 1) IN
         /\ r.pc = "bill" /\ r.op = "purchase"
         /\ \E s \in Request :
              /\ Goes(i, s) /\ Fits(s) /\ s.op = "purchase" /\ s.ref = ref /\ s.pc = "post"
              /\ s.shares = {} /\ s.alloc = {} /\ s.todo # <<>>
<1> DEFINE r == req[i]
<1>0. PICK ref : ref = PurchaseRef(Len(purchases) + 1)
  OBVIOUS
<1>1. /\ r.pc = "bill" /\ r.op = "purchase" /\ r \in Request /\ r.sheet = <<>>
      /\ Len(r.todo) = 1 /\ r.todo \in Seq(Move) /\ r.shares = {} /\ r.alloc = {}
      /\ \A k \in DOMAIN r.todo : MoveFits(r, r.todo[k])
  BY Kept DEF BooksPurchase, At, PcFits, Fits
<1>2. ref \in Refs /\ ref.kind = "purchases" /\ ref # NoRef
  BY <1>0, PurchaseRefIs
<1>3. PICK todo : todo = [r.todo EXCEPT ![1].ref = ref]
  OBVIOUS
<1>4. /\ todo \in Seq(Move) /\ todo # <<>>
      /\ \A k \in DOMAIN todo : todo[k].type = "purchase" /\ todo[k].qty > 0 /\ todo[k].ref = ref
  <2>1. PICK q \in Seq(Move) : q = r.todo /\ Len(q) = 1 /\ MoveFits(r, q[1])
    BY <1>1
  <2>2. DOMAIN q = {1} /\ q[1] \in Move
    BY <2>1
  <2>3. PICK m : m = [q[1] EXCEPT !.ref = ref]
    OBVIOUS
  <2>4. m \in Move /\ m.type = q[1].type /\ m.qty = q[1].qty /\ m.ref = ref
    BY <1>2, <2>2, <2>3, Zenon DEF Move
  <2>5. todo = [q EXCEPT ![1] = m]
    BY <1>3, <2>1, <2>3
  <2>6. todo \in Seq(Move) /\ DOMAIN todo = {1} /\ todo[1] = m
    BY <2>1, <2>2, <2>4, <2>5
  <2>7. m.type = "purchase" /\ m.qty > 0
    BY <1>1, <2>1, <2>4 DEF MoveFits
  <2>8. todo # <<>>
    <3>1. 1 \in DOMAIN todo
      BY <2>6
    <3> QED
      BY <3>1
  <2>9. \A k \in DOMAIN todo : k = 1
    BY <2>6
  <2> QED
    BY <2>4, <2>6, <2>7, <2>8, <2>9
<1> DEFINE p == [r EXCEPT !.ref = ref, !.todo = todo]
<1>5. /\ p \in Request /\ p.op = r.op /\ p.ref = ref
      /\ Becomes(p, r.pc, r.sheet, todo, r.cur, r.shares, r.alloc, r.left)
  BY <1>1, <1>2, <1>4, Zenon DEF Request, Becomes
<1>6. [r EXCEPT !.ref = ref, !.todo[1].ref = ref] = p
  BY <1>3
<1>7. Continues(i, p)
  BY <1>0, <1>6 DEF BooksPurchase
<1> HIDE DEF p
<1>8. Ready(p)
  BY <1>1, <1>2, <1>4, <1>5 DEF Ready, AllOps, Becomes, RefFits, MoveFits
<1>9. PICK s \in Request : Goes(i, s) /\ Onward(s, p)
  BY <1>5, <1>7, <1>8, ContinuesDoes DEF Ready
<1>10. Fits(s)
  BY <1>5, <1>8, <1>9, OnwardFits
<1>11. /\ s.op = "purchase" /\ s.ref = ref /\ s.pc = "post" /\ s.shares = {} /\ s.alloc = {}
       /\ s.todo = todo
  BY <1>1, <1>4, <1>5, <1>9 DEF Onward, Alike, Becomes
<1> QED
  BY <1>0, <1>1, <1>4, <1>9, <1>10, <1>11

LEMMA ShelvesDoes ==
  ASSUME TypeOK, NEW i \in Slots, Shelves(i)
  PROVE  /\ req[i].pc = "shelve" /\ req[i].op = "purchase" /\ req[i].todo = <<>> /\ Answers(i)
         /\ \/ lots' = lots
            \/ \E l \in LotRow : lots' = Append(lots, l) /\ l.received = l.left
<1> DEFINE r == req[i]
<1>1. r.pc = "shelve" /\ r.op = "purchase" /\ r.todo = <<>> /\ r.arg \in Nat /\ r.expiry \in Nat
  BY Kept DEF Shelves, At, PcFits
<1>2. PICK n \in RowsOf(r.ref) :
        lots' = IF moves[n].item \in Perishable \/ r.expiry # 0
                THEN Append(lots, [item |-> moves[n].item, expiry |-> r.expiry,
                                   received |-> r.arg, left |-> r.arg])
                ELSE lots
  BY DEF Shelves
<1>3. moves[n].item \in Items
  <2>1. n \in DOMAIN moves
    BY DEF RowsOf
  <2>2. moves[n] \in Row
    BY <2>1 DEF TypeOK
  <2> QED
    BY <2>2 DEF Row
<1>4. [item |-> moves[n].item, expiry |-> r.expiry, received |-> r.arg, left |-> r.arg] \in LotRow
  BY <1>1, <1>3 DEF LotRow
<1> QED
  BY <1>1, <1>2, <1>4 DEF Shelves

LEMMA ClosesDoes ==
  ASSUME TypeOK, NEW i \in Slots, Closes(i)
  PROVE  LET r == req[i] IN
         /\ r.pc = "close" /\ r.todo = <<>> /\ Answers(i)
         /\ \/ r.op = "void" /\ orders' = [orders EXCEPT ![r.ref.id].consumed = FALSE]
               /\ purchases' = purchases
            \/ r.op = "unbuy" /\ purchases' = [purchases EXCEPT ![r.ref.id] = TRUE]
               /\ orders' = orders
BY Kept DEF Closes, At, PcFits

LEMMA ThrowsDoes ==
  ASSUME TypeOK, NEW i \in Slots, Throws(i)
  PROVE  LET r == req[i] IN
         /\ r.pc # "free"
         /\ \/ \E s \in Request :
                 /\ Goes(i, s) /\ Fits(s) /\ Alike(s, r) /\ r.pc \in {"batch", "share", "write"}
                 /\ Becomes(s, "insert", r.sheet, r.todo, r.cur, {}, {}, 0)
            \/ \E s \in Request :
                 /\ Goes(i, s) /\ Fits(s) /\ s.op = "consume" /\ s.ref = r.ref
                 /\ s.pc = "reopen" /\ s.shares = {} /\ s.alloc = {} /\ r.op = "consume"
            \/ Answers(i)
<1> DEFINE r == req[i]
<1>1. r.pc # "free" /\ r \in Request /\ Fits(r)
  BY Kept DEF Throws, Busy, At
<1>2. CASE /\ Swallows(i)
           /\ Goes(i, [r EXCEPT !.pc = "insert", !.shares = {}, !.alloc = {}, !.left = 0])
  <2> DEFINE s == [r EXCEPT !.pc = "insert", !.shares = {}, !.alloc = {}, !.left = 0]
  <2>1. {} \in SUBSET Share /\ 0 \in Int
    OBVIOUS
  <2>2. s \in Request /\ Alike(s, r) /\ Becomes(s, "insert", r.sheet, r.todo, r.cur, {}, {}, 0)
    BY <1>1, <2>1, PcsAre, Zenon DEF Request, Alike, Becomes
  <2> HIDE DEF s
  <2>3. r.pc \in {"batch", "share", "write"}
    BY <1>2 DEF Swallows, At
  <2>4. PcFits(s)
    BY <1>1, <2>2, <2>3 DEF Fits, PcFits, Alike, Becomes, Posting
  <2>5. RefFits(s) /\ \A k \in DOMAIN s.todo : MoveFits(s, s.todo[k])
    BY <1>1, <2>2 DEF Fits, RefFits, MoveFits, Alike, Becomes
  <2> QED
    BY <1>1, <1>2, <2>2, <2>3, <2>4, <2>5 DEF Fits, s
<1>3. CASE /\ r.op = "consume"
           /\ Goes(i, [FreeSlot EXCEPT !.op = "consume", !.pc = "reopen", !.ref = r.ref])
  <2> DEFINE s == [FreeSlot EXCEPT !.op = "consume", !.pc = "reopen", !.ref = r.ref]
  <2>1. "consume" \in AllOps \cup {"none"} /\ r.ref \in Refs
    BY <1>1 DEF AllOps, Request
  <2>2. s \in Request /\ s.op = "consume" /\ s.ref = r.ref /\ s.arg = FreeSlot.arg
        /\ Becomes(s, "reopen", FreeSlot.sheet, FreeSlot.todo, FreeSlot.cur, FreeSlot.shares,
                   FreeSlot.alloc, FreeSlot.left)
    BY <2>1, FreeIs, PcsAre, Zenon DEF Request, Becomes
  <2> HIDE DEF s
  <2>3. Becomes(s, "reopen", <<>>, <<>>, 0, {}, {}, 0)
    BY <2>2, FreeIs DEF Becomes
  <2>4. PcFits(s)
    BY <2>2, <2>3 DEF PcFits, Becomes, Posting
  <2>5. RefFits(s)
    BY <1>1, <1>3, <2>2 DEF Fits, RefFits
  <2>6. \A k \in DOMAIN s.todo : MoveFits(s, s.todo[k])
    BY <2>3 DEF Becomes
  <2> QED
    BY <1>1, <1>3, <2>2, <2>3, <2>4, <2>5, <2>6 DEF Fits, Becomes, s
<1>4. CASE Answers(i)
  BY <1>1, <1>4
<1> QED
  BY <1>2, <1>3, <1>4 DEF Throws

\* A request that comes, with what it starts from.
LEMMA ArrivalDoes ==
  ASSUME TypeOK, NEW i \in Slots, Arrival(i)
  PROVE  \E s \in Request :
           /\ Arrives(i, s) /\ Fits(s) /\ s.shares = {} /\ s.alloc = {}
           /\ \/ /\ s.op = "consume" /\ s.pc = "claim" /\ ~orders[s.ref.id].voided
                 /\ s.todo = <<>>
              \/ /\ s.op = "void" /\ s.pc = "cancel" /\ ~orders[s.ref.id].voided
                 /\ s.todo = <<>>
              \/ /\ s.op = "unbuy" /\ s.pc = "bought" /\ s.ref.id \in DOMAIN purchases
                 /\ ~purchases[s.ref.id] /\ s.todo = <<>>
              \/ s.op \in {"adjust", "waste"} /\ s.pc = "post" /\ s.ref = NoRef
              \/ s.op = "count" /\ s.pc = "weigh" /\ s.ref = NoRef
              \/ s.op = "purchase" /\ s.pc = "bill" /\ s.ref = NoRef
<1>2. NoRef \in Refs /\ AllOps = {"consume", "void", "adjust", "count", "waste", "purchase", "unbuy"}
  BY DEF NoRef, Refs, AllOps
<1>3. ASSUME NEW x \in Items, NEW q \in Int, NEW type \in MoveTypes
      PROVE  /\ Single(x, q, type) \in Seq(Move) /\ Len(Single(x, q, type)) = 1
             /\ Single(x, q, type) # <<>>
             /\ \A k \in DOMAIN Single(x, q, type) :
                  LET m == Single(x, q, type)[k] IN m.type = type /\ m.qty = q /\ m.ref = NoRef
  <2> DEFINE m == [item |-> x, qty |-> q, type |-> type, ref |-> NoRef]
  <2>1. m \in Move /\ m.type = type /\ m.qty = q /\ m.ref = NoRef
    BY <1>2 DEF Move
  <2>2. Single(x, q, type) = <<m>>
    BY DEF Single
  <2> HIDE DEF m
  <2> QED
    BY <2>1, <2>2
<1>4. CASE ConsumeArrives(i)
  <2>1. PICK o \in Orders :
          /\ ~orders[o].voided
          /\ Arrives(i, [FreeSlot EXCEPT !.op = "consume", !.pc = "claim", !.ref = OrderRef(o)])
    BY <1>4 DEF ConsumeArrives
  <2> DEFINE s == [FreeSlot EXCEPT !.op = "consume", !.pc = "claim", !.ref = OrderRef(o)]
  <2>2. Arrives(i, s)
    BY <2>1
  <2>3. OrderRef(o) \in Refs /\ OrderRef(o).kind = "orders" /\ OrderRef(o).id = o
    BY OrdersAssumption DEF OrderRef, Refs
  <2>4. s \in Request /\ s.op = "consume" /\ s.ref = OrderRef(o)
        /\ Becomes(s, "claim", FreeSlot.sheet, FreeSlot.todo, FreeSlot.cur, FreeSlot.shares,
                   FreeSlot.alloc, FreeSlot.left)
    BY <1>2, <2>3, FreeIs, PcsAre, Zenon DEF Request, Becomes
  <2>5. Fits(s)
    BY <2>4, FreeIs, <2>3 DEF Becomes, Fits, PcFits, RefFits, Posting
  <2> QED
    BY <2>1, <2>2, <2>3, <2>4, <2>5, FreeIs DEF Becomes
<1>5. CASE VoidArrives(i)
  <2>1. PICK o \in Orders :
          /\ ~orders[o].voided
          /\ Arrives(i, [FreeSlot EXCEPT !.op = "void", !.pc = "cancel", !.ref = OrderRef(o)])
    BY <1>5 DEF VoidArrives
  <2> DEFINE s == [FreeSlot EXCEPT !.op = "void", !.pc = "cancel", !.ref = OrderRef(o)]
  <2>2. Arrives(i, s)
    BY <2>1
  <2>3. OrderRef(o) \in Refs /\ OrderRef(o).kind = "orders" /\ OrderRef(o).id = o
    BY OrdersAssumption DEF OrderRef, Refs
  <2>4. s \in Request /\ s.op = "void" /\ s.ref = OrderRef(o)
        /\ Becomes(s, "cancel", FreeSlot.sheet, FreeSlot.todo, FreeSlot.cur, FreeSlot.shares,
                   FreeSlot.alloc, FreeSlot.left)
    BY <1>2, <2>3, FreeIs, PcsAre, Zenon DEF Request, Becomes
  <2>5. Fits(s)
    BY <2>4, FreeIs, <2>3 DEF Becomes, Fits, PcFits, RefFits, Posting
  <2> QED
    BY <2>1, <2>2, <2>3, <2>4, <2>5, FreeIs DEF Becomes
<1>6. CASE UnbuyArrives(i)
  <2>1. PICK p \in DOMAIN purchases :
          /\ ~purchases[p]
          /\ Arrives(i, [FreeSlot EXCEPT !.op = "unbuy", !.pc = "bought", !.ref = PurchaseRef(p)])
    BY <1>6 DEF UnbuyArrives
  <2> DEFINE s == [FreeSlot EXCEPT !.op = "unbuy", !.pc = "bought", !.ref = PurchaseRef(p)]
  <2>2. Arrives(i, s)
    BY <2>1
  <2>3. PurchaseRef(p) \in Refs /\ PurchaseRef(p).kind = "purchases" /\ PurchaseRef(p).id = p
    BY DEF PurchaseRef, Refs, TypeOK
  <2>4. s \in Request /\ s.op = "unbuy" /\ s.ref = PurchaseRef(p)
        /\ Becomes(s, "bought", FreeSlot.sheet, FreeSlot.todo, FreeSlot.cur, FreeSlot.shares,
                   FreeSlot.alloc, FreeSlot.left)
    BY <1>2, <2>3, FreeIs, PcsAre, Zenon DEF Request, Becomes
  <2>5. Fits(s)
    BY <2>4, FreeIs, <2>3 DEF Becomes, Fits, PcFits, RefFits, Posting
  <2> QED
    BY <2>1, <2>2, <2>3, <2>4, <2>5, FreeIs DEF Becomes
<1>7. CASE AdjustArrives(i)
  <2>1. PICK x \in Items, target \in Quantities \cup {0} :
          Arrives(i, [FreeSlot EXCEPT !.op = "adjust", !.pc = "post", !.arg = target,
                                 !.todo = Single(x, target - stock[x], "adjustment")])
    BY <1>7 DEF AdjustArrives
  <2>2. target \in Nat /\ target - stock[x] \in Int
    <3>1. stock \in [Items -> Int]
      BY DEF TypeOK
    <3>2. target \in Nat
      BY QuantitiesAssumption
    <3> QED
      BY <3>1, <3>2
  <2>3. PICK todo : todo = Single(x, target - stock[x], "adjustment")
    OBVIOUS
  <2>4. /\ todo \in Seq(Move) /\ todo # <<>>
        /\ \A k \in DOMAIN todo : todo[k].type = "adjustment" /\ todo[k].ref = NoRef
    BY <1>3, <2>2, <2>3 DEF MoveTypes
  <2> DEFINE s == [FreeSlot EXCEPT !.op = "adjust", !.pc = "post",
                    !.arg = target,
                    !.todo = todo]
  <2>5. Arrives(i, s)
    BY <2>1, <2>3
  <2>6. s \in Request /\ s.op = "adjust" /\ s.ref = FreeSlot.ref
        /\ Becomes(s, "post", FreeSlot.sheet, todo, FreeSlot.cur, FreeSlot.shares,
                   FreeSlot.alloc, FreeSlot.left)
    BY <1>2, <2>2, <2>4, FreeIs, PcsAre, Zenon DEF Request, Becomes
  <2>7. Fits(s)
    BY <2>6, FreeIs, <2>4 DEF Becomes, Fits, PcFits, RefFits, MoveFits, Posting
  <2> QED
    BY <2>5, <2>6, <2>7, FreeIs DEF Becomes
<1>8. CASE WasteArrives(i)
  <2>1. PICK x \in Items, q \in Quantities :
          Arrives(i, [FreeSlot EXCEPT !.op = "waste", !.pc = "post", !.arg = q,
                              !.todo = Single(x, -q, "waste")])
    BY <1>8 DEF WasteArrives
  <2>2. q \in Nat /\ -q \in Int
    BY QuantitiesAssumption
  <2>3. PICK todo : todo = Single(x, -q, "waste")
    OBVIOUS
  <2>4. /\ todo \in Seq(Move) /\ todo # <<>>
        /\ \A k \in DOMAIN todo : todo[k].type = "waste" /\ todo[k].ref = NoRef
    BY <1>3, <2>2, <2>3 DEF MoveTypes
  <2> DEFINE s == [FreeSlot EXCEPT !.op = "waste", !.pc = "post",
                    !.arg = q,
                    !.todo = todo]
  <2>5. Arrives(i, s)
    BY <2>1, <2>3
  <2>6. s \in Request /\ s.op = "waste" /\ s.ref = FreeSlot.ref
        /\ Becomes(s, "post", FreeSlot.sheet, todo, FreeSlot.cur, FreeSlot.shares,
                   FreeSlot.alloc, FreeSlot.left)
    BY <1>2, <2>2, <2>4, FreeIs, PcsAre, Zenon DEF Request, Becomes
  <2>7. Fits(s)
    BY <2>6, FreeIs, <2>4 DEF Becomes, Fits, PcFits, RefFits, MoveFits, Posting
  <2> QED
    BY <2>5, <2>6, <2>7, FreeIs DEF Becomes
<1>9. CASE CountArrives(i)
  <2>1. PICK sheet \in Sheets :
          Arrives(i, [FreeSlot EXCEPT !.op = "count", !.pc = "weigh", !.sheet = sheet])
    BY <1>9 DEF CountArrives
  <2>2. sheet \in Seq(Counted) /\ sheet # <<>>
    BY SheetsAssumption DEF Counted
  <2> DEFINE s == [FreeSlot EXCEPT !.op = "count", !.pc = "weigh", !.sheet = sheet]
  <2>3. Arrives(i, s)
    BY <2>1
  <2>4. s \in Request /\ s.op = "count" /\ s.ref = FreeSlot.ref
        /\ Becomes(s, "weigh", sheet, FreeSlot.todo, FreeSlot.cur, FreeSlot.shares,
                   FreeSlot.alloc, FreeSlot.left)
    BY <1>2, <2>2, FreeIs, PcsAre, Zenon DEF Request, Becomes
  <2>5. Fits(s)
    BY <2>4, FreeIs, <2>2 DEF Becomes, Fits, PcFits, RefFits, Posting
  <2> QED
    BY <2>3, <2>4, <2>5, FreeIs DEF Becomes
<1>10. CASE PurchaseArrives(i)
  <2>1. PICK x \in Items, q \in Quantities, e \in Expiries :
          Arrives(i, [FreeSlot EXCEPT !.op = "purchase", !.pc = "bill", !.arg = q, !.expiry = e,
                              !.todo = Single(x, q, "purchase")])
    BY <1>10 DEF PurchaseArrives
  <2>2. q \in Nat /\ q \in Int /\ q > 0 /\ e \in Nat
    BY QuantitiesAssumption
  <2>3. PICK todo : todo = Single(x, q, "purchase")
    OBVIOUS
  <2>4. /\ todo \in Seq(Move) /\ Len(todo) = 1 /\ todo # <<>>
        /\ \A k \in DOMAIN todo : todo[k].type = "purchase" /\ todo[k].qty = q /\ todo[k].ref = NoRef
    BY <1>3, <2>2, <2>3 DEF MoveTypes
  <2> DEFINE s == [FreeSlot EXCEPT !.op = "purchase", !.pc = "bill",
                    !.arg = q, !.expiry = e,
                    !.todo = todo]
  <2>5. Arrives(i, s)
    BY <2>1, <2>3
  <2>6. s \in Request /\ s.op = "purchase" /\ s.ref = FreeSlot.ref
        /\ Becomes(s, "bill", FreeSlot.sheet, todo, FreeSlot.cur, FreeSlot.shares,
                   FreeSlot.alloc, FreeSlot.left)
    BY <1>2, <2>2, <2>4, FreeIs, PcsAre, Zenon DEF Request, Becomes
  <2>7. NoRef.kind = "none"
    BY DEF NoRef
  <2>8. Fits(s)
    BY <2>6, FreeIs, <2>2, <2>4, <2>7 DEF Becomes, Fits, PcFits, RefFits, MoveFits, Posting
  <2> QED
    BY <2>5, <2>6, <2>8, FreeIs DEF Becomes
<1> QED
  BY <1>4, <1>5, <1>6, <1>7, <1>8, <1>9, <1>10 DEF Arrival

-----------------------------------------------------------------------------
(* Every step keeps the types.                                             *)

LEMMA TypeGoes ==
  ASSUME TypeOK, NEW i \in Slots, NEW s \in Request, Fits(s), Goes(i, s),
         UNCHANGED <<shelf, books, faults>>,
         started' \in Nat, disturbed' \subseteq Items, troubled' \subseteq Refs
  PROVE  TypeOK'
BY GoesType DEF TypeOK, shelf, books

LEMMA KnownGoes ==
  ASSUME TypeOK, Known, NEW i \in Slots, NEW s, Goes(i, s), moves' = moves,
         DOMAIN lots \subseteq DOMAIN lots',
         \A x \in s.alloc \cup s.shares : x.lot \in DOMAIN lots'
  PROVE  Known'
BY GoesOne DEF Known

LEMMA FreeKnows ==
  ASSUME TypeOK, Known, NEW i \in Slots, Answers(i), moves' = moves,
         DOMAIN lots \subseteq DOMAIN lots'
  PROVE  Known'
<1>1. FreeSlot.alloc = {} /\ FreeSlot.shares = {}
  BY FreeIs DEF Becomes
<1> QED
  BY <1>1, KnownGoes DEF Answers

\* A request in the middle of a posting.
LEMMA PostingFits ==
  ASSUME TypeOK, NEW i \in Slots, NEW s \in Request, Alike(s, req[i]),
         req[i].pc \in {"post"} \cup Posting, s.pc \in Posting,
         s.todo = req[i].todo, s.sheet = req[i].sheet,
         s.pc \in {"share", "write"} <=> s.shares # {},
         s.pc \notin {"share", "write", "insert"} => s.alloc = {}
  PROVE  Fits(s)
<1>1. PcFits(req[i]) /\ RefFits(req[i]) /\ \A k \in DOMAIN req[i].todo : MoveFits(req[i], req[i].todo[k])
  BY Kept DEF Fits
<1>2. PcFits(s)
  BY <1>1 DEF PcFits, Alike, Posting
<1>3. RefFits(s) /\ \A k \in DOMAIN s.todo : MoveFits(s, s.todo[k])
  BY <1>1 DEF RefFits, MoveFits, Alike
<1> QED
  BY <1>2, <1>3 DEF Fits

LEMMA ResumesFits ==
  ASSUME NEW i, NEW s \in Request, NEW sheet, NEW todo, NEW cur, Resumes(i, s, sheet, todo, cur)
  PROVE  Fits(s) /\ s.shares = {} /\ s.alloc = {}
<1>1. PICK r \in Request :
        /\ Alike(r, req[i]) /\ Becomes(r, req[i].pc, sheet, todo, cur, {}, {}, req[i].left)
        /\ Ready(r) /\ Onward(s, r)
  BY DEF Resumes
<1>2. s.shares = {} /\ s.alloc = {}
  BY <1>1, FreeIs DEF Onward, Becomes
<1> QED
  BY <1>1, <1>2, OnwardFits

LEMMA ArrivalType ==
  ASSUME TypeOK, Known, NEW i \in Slots, Arrival(i)
  PROVE  TypeOK' /\ Known'
<1>1. PICK s \in Request : Arrives(i, s) /\ Fits(s) /\ s.shares = {} /\ s.alloc = {}
  BY ArrivalDoes
<1>2. /\ Goes(i, s) /\ UNCHANGED <<shelf, books, faults>> /\ disturbed' = disturbed
      /\ started' = started + 1 /\ (troubled' = troubled \/ troubled' = troubled \cup {s.ref})
  BY <1>1 DEF Arrives
<1>3. started' \in Nat /\ disturbed' \subseteq Items /\ troubled' \subseteq Refs
  BY <1>2 DEF TypeOK, Request
<1>4. moves' = moves /\ lots' = lots
  BY <1>2 DEF shelf
<1> QED
  BY <1>1, <1>2, <1>3, <1>4, TypeGoes, KnownGoes

LEMMA WeighsType ==
  ASSUME TypeOK, Known, NEW i \in Slots, Weighs(i)
  PROVE  TypeOK' /\ Known'
<1>1. PICK s \in Request, todo \in Seq(Move) :
         Goes(i, s) /\ Resumes(i, s, Tail(req[i].sheet), todo, req[i].cur)
  BY WeighsDoes
<1>2. UNCHANGED <<shelf, books, started, disturbed, troubled, faults>>
  BY DEF Weighs
<1>3. Fits(s) /\ s.shares = {} /\ s.alloc = {}
  BY <1>1, ResumesFits
<1>4. moves' = moves /\ lots' = lots
  BY <1>2 DEF shelf
<1>5. started' \in Nat /\ disturbed' \subseteq Items /\ troubled' \subseteq Refs
  BY <1>2 DEF TypeOK
<1> QED
  BY <1>1, <1>2, <1>3, <1>4, <1>5, TypeGoes, KnownGoes

LEMMA ReadsItemType ==
  ASSUME TypeOK, Known, NEW i \in Slots, ReadsItem(i)
  PROVE  TypeOK' /\ Known'
<1> DEFINE r == req[i]
<1>1. PICK s \in Request : /\ Goes(i, s) /\ Alike(s, r)
                           /\ Becomes(s, "batch", r.sheet, r.todo, stock[Posted(i).item],
                                      {}, {}, r.left)
                           /\ r.pc = "post" /\ r.todo # <<>>
  BY ReadsItemDoes
<1>2. UNCHANGED <<shelf, books, started, troubled, faults>>
  BY DEF ReadsItem
<1>3. Posted(i).item \in Items
  BY <1>1, PostedIs DEF Move
<1>4. disturbed' \subseteq Items
  BY <1>3 DEF ReadsItem, TypeOK
<1>5. Fits(s)
  BY <1>1, PostingFits DEF Becomes, Posting
<1>6. s.shares = {} /\ s.alloc = {} /\ moves' = moves /\ lots' = lots
  BY <1>1, <1>2 DEF Becomes, shelf
<1>7. started' \in Nat /\ troubled' \subseteq Refs
  BY <1>2 DEF TypeOK
<1> QED
  BY <1>1, <1>2, <1>4, <1>5, <1>6, <1>7, TypeGoes, KnownGoes

LEMMA PlanKnown ==
  ASSUME TypeOK, Known, NEW m \in Move, NEW s \in Plan(m)
  PROVE  s.lot \in DOMAIN lots
<1>1. CASE m.qty < 0
  <2>1. Plan(m) = AllocateFEFO(m.item, -m.qty) /\ -m.qty \in Int
    BY <1>1 DEF Plan, Restores, Move
  <2> QED
    BY <2>1, AllocateIs
<1>2. CASE ~(m.qty < 0)
  <2>1. s \in Allocated(m.ref)
    BY <1>2 DEF Plan
  <2>2. PICK n \in RowsOf(m.ref) : \E t \in moves[n].alloc : t.lot = s.lot
    BY <2>1, AllocatedIs
  <2> QED
    BY <2>2 DEF Known, RowsOf
<1> QED
  BY <1>1, <1>2

LEMMA PlansBatchesType ==
  ASSUME TypeOK, Known, NEW i \in Slots, PlansBatches(i)
  PROVE  TypeOK' /\ Known'
<1> DEFINE r == req[i]
<1>0. PICK p : p = Plan(Posted(i))
  OBVIOUS
<1>1. PICK s \in Request :
           /\ Goes(i, s) /\ Alike(s, r)
           /\ Becomes(s, IF p = {} THEN "insert" ELSE "share", r.sheet, r.todo, r.cur, p,
                      IF Posted(i).qty < 0 THEN p ELSE {}, r.left)
           /\ r.pc = "batch" /\ r.todo # <<>> /\ p \subseteq Share
  BY <1>0, PlansBatchesDoes
<1>2. UNCHANGED <<shelf, books, started, disturbed, troubled, faults>>
  BY DEF PlansBatches
<1>3. Fits(s)
  BY <1>1, PostingFits DEF Becomes, Posting
<1>4. \A x \in p : x.lot \in DOMAIN lots
  BY <1>0, <1>1, PostedIs, PlanKnown
<1>5. \A x \in s.alloc \cup s.shares : x \in p
  BY <1>1 DEF Becomes
<1>6. moves' = moves /\ lots' = lots
  BY <1>2 DEF shelf
<1>7. started' \in Nat /\ disturbed' \subseteq Items /\ troubled' \subseteq Refs
  BY <1>2 DEF TypeOK
<1> QED
  BY <1>1, <1>2, <1>3, <1>4, <1>5, <1>6, <1>7, TypeGoes, KnownGoes

LEMMA ReadsBatchType ==
  ASSUME TypeOK, Known, NEW i \in Slots, ReadsBatch(i)
  PROVE  TypeOK' /\ Known'
<1> DEFINE r == req[i]
<1>1. PICK f \in Foremost(r.shares), s \in Request :
           /\ Goes(i, s) /\ Alike(s, r)
           /\ Becomes(s, "write", r.sheet, r.todo, r.cur, r.shares, r.alloc, lots[f.lot].left)
           /\ r.pc = "share" /\ r.todo # <<>>
  BY ReadsBatchDoes
<1>2. UNCHANGED <<shelf, books, started, disturbed, troubled, faults>>
  BY DEF ReadsBatch
<1>3. r.shares # {}
  BY ShareIs
<1>4. Fits(s)
  BY <1>1, <1>3, PostingFits DEF Becomes, Posting
<1>5. moves' = moves /\ lots' = lots
  BY <1>2 DEF shelf
<1>6. \A x \in s.alloc \cup s.shares : x.lot \in DOMAIN lots
  BY <1>1 DEF Becomes, Known
<1>7. started' \in Nat /\ disturbed' \subseteq Items /\ troubled' \subseteq Refs
  BY <1>2 DEF TypeOK
<1> QED
  BY <1>1, <1>2, <1>4, <1>5, <1>6, <1>7, TypeGoes, KnownGoes

\* One batch's stock is stored.
LEMMA LotWritten ==
  ASSUME TypeOK, NEW b, NEW l \in Int, lots' = [lots EXCEPT ![b].left = l]
  PROVE  /\ lots' \in Seq(LotRow) /\ DOMAIN lots' = DOMAIN lots
         /\ \A c \in DOMAIN lots : /\ lots'[c].item = lots[c].item
                                 /\ lots'[c].received = lots[c].received
                                 /\ lots'[c].expiry = lots[c].expiry
                                 /\ lots'[c].left = IF c = b THEN l ELSE lots[c].left
<1>1. /\ lots \in [1 .. Len(lots) -> LotRow] /\ DOMAIN lots = 1 .. Len(lots)
      /\ Len(lots) \in Nat
  BY DEF TypeOK
<1>2. \A x \in LotRow : LET y == [x EXCEPT !.left = l] IN
        /\ y \in LotRow /\ y.item = x.item /\ y.received = x.received
        /\ y.expiry = x.expiry /\ y.left = l
  BY Zenon DEF LotRow
<1>3. lots' \in [1 .. Len(lots) -> LotRow]
  BY <1>1, <1>2
<1>4. lots' \in Seq(LotRow) /\ DOMAIN lots' = DOMAIN lots
  BY <1>1, <1>3
<1>5. \A c \in DOMAIN lots : /\ lots'[c].item = lots[c].item
                           /\ lots'[c].received = lots[c].received
                           /\ lots'[c].expiry = lots[c].expiry
                           /\ lots'[c].left = IF c = b THEN l ELSE lots[c].left
  <2> TAKE c \in DOMAIN lots
  <2>1. lots[c] \in LotRow /\ lots'[c] = IF c = b THEN [lots[c] EXCEPT !.left = l] ELSE lots[c]
    BY <1>1
  <2> QED
    BY <1>2, <2>1
<1> QED
  BY <1>4, <1>5

LEMMA WritesBatchType ==
  ASSUME TypeOK, Known, NEW i \in Slots, WritesBatch(i)
  PROVE  TypeOK' /\ Known'
<1> DEFINE r == req[i]
<1>1. PICK f \in Foremost(r.shares), s \in Request :
           /\ Goes(i, s) /\ Alike(s, r)
           /\ Becomes(s, IF r.shares \ {f} = {} THEN "insert" ELSE "share", r.sheet, r.todo,
                      r.cur, r.shares \ {f}, r.alloc, 0)
           /\ lots' = [lots EXCEPT ![f.lot].left = Left(r.left, f.qty, Restores(Posted(i)))]
           /\ Left(r.left, f.qty, Restores(Posted(i))) \in Int
           /\ r.pc = "write" /\ r.todo # <<>>
  BY WritesBatchDoes
<1>2. UNCHANGED <<stock, moves, books, started, disturbed, troubled, faults>>
  BY DEF WritesBatch
<1>3. Fits(s)
  BY <1>1, PostingFits DEF Becomes, Posting
<1>4. lots' \in Seq(LotRow) /\ DOMAIN lots' = DOMAIN lots
  BY <1>1, LotWritten
<1>5. \A x \in s.alloc \cup s.shares : x.lot \in DOMAIN lots
  BY <1>1 DEF Becomes, Known
<1>6. TypeOK'
  BY <1>1, <1>2, <1>3, <1>4, GoesType DEF TypeOK, books
<1> QED
  BY <1>1, <1>2, <1>4, <1>5, <1>6, KnownGoes

LEMMA MovesGrow ==
  ASSUME TypeOK, NEW row \in Row, moves' = Append(moves, row)
  PROVE  /\ moves' \in Seq(Row) /\ DOMAIN moves = 1 .. Len(moves) /\ Len(moves) \in Nat
         /\ DOMAIN moves' = DOMAIN moves \cup {Len(moves) + 1}
         /\ Len(moves) + 1 \notin DOMAIN moves
         /\ moves'[Len(moves) + 1] = row
         /\ \A n \in DOMAIN moves : moves'[n] = moves[n]
<1>1. moves \in Seq(Row)
  BY DEF TypeOK
<1> QED
  BY <1>1, AppendProperties

LEMMA InsertsRowGrows ==
  ASSUME TypeOK, NEW i \in Slots, InsertsRow(i)
  PROVE  \E row \in Row :
           /\ moves' = Append(moves, row)
           /\ row.item = Posted(i).item /\ row.qty = Posted(i).qty /\ row.type = Posted(i).type
           /\ row.ref = Posted(i).ref /\ row.alloc = req[i].alloc
<1>1. req[i].todo # <<>> /\ req[i].alloc \in SUBSET Share
  BY InsertsRowDoes, Kept
<1>2. Posted(i) \in Move
  BY <1>1, PostedIs
<1> QED
  BY <1>1, <1>2, RowOfType DEF InsertsRow

LEMMA InsertsRowType ==
  ASSUME TypeOK, Known, NEW i \in Slots, InsertsRow(i)
  PROVE  TypeOK' /\ Known'
<1> DEFINE r == req[i]
<1>1. PICK s \in Request : /\ Goes(i, s) /\ Alike(s, r)
                           /\ Becomes(s, "set", r.sheet, r.todo, r.cur, {}, {}, r.left)
                           /\ r.pc = "insert" /\ r.todo # <<>> /\ r.shares = {}
  BY InsertsRowDoes
<1>2. UNCHANGED <<stock, lots, books, started, disturbed, troubled, faults>>
  BY DEF InsertsRow
<1>3. Fits(s)
  BY <1>1, PostingFits DEF Becomes, Posting
<1>4. PICK row \in Row :
           /\ moves' = Append(moves, row)
           /\ row.item = Posted(i).item /\ row.qty = Posted(i).qty /\ row.type = Posted(i).type
           /\ row.ref = Posted(i).ref /\ row.alloc = r.alloc
  BY InsertsRowGrows
<1>5. /\ moves' \in Seq(Row) /\ DOMAIN moves' = DOMAIN moves \cup {Len(moves) + 1}
      /\ moves'[Len(moves) + 1] = row
      /\ \A n \in DOMAIN moves : moves'[n] = moves[n]
  BY <1>4, MovesGrow
<1>6. row.type = "purchase" => row.qty > 0
  <2>1. MoveFits(r, Posted(i)) /\ r.op \in AllOps
    BY <1>1, PostedIs, OpsServed
  <2> QED
    BY <1>4, <2>1 DEF MoveFits, AllOps
<1>7. \A n \in DOMAIN moves' : moves'[n].type = "purchase" => moves'[n].qty > 0
  BY <1>5, <1>6 DEF TypeOK
<1>8. TypeOK'
  BY <1>1, <1>2, <1>3, <1>5, <1>7, GoesType DEF TypeOK, books
<1>9. \A n \in DOMAIN moves' : \A x \in moves'[n].alloc : x.lot \in DOMAIN lots
  BY <1>4, <1>5 DEF Known
<1>10. \A j \in Slots : \A x \in req'[j].alloc \cup req'[j].shares : x.lot \in DOMAIN lots
  BY <1>1, GoesOne DEF Known, Becomes
<1> QED
  BY <1>2, <1>8, <1>9, <1>10 DEF Known

LEMMA StoresBalanceType ==
  ASSUME TypeOK, Known, NEW i \in Slots, StoresBalance(i)
  PROVE  TypeOK' /\ Known'
<1>1. PICK s \in Request : Goes(i, s) /\ Resumes(i, s, req[i].sheet, Tail(req[i].todo), 0)
  BY StoresBalanceDoes
<1>2. UNCHANGED <<moves, lots, books, started, disturbed, troubled, faults>>
  BY DEF StoresBalance
<1>3. Fits(s) /\ s.shares = {} /\ s.alloc = {}
  BY <1>1, ResumesFits
<1>4. Posted(i) \in Move /\ req[i].cur \in Int
  BY StoresBalanceDoes, PostedIs, Kept
<1>5. Balance(i) \in Int
  BY <1>4 DEF Balance, Move
<1>6. stock' \in [Items -> Int]
  BY <1>5 DEF StoresBalance, TypeOK
<1>7. TypeOK'
  BY <1>1, <1>2, <1>3, <1>6, GoesType DEF TypeOK, books
<1> QED
  BY <1>1, <1>2, <1>3, <1>7, KnownGoes

\* Steps about orders and purchases: the shelf is left alone.
LEMMA BooksType ==
  ASSUME TypeOK, Known, NEW i \in Slots, NEW s \in Request, Goes(i, s), Fits(s),
         s.shares = {}, s.alloc = {},
         UNCHANGED <<shelf, started, disturbed, troubled, faults>>,
         orders' \in [Orders -> [consumed : BOOLEAN, voided : BOOLEAN]],
         purchases' \in Seq(BOOLEAN)
  PROVE  TypeOK' /\ Known'
<1>1. moves' = moves /\ lots' = lots
  BY DEF shelf
<1>2. TypeOK'
  BY GoesType DEF TypeOK, shelf
<1> QED
  BY <1>1, <1>2, KnownGoes

\* One mark of an order is set, the other one kept.
LEMMA OrderMarked ==
  ASSUME TypeOK, NEW o, NEW v \in BOOLEAN
  PROVE  /\ [orders EXCEPT ![o].consumed = v] \in [Orders -> [consumed : BOOLEAN, voided : BOOLEAN]]
         /\ [orders EXCEPT ![o].voided = v] \in [Orders -> [consumed : BOOLEAN, voided : BOOLEAN]]
         /\ \A u \in Orders :
              /\ [orders EXCEPT ![o].consumed = v][u].voided = orders[u].voided
              /\ u # o => [orders EXCEPT ![o].consumed = v][u].consumed = orders[u].consumed
              /\ u = o => [orders EXCEPT ![o].consumed = v][u].consumed = v
              /\ [orders EXCEPT ![o].voided = v][u].consumed = orders[u].consumed
              /\ u # o => [orders EXCEPT ![o].voided = v][u].voided = orders[u].voided
              /\ u = o => [orders EXCEPT ![o].voided = v][u].voided = v
<1> DEFINE B == [consumed : BOOLEAN, voided : BOOLEAN]
<1>1. \A x \in B : /\ [x EXCEPT !.consumed = v] \in B /\ [x EXCEPT !.voided = v] \in B
                   /\ [x EXCEPT !.consumed = v].voided = x.voided
                   /\ [x EXCEPT !.consumed = v].consumed = v
                   /\ [x EXCEPT !.voided = v].consumed = x.consumed
                   /\ [x EXCEPT !.voided = v].voided = v
  BY Zenon
<1>2. orders \in [Orders -> B]
  BY DEF TypeOK
<1>3. PICK x : x = [orders[o] EXCEPT !.consumed = v]
  OBVIOUS
<1>4. PICK y : y = [orders[o] EXCEPT !.voided = v]
  OBVIOUS
<1>5. o \in Orders => /\ x \in B /\ x.voided = orders[o].voided /\ x.consumed = v
                      /\ y \in B /\ y.consumed = orders[o].consumed /\ y.voided = v
  BY <1>1, <1>2, <1>3, <1>4
<1>6. /\ [orders EXCEPT ![o].consumed = v] = [orders EXCEPT ![o] = x]
      /\ [orders EXCEPT ![o].voided = v] = [orders EXCEPT ![o] = y]
  BY <1>3, <1>4, Zenon
<1> HIDE DEF B
<1>7. [orders EXCEPT ![o] = x] \in [Orders -> B] /\ [orders EXCEPT ![o] = y] \in [Orders -> B]
  BY <1>2, <1>5
<1>8. ASSUME NEW u \in Orders
      PROVE  /\ u = o => [orders EXCEPT ![o] = x][u] = x /\ [orders EXCEPT ![o] = y][u] = y
             /\ u # o => [orders EXCEPT ![o] = x][u] = orders[u] /\ [orders EXCEPT ![o] = y][u] = orders[u]
  BY <1>2
<1>9. ASSUME NEW u \in Orders
      PROVE  /\ [orders EXCEPT ![o] = x][u].voided = orders[u].voided
             /\ u # o => [orders EXCEPT ![o] = x][u].consumed = orders[u].consumed
             /\ u = o => [orders EXCEPT ![o] = x][u].consumed = v
             /\ [orders EXCEPT ![o] = y][u].consumed = orders[u].consumed
             /\ u # o => [orders EXCEPT ![o] = y][u].voided = orders[u].voided
             /\ u = o => [orders EXCEPT ![o] = y][u].voided = v
  <2>1. CASE u = o
    BY <1>5, <1>8, <2>1
  <2>2. CASE u # o
    BY <1>8, <2>2
  <2> QED
    BY <2>1, <2>2
<1> QED
  BY <1>6, <1>7, <1>9 DEF B

LEMMA OrderStepType ==
  ASSUME TypeOK, Known, NEW i \in Slots, OrderStep(i)
  PROVE  TypeOK' /\ Known'
<1> DEFINE r == req[i]
<1>0. /\ orders \in [Orders -> [consumed : BOOLEAN, voided : BOOLEAN]]
      /\ purchases \in Seq(BOOLEAN)
      /\ FreeSlot \in Request /\ Fits(FreeSlot) /\ FreeSlot.shares = {} /\ FreeSlot.alloc = {}
  BY FreeIs DEF TypeOK, Becomes
<1>1. CASE Claims(i)
  <2>1. PICK s \in Request : Goes(i, s) /\ Fits(s) /\ s.shares = {} /\ s.alloc = {}
    BY <1>0, <1>1, ClaimsDoes, ResumesFits DEF Answers
  <2>2. orders' \in [Orders -> [consumed : BOOLEAN, voided : BOOLEAN]]
    <3>1. orders' = [orders EXCEPT ![r.ref.id].consumed = TRUE] \/ orders' = orders
      BY <1>1, ClaimsDoes
    <3>2. PICK o : o = r.ref.id
      OBVIOUS
    <3>3. [orders EXCEPT ![o].consumed = TRUE] \in [Orders -> [consumed : BOOLEAN, voided : BOOLEAN]]
      BY OrderMarked
    <3> QED
      BY <1>0, <3>1, <3>2, <3>3
  <2>3. UNCHANGED <<shelf, purchases, started, disturbed, troubled, faults>>
    BY <1>1 DEF Claims
  <2> QED
    BY <1>0, <2>1, <2>2, <2>3, BooksType
<1>2. CASE Snapshots(i)
  BY <1>0, <1>2, BooksType DEF Snapshots, Answers, books
<1>3. CASE Reopens(i)
  <2>1. orders' \in [Orders -> [consumed : BOOLEAN, voided : BOOLEAN]]
    BY <1>3, OrderMarked DEF Reopens
  <2> QED
    BY <1>0, <1>3, <2>1, BooksType DEF Reopens, Answers
<1>4. CASE Cancels(i)
  <2>1. PICK s \in Request : /\ Goes(i, s) /\ Alike(s, r)
                              /\ Becomes(s, "sales", r.sheet, <<>>, r.cur, {}, {}, r.left)
    BY <1>4, CancelsDoes
  <2>2. Fits(s)
    <3>1. r.op = "void" /\ r.pc = "cancel" /\ RefFits(r) /\ PcFits(r)
      BY <1>4, CancelsDoes, Kept
    <3> QED
      BY <2>1, <3>1 DEF Fits, PcFits, RefFits, Alike, Becomes, Posting
  <2>3. orders' \in [Orders -> [consumed : BOOLEAN, voided : BOOLEAN]]
    BY <1>4, OrderMarked DEF Cancels
  <2>4. s.shares = {} /\ s.alloc = {}
    BY <2>1 DEF Becomes
  <2>5. UNCHANGED <<shelf, purchases, started, disturbed, troubled, faults>>
    BY <1>4 DEF Cancels
  <2> QED
    BY <1>0, <2>1, <2>2, <2>3, <2>4, <2>5, BooksType
<1>5. CASE ReadsSales(i)
  <2>1. PICK s \in Request : Goes(i, s) /\ Fits(s) /\ s.shares = {} /\ s.alloc = {}
    <3>1. CASE Answers(i)
      BY <1>0, <3>1 DEF Answers
    <3>2. CASE \E s \in Request :
                 /\ Goes(i, s) /\ Alike(s, r)
                 /\ Becomes(s, "already", r.sheet, Reversals(Rows(r.ref, "sale")), r.cur,
                            {}, {}, r.left)
                 /\ \A k \in DOMAIN Reversals(Rows(r.ref, "sale")) :
                      MoveFits(s, Reversals(Rows(r.ref, "sale"))[k])
      <4>1. PICK s \in Request :
                 /\ Goes(i, s) /\ Alike(s, r)
                 /\ Becomes(s, "already", r.sheet, Reversals(Rows(r.ref, "sale")), r.cur,
                            {}, {}, r.left)
                 /\ \A k \in DOMAIN Reversals(Rows(r.ref, "sale")) :
                      MoveFits(s, Reversals(Rows(r.ref, "sale"))[k])
        BY <3>2
      <4>2. r.op = "void" /\ RefFits(r) /\ PcFits(r) /\ r.pc = "sales"
        BY <1>5, ReadsSalesDoes, Kept
      <4>3. PcFits(s) /\ RefFits(s)
        BY <4>1, <4>2 DEF PcFits, RefFits, Alike, Becomes, Posting
      <4>4. \A k \in DOMAIN s.todo : MoveFits(s, s.todo[k])
        BY <4>1 DEF Becomes
      <4> QED
        BY <4>1, <4>3, <4>4 DEF Fits, Becomes
    <3> QED
      BY <1>5, <3>1, <3>2, ReadsSalesDoes
  <2>2. UNCHANGED <<shelf, books, started, disturbed, troubled, faults>>
    BY <1>5 DEF ReadsSales
  <2> QED
    BY <1>0, <2>1, <2>2, BooksType DEF books
<1>6. CASE ChecksReversed(i)
  <2>1. PICK s \in Request : Goes(i, s) /\ Fits(s) /\ s.shares = {} /\ s.alloc = {}
    BY <1>0, <1>6, ChecksReversedDoes, ResumesFits DEF Answers
  <2>2. UNCHANGED <<shelf, books, started, disturbed, troubled, faults>>
    BY <1>6 DEF ChecksReversed
  <2> QED
    BY <1>0, <2>1, <2>2, BooksType DEF books
<1> QED
  BY <1>1, <1>2, <1>3, <1>4, <1>5, <1>6 DEF OrderStep

LEMMA PurchaseStepType ==
  ASSUME TypeOK, Known, NEW i \in Slots, PurchaseStep(i)
  PROVE  TypeOK' /\ Known'
<1>0. /\ orders \in [Orders -> [consumed : BOOLEAN, voided : BOOLEAN]]
      /\ purchases \in Seq(BOOLEAN)
  BY DEF TypeOK
<1>1. CASE BooksPurchase(i)
  <2>1. PICK s \in Request : Goes(i, s) /\ Fits(s) /\ s.shares = {} /\ s.alloc = {}
    BY <1>1, BooksPurchaseDoes
  <2>2. purchases' \in Seq(BOOLEAN)
    BY <1>0, <1>1 DEF BooksPurchase
  <2>3. UNCHANGED <<shelf, orders, started, disturbed, troubled, faults>>
    BY <1>1 DEF BooksPurchase
  <2> QED
    BY <1>0, <2>1, <2>2, <2>3, BooksType
<1>2. CASE Shelves(i)
  <2>1. Answers(i)
    BY <1>2, ShelvesDoes
  <2>2. UNCHANGED <<stock, moves, books, started, disturbed, troubled, faults>>
    BY <1>2 DEF Shelves
  <2>3. lots' \in Seq(LotRow) /\ DOMAIN lots \subseteq DOMAIN lots'
    <3>1. lots \in Seq(LotRow)
      BY DEF TypeOK
    <3>2. CASE lots' = lots
      BY <3>1, <3>2
    <3>3. CASE \E l \in LotRow : lots' = Append(lots, l)
      BY <3>1, <3>3, AppendProperties
    <3> QED
      BY <1>2, <3>2, <3>3, ShelvesDoes
  <2>4. TypeOK'
    BY <2>1, <2>2, <2>3, AnswersDoes DEF TypeOK, books
  <2> QED
    BY <2>1, <2>2, <2>3, <2>4, FreeKnows
<1>3. CASE ReadsBought(i)
  <2>1. PICK s \in Request : Goes(i, s) /\ Fits(s) /\ s.shares = {} /\ s.alloc = {}
    BY <1>3, ReadsBoughtDoes, ResumesFits
  <2>2. UNCHANGED <<shelf, books, started, disturbed, troubled, faults>>
    BY <1>3 DEF ReadsBought
  <2> QED
    BY <1>0, <2>1, <2>2, BooksType DEF books
<1> QED
  BY <1>1, <1>2, <1>3 DEF PurchaseStep

LEMMA ClosesType ==
  ASSUME TypeOK, Known, NEW i \in Slots, Closes(i)
  PROVE  TypeOK' /\ Known'
<1> DEFINE r == req[i]
<1>0. /\ orders \in [Orders -> [consumed : BOOLEAN, voided : BOOLEAN]]
      /\ purchases \in Seq(BOOLEAN)
      /\ FreeSlot \in Request /\ Fits(FreeSlot) /\ FreeSlot.shares = {} /\ FreeSlot.alloc = {}
  BY FreeIs DEF TypeOK, Becomes
<1>1. Goes(i, FreeSlot) /\ UNCHANGED <<shelf, started, disturbed, troubled, faults>>
  BY DEF Closes, Answers
<1>2. /\ orders' \in [Orders -> [consumed : BOOLEAN, voided : BOOLEAN]]
      /\ purchases' \in Seq(BOOLEAN)
  <2>1. CASE orders' = [orders EXCEPT ![r.ref.id].consumed = FALSE] /\ purchases' = purchases
    BY <1>0, <2>1, OrderMarked
  <2>2. CASE purchases' = [purchases EXCEPT ![r.ref.id] = TRUE] /\ orders' = orders
    <3>1. PICK p : p = r.ref.id
      OBVIOUS
    <3>2. purchases \in [1 .. Len(purchases) -> BOOLEAN] /\ Len(purchases) \in Nat
      BY <1>0
    <3>3. [purchases EXCEPT ![p] = TRUE] \in [1 .. Len(purchases) -> BOOLEAN]
      BY <3>2
    <3> QED
      BY <1>0, <2>2, <3>1, <3>2, <3>3
  <2> QED
    BY <2>1, <2>2, ClosesDoes
<1> QED
  BY <1>0, <1>1, <1>2, BooksType

LEMMA FaultType ==
  ASSUME TypeOK, Known, NEW i \in Slots, Fault(i)
  PROVE  TypeOK' /\ Known'
<1> DEFINE r == req[i]
<1>1. UNCHANGED <<shelf, books, started>> /\ faults' = faults + 1 /\ Marks(i)
  BY DEF Fault, Throws, Evicted, Strikes
<1>2. disturbed' \subseteq Items /\ troubled' \subseteq Refs /\ faults' \in Nat
  BY <1>1, Kept DEF Marks, TypeOK
<1>3. moves' = moves /\ lots' = lots
  BY <1>1 DEF shelf
<1>4. PICK s \in Request : Goes(i, s) /\ Fits(s) /\ s.shares = {} /\ s.alloc = {}
  BY ThrowsDoes, FreeIs DEF Fault, Evicted, Answers, Becomes
<1>5. TypeOK'
  BY <1>1, <1>2, <1>4, GoesType DEF TypeOK, shelf, books
<1> QED
  BY <1>3, <1>4, <1>5, KnownGoes

LEMMA TypeInit == Init => TypeOK /\ Known
<1> SUFFICES ASSUME Init PROVE TypeOK /\ Known
  OBVIOUS
<1>1. moves = <<>> /\ lots \in Seq(LotRow)
  <2>1. moves = <<>> /\ lots \in Seq(Lot)
    BY LotsAssumption DEF Init
  <2>2. \A l \in Lot : l \in LotRow
    BY DEF Lot, LotRow
  <2>3. \A k \in 1 .. Len(lots) : lots[k] \in LotRow
    BY <2>1, <2>2
  <2>4. Len(lots) \in Nat /\ lots = [k \in 1 .. Len(lots) |-> lots[k]]
    BY <2>1
  <2> HIDE DEF LotRow
  <2> QED
    BY <2>1, <2>3, <2>4
<1>2. \A i \in Slots : req[i] = FreeSlot
  BY DEF Init
<1>3. req \in [Slots -> Request] /\ \A i \in Slots : Fits(req[i])
  BY <1>2, FreeIs DEF Init
<1>4. /\ orders \in [Orders -> [consumed : BOOLEAN, voided : BOOLEAN]]
      /\ purchases \in Seq(BOOLEAN) /\ moves \in Seq(Row) /\ stock \in [Items -> Int]
  BY ItemsAssumption DEF Init
<1>5. TypeOK
  BY <1>1, <1>3, <1>4 DEF TypeOK, Init
<1>6. Known
  BY <1>1, <1>2, FreeIs DEF Known, Becomes
<1> QED
  BY <1>5, <1>6

LEMMA TypeNext == TypeOK /\ Known /\ [Next]_vars => TypeOK' /\ Known'
<1> SUFFICES ASSUME TypeOK, Known, [Next]_vars PROVE TypeOK' /\ Known'
  OBVIOUS
<1>1. CASE UNCHANGED vars
  BY <1>1 DEF TypeOK, Known, vars, shelf, books
<1>2. ASSUME NEW i \in Slots,
             Arrival(i) \/ PostStep(i) \/ OrderStep(i) \/ PurchaseStep(i) \/ Closes(i) \/ Fault(i)
      PROVE  TypeOK' /\ Known'
  BY <1>2, ArrivalType, WeighsType, ReadsItemType, PlansBatchesType, ReadsBatchType,
     WritesBatchType, InsertsRowType, StoresBalanceType, OrderStepType, PurchaseStepType,
     ClosesType, FaultType DEF PostStep
<1> QED
  BY <1>1, <1>2 DEF Next

\* Every variable of the ledger keeps its type: a request is only ever at a step of its own
\* handler, with the movements that handler posts, and every share is of a batch there is.
THEOREM TypeCorrect == Spec => [](TypeOK /\ Known)
BY TypeInit, TypeNext, PTL DEF Spec

-----------------------------------------------------------------------------
(* Steps that post nothing.                                                *)

LEMMA ResumesQuiet ==
  ASSUME NEW i, NEW s \in Request, NEW sheet, NEW todo, NEW cur, Resumes(i, s, sheet, todo, cur)
  PROVE  s.pc \notin Posting
BY FreeIs DEF Resumes, Onward, Becomes, Posting

\* A step that posts nothing leaves the stock and the movements alone, and its request is
\* not in the middle of a posting before it or after it.
Quiet(i) ==
  /\ \E s \in Request : Goes(i, s) /\ s.pc \notin Posting /\ s.alloc = {} /\ s.shares = {}
  /\ req[i].pc \notin Posting
  /\ UNCHANGED <<stock, moves, disturbed>>

LEMMA AnswersQuiet ==
  ASSUME NEW i, Answers(i)
  PROVE  \E s \in Request : Goes(i, s) /\ s.pc \notin Posting /\ s.alloc = {} /\ s.shares = {}
BY FreeIs DEF Answers, Becomes, Posting

LEMMA ArrivalQuiet ==
  ASSUME TypeOK, NEW i \in Slots, Arrival(i) PROVE Quiet(i)
<1>1. PICK s \in Request : /\ Arrives(i, s) /\ s.shares = {} /\ s.alloc = {}
                           /\ s.pc \in {"claim", "cancel", "bought", "post", "weigh", "bill"}
  BY ArrivalDoes
<1> QED
  BY <1>1 DEF Arrives, At, Quiet, Posting, shelf

LEMMA OrderStepQuiet ==
  ASSUME TypeOK, NEW i \in Slots, OrderStep(i) PROVE Quiet(i)
<1>1. CASE Claims(i)
  <2>1. UNCHANGED <<stock, moves, disturbed>>
    BY <1>1 DEF Claims, shelf
  <2> QED
    BY <1>1, <2>1, ClaimsDoes, AnswersQuiet, ResumesQuiet, ResumesFits DEF Quiet, Posting
<1>2. CASE Snapshots(i)
  BY <1>2, AnswersQuiet DEF Snapshots, Quiet, At, Posting, shelf
<1>3. CASE Reopens(i)
  BY <1>3, AnswersQuiet DEF Reopens, Quiet, At, Posting, shelf
<1>4. CASE Cancels(i)
  <2>1. UNCHANGED <<stock, moves, disturbed>>
    BY <1>4 DEF Cancels, shelf
  <2> QED
    BY <1>4, <2>1, CancelsDoes DEF Quiet, Becomes, Posting
<1>5. CASE ReadsSales(i)
  <2>1. UNCHANGED <<stock, moves, disturbed>>
    BY <1>5 DEF ReadsSales, shelf
  <2>2. CASE Answers(i)
    BY <1>5, <2>1, <2>2, ReadsSalesDoes, AnswersQuiet DEF Quiet, Posting
  <2>3. CASE ~Answers(i)
    <3>1. PICK s \in Request : /\ Goes(i, s)
                               /\ Becomes(s, "already", req[i].sheet,
                                     Reversals(Rows(req[i].ref, "sale")), req[i].cur, {}, {}, req[i].left)
      BY <1>5, <2>3, ReadsSalesDoes
    <3>2. s.pc = "already" /\ s.shares = {} /\ s.alloc = {} /\ req[i].pc = "sales"
      BY <1>5, <3>1, ReadsSalesDoes DEF Becomes
    <3> QED
      BY <2>1, <3>1, <3>2 DEF Quiet, Posting
  <2> QED
    BY <2>2, <2>3
<1>6. CASE ChecksReversed(i)
  <2>1. UNCHANGED <<stock, moves, disturbed>>
    BY <1>6 DEF ChecksReversed, shelf
  <2> QED
    BY <1>6, <2>1, ChecksReversedDoes, AnswersQuiet, ResumesQuiet, ResumesFits DEF Quiet, Posting
<1> QED
  BY <1>1, <1>2, <1>3, <1>4, <1>5, <1>6 DEF OrderStep

LEMMA PurchaseStepQuiet ==
  ASSUME TypeOK, NEW i \in Slots, PurchaseStep(i) \/ Closes(i) \/ Weighs(i) PROVE Quiet(i)
<1>1. CASE BooksPurchase(i)
  <2>1. UNCHANGED <<stock, moves, disturbed>>
    BY <1>1 DEF BooksPurchase, shelf
  <2>2. PICK s \in Request : Goes(i, s) /\ s.pc = "post" /\ s.shares = {} /\ s.alloc = {}
    BY <1>1, BooksPurchaseDoes
  <2> QED
    BY <1>1, <2>1, <2>2, BooksPurchaseDoes DEF Quiet, Posting
<1>2. CASE Shelves(i)
  BY <1>2, ShelvesDoes, AnswersQuiet DEF Shelves, Quiet, Posting
<1>3. CASE ReadsBought(i)
  <2>1. UNCHANGED <<stock, moves, disturbed>>
    BY <1>3 DEF ReadsBought, shelf
  <2> QED
    BY <1>3, <2>1, ReadsBoughtDoes, ResumesQuiet, ResumesFits DEF Quiet, Posting
<1>4. CASE Closes(i)
  <2>1. UNCHANGED <<stock, moves, disturbed>>
    BY <1>4 DEF Closes, shelf
  <2> QED
    BY <1>4, <2>1, ClosesDoes, AnswersQuiet DEF Quiet, Posting
<1>5. CASE Weighs(i)
  <2>1. UNCHANGED <<stock, moves, disturbed>>
    BY <1>5 DEF Weighs, shelf
  <2>2. PICK s \in Request, todo \in Seq(Move) :
           Goes(i, s) /\ Resumes(i, s, Tail(req[i].sheet), todo, req[i].cur)
    BY <1>5, WeighsDoes
  <2> QED
    BY <1>5, <2>1, <2>2, WeighsDoes, ResumesQuiet, ResumesFits DEF Quiet, Posting
<1> QED
  BY <1>1, <1>2, <1>3, <1>4, <1>5 DEF PurchaseStep

-----------------------------------------------------------------------------
(* The stock is the ledger.                                                *)

\* What the movements of an item come to.
Booked(x) == RowSum({n \in DOMAIN moves : moves[n].item = x})

LEMMA RowSumType ==
  ASSUME TypeOK, NEW x PROVE Booked(x) \in Int
<1> DEFINE f == [n \in DOMAIN moves |-> moves[n].qty]
           S == {n \in DOMAIN moves : moves[n].item = x}
<1>1. DOMAIN moves = 1 .. Len(moves) /\ Len(moves) \in Nat /\ \A n \in DOMAIN moves : moves[n] \in Row
  BY DEF TypeOK
<1>2. IsFiniteSet(S)
  <2>1. IsFiniteSet(DOMAIN moves) /\ S \in SUBSET (DOMAIN moves)
    BY <1>1, FS_Interval
  <2> HIDE DEF S
  <2> QED
    BY <2>1, FS_Subset
<1>3. \A n \in S : f[n] \in Int
  BY <1>1 DEF Row
<1> HIDE DEF f, S
<1>4. SumOver(f, S) \in Int
  BY <1>2, <1>3, SumType
<1> QED
  BY <1>4 DEF f, S, Booked, RowSum

\* A row that is inserted counts for its item.
LEMMA BookedGrows ==
  ASSUME TypeOK, NEW row \in Row, moves' = Append(moves, row), NEW x
  PROVE  /\ row.item = x => Booked(x)' = Booked(x) + row.qty
         /\ row.item # x => Booked(x)' = Booked(x)
<1> DEFINE f == [n \in DOMAIN moves |-> moves[n].qty]
           S == {n \in DOMAIN moves : moves[n].item = x}
           g == [n \in DOMAIN moves' |-> moves'[n].qty]
           T == {n \in DOMAIN moves' : moves'[n].item = x}
           k == Len(moves) + 1
<1>1. /\ DOMAIN moves = 1 .. Len(moves) /\ Len(moves) \in Nat
      /\ DOMAIN moves' = DOMAIN moves \cup {k} /\ k \notin DOMAIN moves
      /\ moves'[k] = row /\ \A n \in DOMAIN moves : moves'[n] = moves[n]
  BY MovesGrow
<1>2. \A n \in DOMAIN moves : moves[n] \in Row
  BY DEF TypeOK
<1>3. IsFiniteSet(S) /\ k \notin S
  <2>1. IsFiniteSet(DOMAIN moves) /\ S \in SUBSET (DOMAIN moves) /\ k \notin S
    BY <1>1, FS_Interval
  <2> HIDE DEF S
  <2> QED
    BY <2>1, FS_Subset
<1>4. \A n \in S : f[n] = g[n] /\ g[n] \in Int
  BY <1>1, <1>2 DEF Row
<1>5. g[k] = row.qty /\ row.qty \in Int
  BY <1>1 DEF Row
<1>6. /\ row.item = x => T = S \cup {k}
      /\ row.item # x => T = S
  BY <1>1
<1>7. Booked(x) = SumOver(f, S)
  BY DEF Booked, RowSum
<1>8. Booked(x)' = SumOver(g, T)
  BY DEF Booked, RowSum
<1> HIDE DEF f, S, g, T, k
<1>9. SumOver(f, S) = SumOver(g, S)
  BY <1>3, <1>4, SumSame
<1>10. SumOver(g, S) \in Int
  BY <1>3, <1>4, SumType
<1>11. ASSUME row.item = x PROVE SumOver(g, T) = SumOver(g, S) + row.qty
  <2>1. SumOver(g, S \cup {k}) = g[k] + SumOver(g, S)
    <3>1. \A n \in S \cup {k} : g[n] \in Int
      BY <1>4, <1>5
    <3> QED
      BY <1>3, <3>1, SumAdd
  <2>2. SumOver(g, T) = g[k] + SumOver(g, S)
    BY <1>6, <1>11, <2>1
  <2> QED
    BY <1>5, <1>10, <2>2
<1> QED
  BY <1>6, <1>7, <1>8, <1>9, <1>11

\* The balance of a movement on record is still to be stored.
Late(i, x) == req[i].pc = "set" /\ Posted(i).item = x

\* Of an item whose postings neither overlapped nor were cut short: the stock is what the
\* movements come to, but for the one movement whose balance is still to be stored.
Even == \A x \in Items \ disturbed :
  /\ (\A i \in Slots : ~Late(i, x)) => stock[x] = Opening[x] + Booked(x)
  /\ \A i \in Slots : Late(i, x) => stock[x] + Posted(i).qty = Opening[x] + Booked(x)

LEMMA EvenMeans ==
  ASSUME TypeOK, Alone, Even PROVE StockIsLedger
<1> SUFFICES ASSUME NEW x \in Items \ disturbed
             PROVE  LET late == {i \in Slots : At(i, "set") /\ Posted(i).item = x}
                    IN stock[x] + SumOver([i \in late |-> Posted(i).qty], late)
                         = Opening[x] + RowSum({n \in DOMAIN moves : moves[n].item = x})
  BY DEF StockIsLedger
<1> DEFINE late == {i \in Slots : At(i, "set") /\ Posted(i).item = x}
           f == [i \in late |-> Posted(i).qty]
<1>1. stock[x] \in Int /\ Booked(x) = RowSum({n \in DOMAIN moves : moves[n].item = x})
  BY DEF TypeOK, Booked
<1>2. CASE \A i \in Slots : ~Late(i, x)
  <2>1. late = {}
    BY <1>2 DEF Late, At
  <2>2. SumOver(f, late) = 0
    BY <2>1, SumEmpty
  <2>3. stock[x] = Opening[x] + Booked(x)
    BY <1>2 DEF Even
  <2> QED
    BY <1>1, <2>2, <2>3
<1>3. ASSUME NEW i \in Slots, Late(i, x)
      PROVE  stock[x] + SumOver(f, late) = Opening[x] + Booked(x)
  <2>1. \A j \in Slots \ {i} : ~Late(j, x)
    BY <1>3 DEF Alone, Posts, Late, Posting
  <2>2. late = {i}
    BY <1>3, <2>1 DEF Late, At
  <2>3. Posted(i).qty \in Int
    BY <1>3, PostedIs, Kept DEF Late, PcFits, Posting, Move
  <2>4. f[i] = Posted(i).qty /\ i \in late
    BY <2>2
  <2>5. SumOver(f, late) = Posted(i).qty
    <3> HIDE DEF f, late
    <3>1. SumOver(f, {} \cup {i}) = f[i] + SumOver(f, {})
      BY <2>3, <2>4, FS_EmptySet, SumAdd
    <3> QED
      BY <2>2, <2>3, <2>4, <3>1, SumEmpty
  <2>6. stock[x] + Posted(i).qty = Opening[x] + Booked(x)
    BY <1>3 DEF Even
  <2> QED
    BY <2>5, <2>6
<1> QED
  BY <1>1, <1>2, <1>3

\* A request that is posting a movement of an item, and one whose balance is to be stored.
PostsAs(r, x) == r.pc \in Posting /\ Head(r.todo).item = x
LateAs(r, x)  == r.pc = "set" /\ Head(r.todo).item = x

\* A step that posts nothing, or goes on with a posting and writes no row and no balance.
LEMMA Undisturbed ==
  ASSUME TypeOK, NEW i \in Slots, NEW s, Goes(i, s), stock' = stock, moves' = moves,
         disturbed \subseteq disturbed',
         \A x \in Items \ disturbed' :
           /\ PostsAs(s, x) => PostsAs(req[i], x) /\ s.cur = req[i].cur
           /\ LateAs(s, x) <=> LateAs(req[i], x)
           /\ LateAs(s, x) => Head(s.todo).qty = Head(req[i].todo).qty,
         Alone, Even
  PROVE  Alone' /\ Even'
<1>1. req'[i] = s /\ \A j \in Slots \ {i} : req'[j] = req[j]
  BY GoesOne
<1>2. \A j \in Slots \ {i} : Posted(j)' = Posted(j)
  BY <1>1 DEF Posted
<1>3. Posted(i)' = Head(s.todo) /\ Posted(i) = Head(req[i].todo)
  BY <1>1 DEF Posted
<1>4. ASSUME NEW x \in Items \ disturbed', NEW j \in Slots
      PROVE  /\ Posts(j, x)' => Posts(j, x) /\ req'[j].cur = req[j].cur
             /\ Late(j, x)' <=> Late(j, x)
             /\ Late(j, x) => Posted(j)'.qty = Posted(j).qty
  <2>1. CASE j = i
    BY <1>1, <1>3, <2>1 DEF Posts, Late, PostsAs, LateAs
  <2>2. CASE j # i
    BY <1>1, <1>2, <2>2 DEF Posts, Late
  <2> QED
    BY <2>1, <2>2
<1>5. Alone'
  BY <1>4 DEF Alone
<1>6. \A x : Booked(x)' = Booked(x)
  BY DEF Booked, RowSum
<1>7. Even'
  BY <1>4, <1>6 DEF Even
<1> QED
  BY <1>5, <1>7

LEMMA QuietEven ==
  ASSUME TypeOK, Alone, Even, NEW i \in Slots, Quiet(i)
  PROVE  Alone' /\ Even'
<1>1. PICK s \in Request : Goes(i, s) /\ s.pc \notin Posting
  BY DEF Quiet
<1>2. req[i].pc \notin Posting /\ UNCHANGED <<stock, moves, disturbed>>
  BY DEF Quiet
<1>3. \A x : ~PostsAs(s, x) /\ ~LateAs(s, x) /\ ~LateAs(req[i], x)
  BY <1>1, <1>2 DEF PostsAs, LateAs, Posting
<1> QED
  BY <1>1, <1>2, <1>3, Undisturbed

\* The posting goes on.
LEMMA PostingEven ==
  ASSUME TypeOK, Alone, Even, Known, NEW i \in Slots,
         PlansBatches(i) \/ ReadsBatch(i) \/ WritesBatch(i)
  PROVE  Alone' /\ Even'
<1> DEFINE r == req[i]
<1>1. PICK s \in Request : /\ Goes(i, s) /\ s.pc \in {"share", "write", "insert"}
                           /\ s.todo = r.todo /\ s.cur = r.cur
                           /\ r.pc \in {"batch", "share", "write"}
  <2>1. CASE PlansBatches(i)
    BY <2>1, PlansBatchesDoes DEF Becomes
  <2>2. CASE ReadsBatch(i)
    BY <2>2, ReadsBatchDoes DEF Becomes
  <2>3. CASE WritesBatch(i)
    BY <2>3, WritesBatchDoes DEF Becomes
  <2> QED
    BY <2>1, <2>2, <2>3
<1>2. UNCHANGED <<stock, moves, disturbed>>
  BY DEF PlansBatches, ReadsBatch, WritesBatch, shelf
<1>3. \A x : /\ ~LateAs(s, x) /\ ~LateAs(r, x)
             /\ PostsAs(s, x) => PostsAs(r, x) /\ s.cur = r.cur
  BY <1>1 DEF PostsAs, LateAs, Posting
<1> QED
  BY <1>1, <1>2, <1>3, Undisturbed

\* What a request that is cut off was posting is disturbed.
LEMMA FaultEven ==
  ASSUME TypeOK, Alone, Even, NEW i \in Slots, Fault(i)
  PROVE  Alone' /\ Even'
<1> DEFINE r == req[i]
<1>1. stock' = stock /\ moves' = moves
  BY DEF Fault, Throws, Evicted, shelf
<1>2. disturbed' = disturbed \cup {x \in Items : PostsAs(r, x)}
  BY DEF Fault, Throws, Evicted, Marks, PostsAs, Posted
<1>3. \A x \in Items \ disturbed' : ~PostsAs(r, x) /\ ~LateAs(r, x)
  BY <1>2 DEF PostsAs, LateAs, Posting
<1>4. PICK s \in Request : /\ Goes(i, s)
                           /\ s.pc \notin Posting \/ (r.pc \in Posting /\ s.todo = r.todo)
  BY ThrowsDoes, AnswersQuiet DEF Fault, Evicted, Becomes, Posting
<1>5. \A x \in Items \ disturbed' : ~PostsAs(s, x) /\ ~LateAs(s, x)
  BY <1>3, <1>4 DEF PostsAs, LateAs, Posting
<1> QED
  BY <1>1, <1>2, <1>3, <1>4, <1>5, Undisturbed

\* An item whose posting begins while another one is under way is disturbed.
LEMMA ReadsItemEven ==
  ASSUME TypeOK, Alone, Even, NEW i \in Slots, ReadsItem(i)
  PROVE  Alone' /\ Even'
<1> DEFINE r == req[i]
           p == Posted(i).item
<1>1. PICK s \in Request : /\ Goes(i, s) /\ s.pc = "batch" /\ s.todo = r.todo
                           /\ s.cur = stock[p] /\ r.pc = "post" /\ r.todo # <<>>
  BY ReadsItemDoes DEF Becomes
<1>2. stock' = stock /\ moves' = moves
  BY DEF ReadsItem, shelf
<1>3. disturbed' = disturbed \cup {x \in {p} : \E j \in Slots \ {i} : Posts(j, x)}
  BY DEF ReadsItem, Posts
<1>4. req'[i] = s /\ \A j \in Slots \ {i} : req'[j] = req[j]
  BY <1>1, GoesOne
<1>5. \A j \in Slots : Posted(j)' = Posted(j)
  BY <1>1, <1>4 DEF Posted
<1>6. \A j \in Slots \ {i}, x \in Items : Posts(j, x)' <=> Posts(j, x)
  BY <1>4, <1>5 DEF Posts
<1>7. \A x \in Items : (Posts(i, x)' <=> x = p) /\ ~Posts(i, x)
  BY <1>1, <1>4, <1>5 DEF Posts, Posting
<1>8. \A j \in Slots, x \in Items : (Late(j, x)' <=> Late(j, x)) /\ Posted(j)'.qty = Posted(j).qty
  BY <1>1, <1>4, <1>5 DEF Late
<1>9. Alone'
  <2> SUFFICES ASSUME NEW x \in Items \ disturbed', NEW j \in Slots, Posts(j, x)'
               PROVE  req'[j].cur = stock'[x] /\ \A k \in Slots \ {j} : ~Posts(k, x)'
    BY DEF Alone
  <2>1. CASE j = i
    <3>1. x = p /\ \A k \in Slots \ {i} : ~Posts(k, x)
      BY <1>3, <1>7, <2>1
    <3> QED
      BY <1>1, <1>2, <1>4, <1>6, <2>1, <3>1
  <2>2. CASE j # i
    <3>1. Posts(j, x) /\ x \in Items \ disturbed
      BY <1>3, <1>6, <2>2
    <3>2. x # p
      BY <1>3, <2>2, <3>1
    <3>3. req[j].cur = stock[x] /\ \A k \in Slots \ {j} : ~Posts(k, x)
      BY <3>1 DEF Alone
    <3> QED
      BY <1>2, <1>4, <1>6, <1>7, <2>2, <3>2, <3>3
  <2> QED
    BY <2>1, <2>2
<1>10. \A x : Booked(x)' = Booked(x)
  BY <1>2 DEF Booked, RowSum
<1>11. Even'
  BY <1>2, <1>3, <1>8, <1>10 DEF Even
<1> QED
  BY <1>9, <1>11

LEMMA InsertsRowEven ==
  ASSUME TypeOK, Alone, Even, NEW i \in Slots, InsertsRow(i)
  PROVE  Alone' /\ Even'
<1> DEFINE r == req[i]
           p == Posted(i)
<1>1. PICK s \in Request : /\ Goes(i, s) /\ s.pc = "set" /\ s.todo = r.todo
                           /\ s.cur = r.cur /\ r.pc = "insert" /\ r.todo # <<>>
  BY InsertsRowDoes DEF Becomes
<1>2. stock' = stock /\ disturbed' = disturbed
  BY DEF InsertsRow
<1>3. PICK row \in Row : /\ moves' = Append(moves, row)
                         /\ row.item = p.item /\ row.qty = p.qty
  BY InsertsRowGrows
<1>4. req'[i] = s /\ \A j \in Slots \ {i} : req'[j] = req[j]
  BY <1>1, GoesOne
<1>5. \A j \in Slots : Posted(j)' = Posted(j)
  BY <1>1, <1>4 DEF Posted
<1>6. \A j \in Slots, x \in Items : /\ Posts(j, x)' <=> Posts(j, x)
                                  /\ req'[j].cur = req[j].cur
  BY <1>1, <1>4, <1>5 DEF Posts, Posting
<1>7. Alone'
  BY <1>2, <1>6 DEF Alone
<1>8. \A x : /\ row.item = x => Booked(x)' = Booked(x) + row.qty
             /\ row.item # x => Booked(x)' = Booked(x)
  BY <1>3, BookedGrows
<1>9. \A j \in Slots \ {i}, x \in Items : Late(j, x)' <=> Late(j, x)
  BY <1>4, <1>5 DEF Late
<1>10. \A x \in Items : (Late(i, x)' <=> x = p.item) /\ ~Late(i, x)
  BY <1>1, <1>4, <1>5 DEF Late
<1>11. \A x \in Items : Booked(x) \in Int /\ stock[x] \in Int /\ Opening[x] \in Int
  BY RowSumType, ItemsAssumption DEF TypeOK
<1>12. p.qty \in Int /\ p.item \in Items
  BY <1>1, PostedIs DEF Move
<1>13. Even'
  <2> SUFFICES ASSUME NEW x \in Items \ disturbed
               PROVE  /\ (\A j \in Slots : ~Late(j, x)') => stock[x] = Opening[x] + Booked(x)'
                      /\ \A j \in Slots : Late(j, x)'
                           => stock[x] + Posted(j).qty = Opening[x] + Booked(x)'
    BY <1>2, <1>5 DEF Even
  <2>1. CASE x = p.item
    <3>1. \A j \in Slots \ {i} : ~Late(j, x)
      BY <1>1, <2>1 DEF Alone, Posts, Late, Posting
    <3>2. stock[x] = Opening[x] + Booked(x)
      BY <1>10, <3>1 DEF Even
    <3>3. Booked(x)' = Booked(x) + p.qty
      BY <1>3, <1>8, <2>1
    <3>4. stock[x] + p.qty = Opening[x] + Booked(x)'
      BY <1>11, <1>12, <3>2, <3>3
    <3> QED
      BY <1>9, <1>10, <2>1, <3>1, <3>4
  <2>2. CASE x # p.item
    BY <1>3, <1>8, <1>9, <1>10, <2>2 DEF Even
  <2> QED
    BY <2>1, <2>2
<1> QED
  BY <1>7, <1>13

LEMMA StoresBalanceEven ==
  ASSUME TypeOK, Alone, Even, NEW i \in Slots, StoresBalance(i)
  PROVE  Alone' /\ Even'
<1> DEFINE r == req[i]
           p == Posted(i)
<1>1. PICK s \in Request : Goes(i, s) /\ s.pc \notin Posting
  BY StoresBalanceDoes, ResumesQuiet
<1>2. r.pc = "set" /\ r.todo # <<>> /\ r.cur \in Int /\ p.qty \in Int /\ p.item \in Items
  BY StoresBalanceDoes, PostedIs, Kept DEF Move
<1>3. /\ stock' = [stock EXCEPT ![p.item] = r.cur + p.qty]
      /\ moves' = moves /\ disturbed' = disturbed
  BY DEF StoresBalance, Balance
<1>4. req'[i] = s /\ \A j \in Slots \ {i} : req'[j] = req[j]
  BY <1>1, GoesOne
<1>5. \A j \in Slots \ {i}, x \in Items :
         /\ Posts(j, x)' <=> Posts(j, x)
         /\ Late(j, x)' <=> Late(j, x)
         /\ Posted(j)'.qty = Posted(j).qty
  BY <1>4 DEF Posts, Late, Posted
<1>6. \A x \in Items : ~Posts(i, x)' /\ ~Late(i, x)'
  BY <1>1, <1>4 DEF Posts, Late, Posting
<1>7. Posts(i, p.item) /\ Late(i, p.item)
  BY <1>2 DEF Posts, Late, Posting
<1>8. \A x \in Items : /\ x = p.item => stock'[x] = r.cur + p.qty
                       /\ x # p.item => stock'[x] = stock[x]
  BY <1>2, <1>3 DEF TypeOK
<1>9. \A x : Booked(x)' = Booked(x)
  BY <1>3 DEF Booked, RowSum
<1>10. ASSUME NEW x \in Items \ disturbed, x = p.item
       PROVE  /\ \A j \in Slots : ~Posts(j, x)' /\ ~Late(j, x)'
              /\ stock'[x] = Opening[x] + Booked(x)'
  <2>1. r.cur = stock[x] /\ \A j \in Slots \ {i} : ~Posts(j, x)
    BY <1>7, <1>10 DEF Alone
  <2>2. \A j \in Slots \ {i} : ~Late(j, x)
    BY <2>1 DEF Late, Posts, Posting
  <2>3. stock[x] + p.qty = Opening[x] + Booked(x)
    BY <1>7, <1>10 DEF Even
  <2> QED
    BY <1>5, <1>6, <1>8, <1>9, <1>10, <2>1, <2>2, <2>3
<1>11. ASSUME NEW x \in Items \ disturbed, x # p.item
       PROVE  ~Posts(i, x) /\ ~Late(i, x) /\ stock'[x] = stock[x] /\ Booked(x)' = Booked(x)
  BY <1>8, <1>9, <1>11 DEF Posts, Late
<1>12. Alone'
  <2> SUFFICES ASSUME NEW x \in Items \ disturbed, NEW j \in Slots, Posts(j, x)'
               PROVE  req'[j].cur = stock'[x] /\ \A k \in Slots \ {j} : ~Posts(k, x)'
    BY <1>3 DEF Alone
  <2>1. j # i /\ x # p.item
    BY <1>6, <1>10
  <2>2. Posts(j, x)
    BY <1>5, <2>1
  <2>3. req[j].cur = stock[x] /\ \A k \in Slots \ {j} : ~Posts(k, x)
    BY <2>2 DEF Alone
  <2> QED
    BY <1>4, <1>5, <1>6, <1>11, <2>1, <2>3
<1>13. Even'
  <2> SUFFICES ASSUME NEW x \in Items \ disturbed
               PROVE  /\ (\A j \in Slots : ~Late(j, x)') => stock'[x] = Opening[x] + Booked(x)'
                      /\ \A j \in Slots : Late(j, x)'
                           => stock'[x] + Posted(j)'.qty = Opening[x] + Booked(x)'
    BY <1>3 DEF Even
  <2>1. CASE x = p.item
    BY <1>10, <2>1
  <2>2. CASE x # p.item
    BY <1>5, <1>6, <1>11, <2>2 DEF Even
  <2> QED
    BY <2>1, <2>2
<1> QED
  BY <1>12, <1>13

LEMMA EvenInit == Init => Alone /\ Even
<1> SUFFICES ASSUME Init PROVE Alone /\ Even
  OBVIOUS
<1>1. \A i \in Slots : req[i].pc = "free"
  BY FreeIs DEF Init, Becomes
<1>2. \A i \in Slots, x \in Items : ~Posts(i, x) /\ ~Late(i, x)
  BY <1>1 DEF Posts, Late, Posting
<1>3. moves = <<>> /\ stock = Opening
  BY DEF Init
<1>4. \A x : Booked(x) = 0
  <2> TAKE x
  <2> DEFINE f == [n \in DOMAIN moves |-> moves[n].qty]
             S == {n \in DOMAIN moves : moves[n].item = x}
  <2>1. S = {}
    BY <1>3
  <2>2. SumOver(f, S) = 0
    BY <2>1, SumEmpty
  <2> QED
    BY <2>2 DEF Booked, RowSum
<1>5. \A x \in Items : Opening[x] \in Int
  BY ItemsAssumption
<1> QED
  BY <1>2, <1>3, <1>4, <1>5 DEF Alone, Even

LEMMA EvenNext == TypeOK /\ Known /\ Alone /\ Even /\ [Next]_vars => Alone' /\ Even'
<1> SUFFICES ASSUME TypeOK, Known, Alone, Even, [Next]_vars PROVE Alone' /\ Even'
  OBVIOUS
<1>1. CASE UNCHANGED vars
  BY <1>1 DEF Alone, Even, Posts, Posted, Late, Booked, RowSum, vars, shelf, books
<1>2. ASSUME NEW i \in Slots,
             Arrival(i) \/ PostStep(i) \/ OrderStep(i) \/ PurchaseStep(i) \/ Closes(i) \/ Fault(i)
      PROVE  Alone' /\ Even'
  <2>1. CASE Arrival(i) \/ OrderStep(i) \/ PurchaseStep(i) \/ Closes(i) \/ Weighs(i)
    BY <2>1, ArrivalQuiet, OrderStepQuiet, PurchaseStepQuiet, QuietEven
  <2>2. CASE PostStep(i) \/ Fault(i)
    BY <2>1, <2>2, PostingEven, FaultEven, ReadsItemEven, InsertsRowEven, StoresBalanceEven
       DEF PostStep
  <2> QED
    BY <1>2, <2>1, <2>2
<1> QED
  BY <1>1, <1>2 DEF Next

\* The stock of an item whose postings neither overlapped nor were cut short is its opening
\* stock and the sum of its movements, whatever else the requests do and in whatever order.
THEOREM LedgerHolds == Spec => []StockIsLedger
<1>1. TypeOK /\ Alone /\ Even => StockIsLedger
  BY EvenMeans
<1> QED
  BY <1>1, TypeInit, TypeNext, EvenInit, EvenNext, PTL DEF Spec

-----------------------------------------------------------------------------
(* What no step undoes.                                                    *)

\* Rows and batches stay what they were, an order stays voided, an item stays disturbed.
Keeps ==
  /\ DOMAIN lots \subseteq DOMAIN lots'
  /\ \A c \in DOMAIN lots : /\ lots'[c].item = lots[c].item
                          /\ lots'[c].received = lots[c].received
                          /\ lots'[c].expiry = lots[c].expiry
  /\ DOMAIN moves \subseteq DOMAIN moves' /\ \A n \in DOMAIN moves : moves'[n] = moves[n]
  /\ \A o \in Orders : orders[o].voided => orders'[o].voided
  /\ disturbed \subseteq disturbed'

\* Only a void's UPDATE touches that mark, and it sets it.
LEMMA VoidedStays ==
  ASSUME TypeOK, NEW i \in Slots,
         Arrival(i) \/ PostStep(i) \/ OrderStep(i) \/ PurchaseStep(i) \/ Closes(i) \/ Fault(i)
  PROVE  \A o \in Orders : orders[o].voided => orders'[o].voided
<1>1. CASE orders' = orders
  BY <1>1
<1>2. CASE Claims(i) \/ Reopens(i) \/ Closes(i)
  <2>1. PICK u : \/ orders' = [orders EXCEPT ![u].consumed = TRUE]
                 \/ orders' = [orders EXCEPT ![u].consumed = FALSE]
                 \/ orders' = orders
    BY <1>2, ClaimsDoes, ClosesDoes DEF Reopens
  <2>2. \A o \in Orders :
          /\ [orders EXCEPT ![u].consumed = TRUE][o].voided = orders[o].voided
          /\ [orders EXCEPT ![u].consumed = FALSE][o].voided = orders[o].voided
    BY OrderMarked
  <2> QED
    BY <2>1, <2>2
<1>3. CASE Cancels(i)
  <2>1. PICK u : u = req[i].ref.id
    OBVIOUS
  <2>2. orders' = [orders EXCEPT ![u].voided = TRUE]
    BY <1>3, <2>1 DEF Cancels
  <2>3. ASSUME NEW o \in Orders, orders[o].voided
        PROVE  [orders EXCEPT ![u].voided = TRUE][o].voided
    <3>1. CASE o = u
      BY <3>1, OrderMarked
    <3>2. CASE o # u
      BY <2>3, <3>2, OrderMarked
    <3> QED
      BY <3>1, <3>2
  <2> QED
    BY <2>2, <2>3
<1>4. Arrival(i) \/ PostStep(i) \/ Snapshots(i) \/ ReadsSales(i) \/ ChecksReversed(i)
        \/ PurchaseStep(i) \/ Fault(i) => orders' = orders
  <2>1. Arrival(i) => orders' = orders
    BY ArrivalDoes DEF Arrives, books
  <2>2. PostStep(i) => orders' = orders
    BY DEF PostStep, Weighs, ReadsItem, PlansBatches, ReadsBatch, WritesBatch, InsertsRow,
           StoresBalance, books
  <2>3. Snapshots(i) \/ ReadsSales(i) \/ ChecksReversed(i) => orders' = orders
    BY DEF Snapshots, ReadsSales, ChecksReversed, books
  <2>4. PurchaseStep(i) => orders' = orders
    BY DEF PurchaseStep, BooksPurchase, Shelves, ReadsBought, books
  <2>5. Fault(i) => orders' = orders
    BY DEF Fault, Throws, Evicted, books
  <2> QED
    BY <2>1, <2>2, <2>3, <2>4, <2>5
<1> QED
  BY <1>1, <1>2, <1>3, <1>4 DEF OrderStep

LEMMA LotsStay ==
  ASSUME TypeOK, NEW i \in Slots,
         Arrival(i) \/ PostStep(i) \/ OrderStep(i) \/ PurchaseStep(i) \/ Closes(i) \/ Fault(i)
  PROVE  /\ DOMAIN lots \subseteq DOMAIN lots'
         /\ \A c \in DOMAIN lots : /\ lots'[c].item = lots[c].item
                                 /\ lots'[c].received = lots[c].received
                                 /\ lots'[c].expiry = lots[c].expiry
<1>1. CASE lots' = lots
  BY <1>1
<1>2. CASE WritesBatch(i)
  BY <1>2, WritesBatchDoes, LotWritten
<1>3. CASE Shelves(i) /\ lots' # lots
  <2>1. PICK l \in LotRow : lots' = Append(lots, l)
    BY <1>3, ShelvesDoes
  <2>2. lots \in Seq(LotRow)
    BY DEF TypeOK
  <2> QED
    BY <2>1, <2>2, AppendProperties
<1>4. Arrival(i) \/ OrderStep(i) \/ Closes(i) \/ Fault(i) => lots' = lots
  <2>1. Arrival(i) => lots' = lots
    BY ArrivalDoes DEF Arrives, shelf
  <2>2. OrderStep(i) => lots' = lots
    BY DEF OrderStep, Claims, Snapshots, Reopens, Cancels, ReadsSales, ChecksReversed, shelf
  <2>3. Closes(i) \/ Fault(i) => lots' = lots
    BY DEF Closes, Fault, Throws, Evicted, shelf
  <2> QED
    BY <2>1, <2>2, <2>3
<1>5. Weighs(i) \/ ReadsItem(i) \/ PlansBatches(i) \/ ReadsBatch(i) \/ InsertsRow(i)
        \/ StoresBalance(i) \/ BooksPurchase(i) \/ ReadsBought(i) => lots' = lots
  BY DEF Weighs, ReadsItem, PlansBatches, ReadsBatch, InsertsRow, StoresBalance, BooksPurchase,
         ReadsBought, shelf
<1> QED
  BY <1>1, <1>2, <1>3, <1>4, <1>5 DEF PostStep, PurchaseStep

LEMMA RowsStay ==
  ASSUME TypeOK, NEW i \in Slots,
         Arrival(i) \/ PostStep(i) \/ OrderStep(i) \/ PurchaseStep(i) \/ Closes(i) \/ Fault(i)
  PROVE  /\ DOMAIN moves \subseteq DOMAIN moves' /\ \A n \in DOMAIN moves : moves'[n] = moves[n]
         /\ ~InsertsRow(i) => moves' = moves
         /\ disturbed \subseteq disturbed'
<1>1. Arrival(i) \/ OrderStep(i) \/ PurchaseStep(i) \/ Closes(i) \/ Weighs(i)
        => moves' = moves /\ disturbed' = disturbed
  BY ArrivalQuiet, OrderStepQuiet, PurchaseStepQuiet DEF Quiet
<1>2. ReadsItem(i) \/ PlansBatches(i) \/ ReadsBatch(i) \/ WritesBatch(i) \/ StoresBalance(i)
        => moves' = moves /\ disturbed \subseteq disturbed'
  BY DEF ReadsItem, PlansBatches, ReadsBatch, WritesBatch, StoresBalance, shelf
<1>3. Fault(i) => moves' = moves /\ disturbed \subseteq disturbed'
  BY DEF Fault, Throws, Evicted, Marks, shelf
<1>4. ASSUME InsertsRow(i)
      PROVE  /\ DOMAIN moves \subseteq DOMAIN moves' /\ \A n \in DOMAIN moves : moves'[n] = moves[n]
             /\ disturbed' = disturbed
  BY <1>4, InsertsRowGrows, MovesGrow DEF InsertsRow
<1> QED
  BY <1>1, <1>2, <1>3, <1>4 DEF PostStep

LEMMA StepKeeps ==
  ASSUME TypeOK, NEW i \in Slots,
         Arrival(i) \/ PostStep(i) \/ OrderStep(i) \/ PurchaseStep(i) \/ Closes(i) \/ Fault(i)
  PROVE  Keeps
BY VoidedStays, LotsStay, RowsStay DEF Keeps

-----------------------------------------------------------------------------
(* What a step makes of its request, in one place.                         *)

\* A request that is a void past its UPDATE already was, of the same order.
VoidFrom(s, r) ==
  s.op = "void" /\ s.pc # "cancel" => r.op = "void" /\ r.pc # "cancel" /\ s.ref = r.ref

\* Only its UPDATE takes a void past it.
LEMMA VoidGoesOn ==
  ASSUME TypeOK, NEW i \in Slots, ~Cancels(i),
         Arrival(i) \/ PostStep(i) \/ OrderStep(i) \/ PurchaseStep(i) \/ Closes(i) \/ Fault(i)
  PROVE  \E s : Goes(i, s) /\ VoidFrom(s, req[i])
<1> DEFINE r == req[i]
<1>1. VoidFrom(FreeSlot, r)
  BY FreeIs DEF VoidFrom
<1>2. ASSUME NEW s \in Request, NEW sheet, NEW todo, NEW cur, Resumes(i, s, sheet, todo, cur),
             r.pc # "cancel"
      PROVE  VoidFrom(s, r)
  BY <1>1, <1>2 DEF Resumes, Onward, Alike, VoidFrom
<1>3. ASSUME NEW s, Alike(s, r), r.pc # "cancel" PROVE VoidFrom(s, r)
  BY <1>3 DEF Alike, VoidFrom
<1>4. CASE Arrival(i)
  <2>1. PICK s \in Request : Arrives(i, s) /\ (s.op = "void" => s.pc = "cancel")
    BY <1>4, ArrivalDoes
  <2> QED
    BY <2>1 DEF Arrives, VoidFrom
<1>5. CASE Weighs(i)
  BY <1>2, <1>5, WeighsDoes
<1>6. CASE ReadsItem(i)
  BY <1>3, <1>6, ReadsItemDoes
<1>7. CASE PlansBatches(i)
  BY <1>3, <1>7, PlansBatchesDoes
<1>8. CASE ReadsBatch(i)
  <2>1. r.pc = "share" /\ \E f : Goes(i, [r EXCEPT !.pc = "write", !.left = lots[f.lot].left])
    BY <1>8 DEF ReadsBatch, At
  <2>2. r \in Request
    BY Kept
  <2>3. \A l : [r EXCEPT !.pc = "write", !.left = l].op = r.op
               /\ [r EXCEPT !.pc = "write", !.left = l].ref = r.ref
    BY <2>2 DEF Request
  <2> QED
    BY <2>1, <2>3 DEF VoidFrom
<1>9. CASE WritesBatch(i)
  BY <1>3, <1>9, WritesBatchDoes
<1>10. CASE InsertsRow(i)
  BY <1>3, <1>10, InsertsRowDoes
<1>11. CASE StoresBalance(i)
  BY <1>2, <1>11, StoresBalanceDoes
<1>12. CASE Claims(i)
  BY <1>1, <1>2, <1>12, ClaimsDoes DEF Answers
<1>13. CASE Snapshots(i) \/ Reopens(i) \/ Shelves(i) \/ Closes(i) \/ Evicted(i)
  BY <1>1, <1>13 DEF Snapshots, Reopens, Shelves, Closes, Evicted, Answers
<1>14. CASE ReadsSales(i)
  BY <1>1, <1>3, <1>14, ReadsSalesDoes DEF Answers
<1>15. CASE ChecksReversed(i)
  BY <1>1, <1>2, <1>15, ChecksReversedDoes DEF Answers
<1>16. CASE BooksPurchase(i)
  <2>1. PICK s \in Request : Goes(i, s) /\ s.op = "purchase"
    BY <1>16, BooksPurchaseDoes
  <2> QED
    BY <2>1 DEF VoidFrom
<1>17. CASE ReadsBought(i)
  BY <1>2, <1>17, ReadsBoughtDoes
<1>18. CASE Throws(i)
  <2>1. ASSUME NEW s \in Request, s.op = "consume" PROVE VoidFrom(s, r)
    BY <2>1 DEF VoidFrom
  <2> QED
    BY <1>1, <1>3, <1>18, <2>1, ThrowsDoes DEF Answers
<1> QED
  BY <1>4, <1>5, <1>6, <1>7, <1>8, <1>9, <1>10, <1>11, <1>12, <1>13, <1>14, <1>15, <1>16, <1>17,
     <1>18 DEF PostStep, OrderStep, PurchaseStep, Fault

LEMMA VoidsWrittenNext ==
  ASSUME TypeOK, VoidsWritten, NEW i \in Slots,
         Arrival(i) \/ PostStep(i) \/ OrderStep(i) \/ PurchaseStep(i) \/ Closes(i) \/ Fault(i)
  PROVE  VoidsWritten'
<1>1. \A o \in Orders : orders[o].voided => orders'[o].voided
  BY VoidedStays
<1>2. \A j \in Slots : req[j].op = "void" => req[j].ref.id \in Orders
  BY RefIs
<1>3. CASE Cancels(i)
  <2>1. PICK s \in Request : Goes(i, s) /\ s.ref = req[i].ref
    BY <1>3, CancelsDoes DEF Alike
  <2>2. PICK o : o = req[i].ref.id
    OBVIOUS
  <2>3. o \in Orders /\ orders' = [orders EXCEPT ![o].voided = TRUE]
    BY <1>3, <2>2, CancelsDoes DEF Cancels
  <2>4. orders'[o].voided
    BY <2>3, OrderMarked
  <2> QED
    BY <1>1, <1>2, <2>1, <2>2, <2>4, GoesOne DEF VoidsWritten
<1>4. CASE ~Cancels(i)
  <2>1. PICK s : Goes(i, s) /\ VoidFrom(s, req[i])
    BY <1>4, VoidGoesOn
  <2> QED
    BY <1>1, <1>2, <2>1, GoesOne DEF VoidsWritten, VoidFrom
<1> QED
  BY <1>3, <1>4

-----------------------------------------------------------------------------
(* Shares of batches.                                                      *)

\* What was given back stays given back: a batch that is clean was clean before.
LEMMA GivenStays ==
  ASSUME TypeOK, Recordable, Keeps, NEW b, GivenBack(b)
  PROVE  GivenBack(b)'
<1>1. PICK n \in DOMAIN moves : /\ moves[n].ref.kind = "orders" /\ orders[moves[n].ref.id].voided
                                /\ \E s \in moves[n].alloc : s.lot = b
  BY DEF GivenBack
<1>2. n \in DOMAIN moves' /\ moves'[n] = moves[n] /\ moves[n].ref.id \in Orders
  BY <1>1 DEF Keeps, Recordable
<1>3. orders'[moves[n].ref.id].voided
  BY <1>1, <1>2 DEF Keeps
<1> QED
  BY <1>1, <1>2, <1>3 DEF GivenBack

LEMMA CleanBack ==
  ASSUME TypeOK, Recordable, Keeps, NEW b \in DOMAIN lots, Clean(b)'
  PROVE  Clean(b)
BY GivenStays DEF Clean, Keeps

LEMMA BeforeAsym ==
  ASSUME TypeOK, NEW a \in DOMAIN lots, NEW b \in DOMAIN lots, Before(a, b)
  PROVE  ~Before(b, a)
<1>1. lots[a] \in LotRow /\ lots[b] \in LotRow /\ a \in Nat /\ b \in Nat
  BY DEF TypeOK
<1>2. lots[a].expiry \in Nat /\ lots[b].expiry \in Nat
  BY <1>1 DEF LotRow
<1> QED
  BY <1>1, <1>2 DEF Before

\* Of the shares of a draw, one is written next.
LEMMA ForemostOne ==
  ASSUME TypeOK, NEW S, \A s \in S : s.row = 0 /\ s.lot \in DOMAIN lots,
         NEW f \in Foremost(S), NEW g \in Foremost(S)
  PROVE  f = g
<1> SUFFICES ASSUME f # g PROVE FALSE
  OBVIOUS
<1>1. f \in S /\ g \in S /\ f.row = 0 /\ g.row = 0
  BY DEF Foremost
<1>2. Before(f.lot, g.lot) /\ Before(g.lot, f.lot)
  BY <1>1 DEF Foremost
<1> QED
  BY <1>1, <1>2, BeforeAsym

LEMMA ForemostKept ==
  ASSUME TypeOK, Keeps, NEW S, \A s \in S : s.lot \in DOMAIN lots
  PROVE  Foremost(S)' = Foremost(S)
<1>1. \A s, t \in S : Before(s.lot, t.lot)' <=> Before(s.lot, t.lot)
  BY DEF Keeps, Before
<1> QED
  BY <1>1 DEF Foremost

\* A request that holds no share.
LEMMA NoneShared ==
  ASSUME NEW r, r.alloc = {}, r.pc \notin {"share", "write"}
  PROVE  SharedOf(r)'
BY DEF SharedOf

\* Another request's shares stand while their clean batches are left alone.
LEMMA SharedStays ==
  ASSUME TypeOK, Recordable, Keeps, NEW r, SharedOf(r),
         \A s \in r.alloc \cup r.shares : s.lot \in DOMAIN lots,
         \A s \in r.shares : Clean(s.lot)' => lots'[s.lot].left = lots[s.lot].left
  PROVE  SharedOf(r)'
<1>1. \A s \in r.alloc : s.row = 0 /\ lots'[s.lot].item = Head(r.todo).item
  BY DEF SharedOf, Keeps
<1>2. \A s, t \in r.alloc : s.lot = t.lot => s = t
  BY DEF SharedOf
<1>3. ASSUME r.pc \in {"share", "write"}, Head(r.todo).qty < 0
      PROVE  /\ r.shares \subseteq r.alloc
             /\ \A s \in r.shares : Clean(s.lot)' =>
                 /\ s.qty <= lots'[s.lot].left
                 /\ r.pc = "write" /\ s \in Foremost(r.shares)' => r.left = lots'[s.lot].left
  <2>1. r.shares \subseteq r.alloc
    BY <1>3 DEF SharedOf
  <2>2. Foremost(r.shares)' = Foremost(r.shares)
    BY ForemostKept
  <2>3. ASSUME NEW s \in r.shares, Clean(s.lot)'
        PROVE  /\ s.qty <= lots'[s.lot].left
               /\ r.pc = "write" /\ s \in Foremost(r.shares) => r.left = lots'[s.lot].left
    <3>1. Clean(s.lot)
      BY <2>3, CleanBack
    <3> QED
      BY <1>3, <2>3, <3>1 DEF SharedOf
  <2> QED
    BY <2>1, <2>2, <2>3
<1>4. ASSUME r.pc \in {"share", "write"}, ~(Head(r.todo).qty < 0), NEW s \in r.shares
      PROVE  GivenBack(s.lot)'
  BY <1>4, GivenStays DEF SharedOf
<1> QED
  BY <1>1, <1>2, <1>3, <1>4 DEF SharedOf

\* The steps that take or put back no share leave their request without one.
LEMMA OtherSteps ==
  ASSUME TypeOK, Known, NEW i \in Slots,
         Arrival(i) \/ PostStep(i) \/ OrderStep(i) \/ PurchaseStep(i) \/ Closes(i) \/ Fault(i),
         ~PlansBatches(i), ~ReadsBatch(i), ~WritesBatch(i)
  PROVE  /\ \E s \in Request : /\ Goes(i, s) /\ s.alloc = {}
                              /\ s.pc \notin {"share", "write"}
         /\ \A c \in DOMAIN lots : lots'[c].left = lots[c].left
<1>1. CASE Arrival(i) \/ OrderStep(i) \/ PurchaseStep(i) \/ Closes(i) \/ Weighs(i)
  <2>1. Quiet(i)
    BY <1>1, ArrivalQuiet, OrderStepQuiet, PurchaseStepQuiet
  <2>2. \A c \in DOMAIN lots : lots'[c].left = lots[c].left
    <3>1. CASE Shelves(i)
      <4>1. lots \in Seq(LotRow)
        BY DEF TypeOK
      <4>2. CASE \E l \in LotRow : lots' = Append(lots, l)
        BY <4>1, <4>2, AppendProperties
      <4> QED
        BY <3>1, <4>2, ShelvesDoes
    <3>2. Arrival(i) => lots' = lots
      BY ArrivalDoes DEF Arrives, shelf
    <3>3. OrderStep(i) => lots' = lots
      BY DEF OrderStep, Claims, Snapshots, Reopens, Cancels, ReadsSales, ChecksReversed, shelf
    <3>4. Closes(i) \/ Weighs(i) \/ BooksPurchase(i) \/ ReadsBought(i) => lots' = lots
      BY DEF Closes, Weighs, BooksPurchase, ReadsBought, shelf
    <3> QED
      BY <1>1, <3>1, <3>2, <3>3, <3>4 DEF PurchaseStep
  <2> QED
    BY <2>1, <2>2 DEF Quiet, Posting
<1>2. CASE ReadsItem(i)
  <2>1. \E s \in Request : Goes(i, s) /\ s.alloc = {} /\ s.pc = "batch"
    BY <1>2, ReadsItemDoes DEF Becomes
  <2> QED
    BY <1>2, <2>1 DEF ReadsItem, shelf
<1>3. CASE InsertsRow(i)
  <2>1. \E s \in Request : Goes(i, s) /\ s.alloc = {} /\ s.pc = "set"
    BY <1>3, InsertsRowDoes DEF Becomes
  <2> QED
    BY <1>3, <2>1 DEF InsertsRow
<1>4. CASE StoresBalance(i)
  <2>1. \E s \in Request : Goes(i, s) /\ s.alloc = {} /\ s.pc \notin Posting
    BY <1>4, StoresBalanceDoes, ResumesQuiet, ResumesFits
  <2> QED
    BY <1>4, <2>1 DEF StoresBalance, Posting
<1>5. CASE Fault(i)
  <2>1. \E s \in Request : Goes(i, s) /\ s.alloc = {} /\ s.pc \notin {"share", "write"}
    BY <1>5, ThrowsDoes, AnswersQuiet DEF Fault, Evicted, Becomes, Posting
  <2>2. lots' = lots
    BY <1>5 DEF Fault, Throws, Evicted, shelf
  <2> QED
    BY <2>1, <2>2
<1> QED
  BY <1>1, <1>2, <1>3, <1>4, <1>5 DEF PostStep

LEMMA FiniteAllocate ==
  ASSUME TypeOK, NEW item, NEW need
  PROVE  IsFiniteSet(AllocateFEFO(item, need))
<1> DEFINE open == OpenLots(item)
           leftIn == [c \in open |-> lots[c].left]
           prior(b) == SumOver(leftIn, {c \in open : Before(c, b)})
           part(b) == [row |-> 0, lot |-> b, qty |-> Least(lots[b].left, need - prior(b))]
           from == {c \in open : prior(c) < need}
<1>1. AllocateFEFO(item, need) = {part(b) : b \in from}
  BY DEF AllocateFEFO, Allocate
<1>2. IsFiniteSet(DOMAIN lots) /\ open \in SUBSET (DOMAIN lots)
  <2>1. DOMAIN lots = 1 .. Len(lots) /\ Len(lots) \in Nat
    BY DEF TypeOK
  <2> QED
    BY <2>1, FS_Interval DEF OpenLots
<1> HIDE DEF open, prior
<1>3. IsFiniteSet(from)
  <2>1. from \in SUBSET (DOMAIN lots)
    BY <1>2
  <2> HIDE DEF from
  <2> QED
    BY <1>2, <2>1, FS_Subset
<1> HIDE DEF from
<1> DEFINE T == {part(b) : b \in from}
           f == [b \in from |-> part(b)]
<1>4. f \in Surjection(from, T)
  BY DEF Surjection
<1> HIDE DEF f, T
<1>5. IsFiniteSet(T)
  BY <1>3, <1>4, FS_Surjection
<1> QED
  BY <1>1, <1>5 DEF T

LEMMA RecordableNext ==
  ASSUME TypeOK, Known, Recordable, NEW i \in Slots,
         Arrival(i) \/ PostStep(i) \/ OrderStep(i) \/ PurchaseStep(i) \/ Closes(i) \/ Fault(i)
  PROVE  Recordable'
<1> DEFINE r == req[i]
<1>0. IsFiniteSet({})
  BY FS_EmptySet
<1>1. PICK s \in Request : Goes(i, s) /\ IsFiniteSet(s.alloc)
  <2>1. CASE PlansBatches(i)
    <3>1. PICK s \in Request : /\ Goes(i, s)
                               /\ s.alloc = IF Posted(i).qty < 0 THEN Plan(Posted(i)) ELSE {}
      BY <2>1, PlansBatchesDoes DEF Becomes
    <3>2. ASSUME Posted(i).qty < 0 PROVE IsFiniteSet(Plan(Posted(i)))
      <4>1. PICK m \in Move : m = Posted(i)
        BY <2>1, PlansBatchesDoes, PostedIs
      <4>2. PICK need : need = -m.qty
        OBVIOUS
      <4>3. Plan(m) = AllocateFEFO(m.item, need)
        BY <3>2, <4>1, <4>2 DEF Plan, Restores, Move
      <4> QED
        BY <4>1, <4>3, FiniteAllocate
    <3> QED
      BY <1>0, <3>1, <3>2
  <2>2. CASE ReadsBatch(i) \/ WritesBatch(i)
    <3>1. PICK s \in Request : Goes(i, s) /\ s.alloc = r.alloc
      BY <2>2, ReadsBatchDoes, WritesBatchDoes DEF Becomes
    <3> QED
      BY <3>1 DEF Recordable
  <2>3. CASE ~PlansBatches(i) /\ ~ReadsBatch(i) /\ ~WritesBatch(i)
    BY <1>0, <2>3, OtherSteps
  <2> QED
    BY <2>1, <2>2, <2>3
<1>2. \A j \in Slots : IsFiniteSet(req'[j].alloc)
  BY <1>1, GoesOne DEF Recordable
<1>3. CASE ~InsertsRow(i)
  <2>1. moves' = moves
    BY <1>3, RowsStay
  <2> QED
    BY <1>2, <2>1 DEF Recordable
<1>4. CASE InsertsRow(i)
  <2>1. PICK row \in Row : /\ moves' = Append(moves, row)
                           /\ row.ref = Posted(i).ref /\ row.alloc = r.alloc
    BY <1>4, InsertsRowGrows
  <2>2. /\ DOMAIN moves' = DOMAIN moves \cup {Len(moves) + 1}
        /\ moves'[Len(moves) + 1] = row
        /\ \A n \in DOMAIN moves : moves'[n] = moves[n]
    BY <2>1, MovesGrow
  <2>3. row.ref.kind = "orders" => row.ref.id \in Orders
    <3>1. r.todo # <<>> /\ r.pc = "insert"
      BY <1>4, InsertsRowDoes
    <3>2. Posted(i).ref = r.ref /\ RefFits(r) /\ r.op \in AllOps
      BY <3>1, PostedIs, Kept, OpsServed DEF MoveFits
    <3> QED
      BY <2>1, <3>2 DEF RefFits, AllOps, NoRef
  <2> QED
    BY <1>2, <2>1, <2>2, <2>3 DEF Recordable
<1> QED
  BY <1>3, <1>4

-----------------------------------------------------------------------------
(* The shares a request holds.                                             *)

\* What a draw plans: one share at most of each batch of its item, each within the batch.
LEMMA PlanShared ==
  ASSUME TypeOK, Known, Recordable, VoidsWritten, NEW i \in Slots, PlansBatches(i)
  PROVE  \E s \in Request : Goes(i, s) /\ SharedOf(s)'
<1> DEFINE r == req[i]
<1>0. PICK p : p = Plan(Posted(i))
  OBVIOUS
<1>1. PICK s \in Request :
         /\ Goes(i, s) /\ s.todo = r.todo /\ s.shares = p
         /\ s.alloc = IF Posted(i).qty < 0 THEN p ELSE {}
         /\ s.pc # "write" /\ (s.pc = "share" => p # {})
         /\ r.pc = "batch" /\ r.todo # <<>>
  BY <1>0, PlansBatchesDoes DEF Becomes
<1>2. SharedOf(s)' => \E q \in Request : Goes(i, q) /\ SharedOf(q)'
  BY <1>1
<1>3. PICK m \in Move : m = Posted(i) /\ MoveFits(r, m)
  BY <1>1, PostedIs
<1>4. m = Head(s.todo)
  BY <1>1, <1>3 DEF Posted
<1>5. lots' = lots /\ moves' = moves /\ orders' = orders /\ disturbed' = disturbed
  BY DEF PlansBatches, shelf, books
<1>6. CASE m.qty < 0
  <2>1. PICK need \in Int : need = -m.qty
    BY DEF Move
  <2>2. p = AllocateFEFO(m.item, need)
    BY <1>0, <1>3, <1>6, <2>1 DEF Plan, Restores, Move
  <2>3. /\ \A x \in p : x.row = 0 /\ lots[x.lot].item = m.item /\ x.qty <= lots[x.lot].left
        /\ \A x, y \in p : x.lot = y.lot => x = y
    BY <2>2, AllocateIs
  <2>4. s.alloc = p
    BY <1>1, <1>3, <1>6
  <2> QED
    BY <1>1, <1>2, <1>4, <1>5, <1>6, <2>3, <2>4 DEF SharedOf
<1>7. CASE ~(m.qty < 0)
  <2>1. s.alloc = {}
    BY <1>1, <1>3, <1>7
  <2>2. ASSUME NEW x \in p PROVE GivenBack(x.lot)
    <3>1. Restores(m) /\ p = Allocated(m.ref)
      BY <1>0, <1>3, <1>7, <2>2 DEF Plan
    <3>2. m.type = "void_reversal" /\ m.qty > 0 /\ m.ref = r.ref
      BY <1>3, <3>1 DEF Restores, MoveFits
    <3>3. r.op = "void"
      <4>1. r.op \in AllOps
        BY <1>1, OpsServed
      <4> QED
        BY <1>3, <1>7, <3>2, <4>1 DEF MoveFits, AllOps
    <3>4. orders[r.ref.id].voided /\ r.ref.kind = "orders"
      BY <1>1, <3>3, Kept DEF VoidsWritten, RefFits
    <3>5. PICK n \in RowsOf(m.ref) : \E t \in moves[n].alloc : t.lot = x.lot
      BY <2>2, <3>1, AllocatedIs
    <3>6. n \in DOMAIN moves /\ moves[n].ref = r.ref
      BY <3>2, <3>5 DEF RowsOf
    <3> QED
      BY <3>4, <3>5, <3>6 DEF GivenBack
  <2>3. \A x \in p : GivenBack(x.lot)'
    BY <1>5, <2>2 DEF GivenBack
  <2> QED
    BY <1>1, <1>2, <1>4, <1>7, <2>1, <2>3 DEF SharedOf
<1> QED
  BY <1>6, <1>7

\* What is read of the next batch is what it has.
LEMMA ReadShared ==
  ASSUME TypeOK, Known, Recordable, NEW i \in Slots, SharedOf(req[i]), ReadsBatch(i)
  PROVE  \E s \in Request : Goes(i, s) /\ SharedOf(s)'
<1> DEFINE r == req[i]
<1>1. PICK f \in Foremost(r.shares), s \in Request :
         /\ Goes(i, s) /\ s.pc = "write" /\ s.todo = r.todo /\ s.shares = r.shares
         /\ s.alloc = r.alloc /\ s.left = lots[f.lot].left
         /\ r.pc = "share"
  BY ReadsBatchDoes DEF Becomes
<1>2. SharedOf(s)' => \E q \in Request : Goes(i, q) /\ SharedOf(q)'
  BY <1>1
<1>3. lots' = lots /\ moves' = moves /\ orders' = orders /\ disturbed' = disturbed
  BY DEF ReadsBatch, shelf, books
<1>4. /\ Foremost(s.shares)' = Foremost(s.shares)
      /\ \A b : (Clean(b)' <=> Clean(b)) /\ (GivenBack(b)' <=> GivenBack(b))
  BY <1>3 DEF Foremost, Before, Clean, GivenBack
<1>5. ASSUME Head(r.todo).qty < 0, NEW g \in Foremost(r.shares)
      PROVE  g = f
  <2>1. \A x \in r.shares : x.row = 0 /\ x.lot \in DOMAIN lots
    BY <1>1, <1>5 DEF SharedOf, Known
  <2> QED
    BY <2>1, ForemostOne
<1> QED
  BY <1>1, <1>2, <1>3, <1>4, <1>5 DEF SharedOf

\* A share that is written is gone, and the others are of other batches.
LEMMA WriteShared ==
  ASSUME TypeOK, Known, Recordable, Keeps, NEW i \in Slots, SharedOf(req[i]), WritesBatch(i)
  PROVE  \E s \in Request : Goes(i, s) /\ SharedOf(s)'
<1> DEFINE r == req[i]
<1>1. PICK f \in Foremost(r.shares), s \in Request :
         /\ Goes(i, s) /\ s.pc # "write" /\ s.todo = r.todo /\ s.shares = r.shares \ {f}
         /\ s.alloc = r.alloc
         /\ lots' = [lots EXCEPT ![f.lot].left = Left(r.left, f.qty, Restores(Posted(i)))]
         /\ Left(r.left, f.qty, Restores(Posted(i))) \in Int
         /\ r.pc = "write"
  BY WritesBatchDoes DEF Becomes
<1>2. SharedOf(s)' => \E q \in Request : Goes(i, q) /\ SharedOf(q)'
  BY <1>1
<1>3. \A c \in DOMAIN lots : c # f.lot => lots'[c].left = lots[c].left
  BY <1>1, LotWritten
<1>4. f \in r.shares
  BY DEF Foremost
<1>5. \A x \in r.alloc \cup r.shares : x.lot \in DOMAIN lots
  BY DEF Known
<1>6. \A x \in s.alloc : x.row = 0 /\ lots'[x.lot].item = Head(s.todo).item
  BY <1>1, <1>5 DEF SharedOf, Keeps
<1>7. \A x, y \in s.alloc : x.lot = y.lot => x = y
  BY <1>1 DEF SharedOf
<1>8. ASSUME Head(r.todo).qty < 0
      PROVE  /\ s.shares \subseteq s.alloc
             /\ \A x \in s.shares : Clean(x.lot)' => x.qty <= lots'[x.lot].left
  <2>1. s.shares \subseteq s.alloc /\ f \in r.alloc
    BY <1>1, <1>4, <1>8 DEF SharedOf
  <2>2. ASSUME NEW x \in s.shares, Clean(x.lot)'
        PROVE  x.qty <= lots'[x.lot].left
    <3>1. x \in r.shares /\ x # f /\ x.lot # f.lot
      BY <1>1, <2>1 DEF SharedOf
    <3>2. x.lot \in DOMAIN lots
      BY <1>5, <3>1
    <3>3. Clean(x.lot)
      BY <2>2, <3>2, CleanBack
    <3> QED
      BY <1>1, <1>3, <1>8, <3>1, <3>2, <3>3 DEF SharedOf
  <2> QED
    BY <2>1, <2>2
<1>9. ASSUME ~(Head(r.todo).qty < 0), NEW x \in s.shares PROVE GivenBack(x.lot)'
  BY <1>1, <1>9, GivenStays DEF SharedOf
<1> QED
  BY <1>1, <1>2, <1>6, <1>7, <1>8, <1>9 DEF SharedOf

\* A clean batch is written by the one request that posts a movement of its item.
LEMMA SharedNext ==
  ASSUME TypeOK, Known, Alone, Recordable, VoidsWritten, Shared, NEW i \in Slots,
         Arrival(i) \/ PostStep(i) \/ OrderStep(i) \/ PurchaseStep(i) \/ Closes(i) \/ Fault(i)
  PROVE  Shared'
<1>0. Keeps
  BY StepKeeps
<1>1. \E s \in Request : Goes(i, s) /\ SharedOf(s)'
  <2>1. CASE PlansBatches(i)
    BY <2>1, PlanShared
  <2>2. CASE ReadsBatch(i)
    BY <2>2, ReadShared DEF Shared
  <2>3. CASE WritesBatch(i)
    BY <1>0, <2>3, WriteShared DEF Shared
  <2>4. CASE ~PlansBatches(i) /\ ~ReadsBatch(i) /\ ~WritesBatch(i)
    <3>1. PICK s \in Request : Goes(i, s) /\ s.alloc = {} /\ s.pc \notin {"share", "write"}
      BY <2>4, OtherSteps
    <3>2. SharedOf(s)'
      BY <3>1, NoneShared
    <3> QED
      BY <3>1, <3>2
  <2> QED
    BY <2>1, <2>2, <2>3, <2>4
<1>2. \A j \in Slots \ {i} : req'[j] = req[j]
  BY <1>1, GoesOne
<1>3. ASSUME NEW j \in Slots \ {i} PROVE \E r : r = req[j] /\ SharedOf(r)'
  <2>1. PICK r : r = req[j]
    OBVIOUS
  <2>2. SharedOf(r) /\ \A s \in r.alloc \cup r.shares : s.lot \in DOMAIN lots
    BY <2>1 DEF Shared, Known
  <2>3. ASSUME NEW s \in r.shares, Clean(s.lot)', lots'[s.lot].left # lots[s.lot].left
        PROVE  FALSE
    <3>1. WritesBatch(i)
      <4>1. PlansBatches(i) \/ ReadsBatch(i) => lots' = lots
        BY DEF PlansBatches, ReadsBatch, shelf
      <4> QED
        BY <2>2, <2>3, <4>1, OtherSteps
    <3>2. PICK f \in Foremost(req[i].shares) :
           /\ lots' = [lots EXCEPT ![f.lot].left =
                          Left(req[i].left, f.qty, Restores(Posted(i)))]
           /\ Left(req[i].left, f.qty, Restores(Posted(i))) \in Int
           /\ req[i].pc = "write"
      BY <3>1, WritesBatchDoes
    <3>3. s.lot = f.lot
      BY <2>2, <2>3, <3>2, LotWritten
    <3>4. f \in req[i].shares /\ Clean(s.lot) /\ s.lot \in DOMAIN lots
      BY <1>0, <2>2, <2>3, CleanBack DEF Foremost
    <3>5. f \in req[i].alloc
      BY <3>2, <3>3, <3>4 DEF Shared, SharedOf, Clean
    <3>6. lots[s.lot].item = Posted(i).item
      BY <3>3, <3>5 DEF Shared, SharedOf, Posted
    <3>7. r.pc \in {"share", "write"}
      BY <2>1, <2>3, Kept DEF PcFits
    <3>8. s \in r.alloc
      BY <2>2, <2>3, <3>4, <3>7 DEF SharedOf, Clean
    <3>9. lots[s.lot].item = Posted(j).item
      BY <2>1, <2>2, <3>8 DEF SharedOf, Posted
    <3>10. lots[s.lot].item \in Items \ disturbed
      <4>1. lots[s.lot] \in LotRow
        BY <3>4 DEF TypeOK
      <4> QED
        BY <3>4, <4>1 DEF Clean, LotRow
    <3>11. Posts(i, lots[s.lot].item) /\ Posts(j, lots[s.lot].item)
      BY <2>1, <3>2, <3>6, <3>7, <3>9 DEF Posts, Posting
    <3> QED
      BY <3>10, <3>11 DEF Alone
  <2>4. SharedOf(r)'
    BY <1>0, <2>2, <2>3, SharedStays
  <2> QED
    BY <2>1, <2>4
<1>4. ASSUME NEW j \in Slots PROVE \E r : r = req'[j] /\ SharedOf(r)'
  <2>1. CASE j = i
    BY <1>1, <2>1, GoesOne
  <2>2. CASE j # i
    BY <1>2, <1>3, <2>2
  <2> QED
    BY <2>1, <2>2
<1>5. ASSUME NEW j \in Slots PROVE SharedOf(req[j])'
  <2>1. PICK r : r = req'[j] /\ SharedOf(r)'
    BY <1>4
  <2> QED
    BY <2>1 DEF SharedOf
<1> QED
  BY <1>5 DEF Shared

-----------------------------------------------------------------------------
(* Batches add up.                                                         *)

LEMMA ShareSumType ==
  ASSUME NEW S \in SUBSET Share, IsFiniteSet(S), NEW b
  PROVE  ShareSum(S, b) \in Int
<1> DEFINE f == [s \in S |-> s.qty]
           T == {s \in S : s.lot = b}
<1>1. T \in SUBSET S /\ \A s \in T : f[s] \in Int
  BY DEF Share
<1> HIDE DEF f, T
<1>2. IsFiniteSet(T)
  BY <1>1, FS_Subset
<1>3. SumOver(f, T) \in Int
  BY <1>1, <1>2, SumType
<1> QED
  BY <1>3 DEF f, T, ShareSum

LEMMA ShareSumNone ==
  ASSUME NEW S, NEW b, \A s \in S : s.lot # b
  PROVE  ShareSum(S, b) = 0
<1> DEFINE f == [s \in S |-> s.qty]
           T == {s \in S : s.lot = b}
<1>1. T = {}
  OBVIOUS
<1>2. SumOver(f, T) = 0
  BY <1>1, SumEmpty
<1> QED
  BY <1>2 DEF ShareSum

\* A share taken out of a set of shares.
LEMMA ShareSumRemove ==
  ASSUME NEW S \in SUBSET Share, IsFiniteSet(S), NEW b, NEW x \in S
  PROVE  /\ x.lot = b => ShareSum(S, b) = x.qty + ShareSum(S \ {x}, b)
         /\ x.lot # b => ShareSum(S, b) = ShareSum(S \ {x}, b)
<1> DEFINE f == [s \in S |-> s.qty]
           g == [s \in S \ {x} |-> s.qty]
           T == {s \in S : s.lot = b}
           U == {s \in S \ {x} : s.lot = b}
<1>1. T \in SUBSET S /\ U \in SUBSET S /\ \A s \in T : f[s] \in Int
  BY DEF Share
<1>2. \A s \in U : g[s] = f[s]
  OBVIOUS
<1>3. f[x] = x.qty
  OBVIOUS
<1>4. (x.lot = b => x \in T /\ U = T \ {x}) /\ (x.lot # b => U = T)
  OBVIOUS
<1>5. ShareSum(S, b) = SumOver(f, T) /\ ShareSum(S \ {x}, b) = SumOver(g, U)
  BY DEF ShareSum
<1> HIDE DEF f, g, T, U
<1>6. IsFiniteSet(T) /\ IsFiniteSet(U)
  BY <1>1, FS_Subset
<1>7. SumOver(g, U) = SumOver(f, U)
  BY <1>2, <1>6, SumSame
<1>8. ASSUME x.lot = b PROVE SumOver(f, T) = x.qty + SumOver(f, U)
  <2>1. x \in T /\ U = T \ {x}
    BY <1>4, <1>8
  <2>2. SumOver(f, T) = f[x] + SumOver(f, T \ {x})
    BY <1>1, <1>6, <2>1, SumRemove
  <2> QED
    BY <1>3, <2>1, <2>2
<1> QED
  BY <1>4, <1>5, <1>7, <1>8

\* What a request has drawn of a batch and not recorded yet.
DrawnBy(r, b) == ShareSum(r.alloc, b) - ShareSum(r.alloc \cap r.shares, b)

LEMMA DrawnByType ==
  ASSUME NEW r \in Request, IsFiniteSet(r.alloc), NEW b
  PROVE  DrawnBy(r, b) \in Int
<1>1. r.alloc \in SUBSET Share /\ r.alloc \cap r.shares \in SUBSET Share
  BY DEF Request
<1>2. IsFiniteSet(r.alloc \cap r.shares)
  BY FS_Intersection
<1> QED
  BY <1>1, <1>2, ShareSumType DEF DrawnBy

LEMMA DrawnNone ==
  ASSUME NEW r, NEW b, \A s \in r.alloc : s.lot # b
  PROVE  DrawnBy(r, b) = 0
<1>1. ShareSum(r.alloc, b) = 0 /\ ShareSum(r.alloc \cap r.shares, b) = 0
  BY ShareSumNone
<1> QED
  BY <1>1 DEF DrawnBy

InHand(b) == SumOver([i \in Slots |-> Drawn(i, b)], Slots)

LEMMA InHandGoes ==
  ASSUME IsFiniteSet(Slots), TypeOK, Recordable, NEW i \in Slots, NEW s \in Request,
         IsFiniteSet(s.alloc), Goes(i, s), NEW b
  PROVE  InHand(b) \in Int /\ InHand(b)' = InHand(b) + (DrawnBy(s, b) - DrawnBy(req[i], b))
<1> DEFINE f == [j \in Slots |-> Drawn(j, b)]
           g == [j \in Slots |-> Drawn(j, b)']
<1>1. req'[i] = s /\ \A j \in Slots \ {i} : req'[j] = req[j]
  BY GoesOne
<1>2. \A j \in Slots : f[j] = DrawnBy(req[j], b) /\ f[j] \in Int
  BY DrawnByType DEF Drawn, DrawnBy, TypeOK, Recordable
<1>3. g[i] = DrawnBy(s, b) /\ g[i] \in Int
  BY <1>1, DrawnByType DEF Drawn, DrawnBy
<1>4. \A j \in Slots \ {i} : g[j] = f[j]
  BY <1>1 DEF Drawn
<1>5. InHand(b) = SumOver(f, Slots) /\ InHand(b)' = SumOver(g, Slots)
  BY DEF InHand
<1> HIDE DEF f, g
<1>6. \A j \in Slots : f[j] \in Int /\ g[j] \in Int
  BY <1>2, <1>3, <1>4
<1>7. SumOver(g, Slots) = SumOver(f, Slots) + (g[i] - f[i])
  BY <1>4, <1>6, SumChange
<1>8. SumOver(f, Slots) \in Int
  BY <1>6, SumType
<1> QED
  BY <1>2, <1>3, <1>5, <1>7, <1>8

LEMMA RecordedType ==
  ASSUME TypeOK, Recordable, NEW b
  PROVE  Recorded(b) \in Int
<1> DEFINE f == [n \in DOMAIN moves |-> ShareSum(moves[n].alloc, b)]
<1>1. IsFiniteSet(DOMAIN moves)
  <2>1. DOMAIN moves = 1 .. Len(moves) /\ Len(moves) \in Nat
    BY DEF TypeOK
  <2> QED
    BY <2>1, FS_Interval
<1>2. \A n \in DOMAIN moves : f[n] \in Int
  <2> TAKE n \in DOMAIN moves
  <2>1. moves[n] \in Row
    BY DEF TypeOK
  <2>2. moves[n].alloc \in SUBSET Share /\ IsFiniteSet(moves[n].alloc)
    BY <2>1 DEF Row, Recordable
  <2> QED
    BY <2>2, ShareSumType
<1> HIDE DEF f
<1>3. SumOver(f, DOMAIN moves) \in Int
  BY <1>1, <1>2, SumType
<1> QED
  BY <1>3 DEF f, Recorded

\* A row that is inserted records its shares.
LEMMA RecordedGrows ==
  ASSUME TypeOK, Recordable, NEW row \in Row, IsFiniteSet(row.alloc),
         moves' = Append(moves, row), NEW b
  PROVE  Recorded(b)' = Recorded(b) + ShareSum(row.alloc, b)
<1> DEFINE f == [n \in DOMAIN moves |-> ShareSum(moves[n].alloc, b)]
           g == [n \in DOMAIN moves' |-> ShareSum(moves'[n].alloc, b)]
           D == DOMAIN moves
           k == Len(moves) + 1
<1>1. /\ D = 1 .. Len(moves) /\ Len(moves) \in Nat
      /\ DOMAIN moves' = D \cup {k} /\ k \notin D
      /\ moves'[k] = row /\ \A n \in D : moves'[n] = moves[n]
  BY MovesGrow
<1>2. IsFiniteSet(D)
  BY <1>1, FS_Interval
<1>3. \A n \in D : f[n] = g[n]
  BY <1>1
<1>4. \A n \in D : f[n] \in Int
  <2> TAKE n \in D
  <2>1. moves[n] \in Row
    BY DEF TypeOK
  <2>2. moves[n].alloc \in SUBSET Share /\ IsFiniteSet(moves[n].alloc)
    BY <2>1 DEF Row, Recordable
  <2> QED
    BY <2>2, ShareSumType
<1>5. g[k] = ShareSum(row.alloc, b)
  BY <1>1
<1>6. ShareSum(row.alloc, b) \in Int
  BY ShareSumType DEF Row
<1>7. Recorded(b) = SumOver(f, D)
  BY DEF Recorded
<1>8. Recorded(b)' = SumOver(g, D \cup {k})
  BY <1>1 DEF Recorded
<1> HIDE DEF f, g, D, k
<1>9. SumOver(g, D) = SumOver(f, D)
  BY <1>2, <1>3, SumSame
<1>10. \A n \in D \cup {k} : g[n] \in Int
  BY <1>3, <1>4, <1>5, <1>6
<1>11. SumOver(g, D \cup {k}) = g[k] + SumOver(g, D)
  BY <1>1, <1>2, <1>10, SumAdd
<1>12. SumOver(f, D) \in Int
  BY <1>2, <1>4, SumType
<1> QED
  BY <1>5, <1>6, <1>7, <1>8, <1>9, <1>11, <1>12

\* A batch no movement and no request knows of has nothing drawn from it.
LEMMA FreshBatch ==
  ASSUME IsFiniteSet(Slots), TypeOK, NEW b,
         \A n \in DOMAIN moves : \A s \in moves[n].alloc : s.lot # b,
         \A i \in Slots : \A s \in req[i].alloc : s.lot # b
  PROVE  Recorded(b) = 0 /\ InHand(b) = 0
<1> DEFINE f == [n \in DOMAIN moves |-> ShareSum(moves[n].alloc, b)]
           g == [i \in Slots |-> Drawn(i, b)]
<1>1. IsFiniteSet(DOMAIN moves)
  <2>1. DOMAIN moves = 1 .. Len(moves) /\ Len(moves) \in Nat
    BY DEF TypeOK
  <2> QED
    BY <2>1, FS_Interval
<1>2. \A n \in DOMAIN moves : f[n] = 0
  BY ShareSumNone
<1>3. \A i \in Slots : g[i] = 0
  BY DrawnNone DEF Drawn, DrawnBy
<1> HIDE DEF f, g
<1>4. SumOver(f, DOMAIN moves) = 0
  BY <1>1, <1>2, SumZero
<1>5. SumOver(g, Slots) = 0
  BY <1>3, SumZero
<1> QED
  BY <1>4, <1>5 DEF f, g, Recorded, InHand

LEMMA AddUpGoes ==
  ASSUME IsFiniteSet(Slots), TypeOK, TypeOK', Recordable, Keeps, BatchesAddUp,
         NEW i \in Slots, NEW s \in Request, IsFiniteSet(s.alloc), Goes(i, s),
         \A b : Recorded(b)' \in Int,
         \A b \in DOMAIN lots : Clean(b)' =>
           lots'[b].left + Recorded(b)' + DrawnBy(s, b)
             = lots[b].left + Recorded(b) + DrawnBy(req[i], b),
         \A b \in DOMAIN lots' : b \notin DOMAIN lots =>
           lots'[b].received = lots'[b].left /\ Recorded(b)' = 0 /\ InHand(b)' = 0
  PROVE  BatchesAddUp'
<1> SUFFICES ASSUME NEW b \in DOMAIN lots', Clean(b)'
             PROVE  lots'[b].received = lots'[b].left + Recorded(b)' + InHand(b)'
  BY DEF BatchesAddUp, Clean, InHand
<1>1. lots'[b].left \in Int
  <2>1. lots'[b] \in LotRow
    BY DEF TypeOK
  <2> QED
    BY <2>1 DEF LotRow
<1>2. CASE b \notin DOMAIN lots
  BY <1>1, <1>2
<1>3. CASE b \in DOMAIN lots
  <2>1. Clean(b) /\ lots'[b].received = lots[b].received
    BY <1>3, CleanBack DEF Keeps
  <2>2. lots[b].received = lots[b].left + Recorded(b) + InHand(b)
    BY <1>3, <2>1 DEF BatchesAddUp, Clean, InHand
  <2>3. lots'[b].left + Recorded(b)' + DrawnBy(s, b)
          = lots[b].left + Recorded(b) + DrawnBy(req[i], b)
    BY <1>3
  <2>4. InHand(b) \in Int /\ InHand(b)' = InHand(b) + (DrawnBy(s, b) - DrawnBy(req[i], b))
    BY InHandGoes
  <2>5. DrawnBy(s, b) \in Int /\ DrawnBy(req[i], b) \in Int
    BY DrawnByType DEF TypeOK, Recordable
  <2>6. Recorded(b) \in Int /\ Recorded(b)' \in Int /\ lots[b].left \in Int
    <3>1. lots[b] \in LotRow
      BY <1>3 DEF TypeOK
    <3> QED
      BY <3>1, RecordedType DEF LotRow
  <2> QED
    BY <1>1, <2>1, <2>2, <2>3, <2>4, <2>5, <2>6
<1> QED
  BY <1>2, <1>3

\* Movements that stay the same record the same.
LEMMA RecordedStays ==
  ASSUME TypeOK, Recordable, moves' = moves
  PROVE  \A b : Recorded(b)' = Recorded(b) /\ Recorded(b)' \in Int
BY RecordedType DEF Recorded

\* A request that holds no share has drawn nothing.
LEMMA HoldsNone ==
  ASSUME NEW r, r.alloc = {}
  PROVE  \A b : DrawnBy(r, b) = 0
BY DrawnNone

\* A plan is not drawn yet.
LEMMA PlanAddsUp ==
  ASSUME IsFiniteSet(Slots), TypeOK, TypeOK', Known, Recordable, Recordable', Keeps,
         BatchesAddUp, NEW i \in Slots, PlansBatches(i) \/ ReadsBatch(i)
  PROVE  BatchesAddUp'
<1> DEFINE r == req[i]
<1>1. PICK s \in Request : Goes(i, s) /\ \A b : DrawnBy(s, b) = DrawnBy(r, b)
  <2>1. CASE PlansBatches(i)
    <3>1. PICK s \in Request : /\ Goes(i, s) /\ (s.alloc = {} \/ s.alloc = s.shares)
                               /\ r.pc = "batch"
      BY <2>1, PlansBatchesDoes DEF Becomes
    <3>2. r.alloc = {}
      BY <3>1, Kept DEF PcFits
    <3>3. IsFiniteSet(s.alloc) /\ s.alloc \in SUBSET Share
      BY <3>1, GoesOne DEF Recordable, Request
    <3>4. \A b : DrawnBy(s, b) = 0
      <4>1. CASE s.alloc = {}
        BY <4>1, HoldsNone
      <4>2. CASE s.alloc = s.shares
        <5>1. s.alloc \cap s.shares = s.alloc
          BY <4>2
        <5>2. \A b : ShareSum(s.alloc, b) \in Int
          BY <3>3, ShareSumType
        <5> QED
          <6> TAKE b
          <6>1. PICK x \in Int : x = ShareSum(s.alloc, b)
            BY <5>2
          <6>2. ShareSum(s.alloc \cap s.shares, b) = x
            BY <5>1, <6>1
          <6> QED
            BY <6>1, <6>2 DEF DrawnBy
      <4> QED
        BY <3>1, <4>1, <4>2
    <3> QED
      BY <3>1, <3>2, <3>4, HoldsNone
  <2>2. CASE ReadsBatch(i)
    <3>1. PICK s \in Request : Goes(i, s) /\ s.alloc = r.alloc /\ s.shares = r.shares
      BY <2>2, ReadsBatchDoes DEF Becomes
    <3> QED
      BY <3>1 DEF DrawnBy
  <2> QED
    BY <2>1, <2>2
<1>2. lots' = lots /\ moves' = moves
  BY DEF PlansBatches, ReadsBatch, shelf
<1>3. IsFiniteSet(s.alloc)
  BY <1>1, GoesOne DEF Recordable
<1>4. \A b : Recorded(b)' = Recorded(b) /\ Recorded(b)' \in Int
  BY <1>2, RecordedStays
<1> QED
  BY <1>1, <1>2, <1>3, <1>4, AddUpGoes

\* What is written is drawn: a clean batch loses what its share says.
LEMMA WriteAddsUp ==
  ASSUME IsFiniteSet(Slots), TypeOK, TypeOK', Known, Recordable, Recordable', Keeps, Shared,
         BatchesAddUp, NEW i \in Slots, WritesBatch(i)
  PROVE  BatchesAddUp'
<1> DEFINE r == req[i]
<1>1. PICK f \in Foremost(r.shares), s \in Request :
         /\ Goes(i, s) /\ s.shares = r.shares \ {f} /\ s.alloc = r.alloc
         /\ lots' = [lots EXCEPT ![f.lot].left = Left(r.left, f.qty, Restores(Posted(i)))]
         /\ Left(r.left, f.qty, Restores(Posted(i))) \in Int
         /\ r.pc = "write" /\ r.todo # <<>>
  BY WritesBatchDoes DEF Becomes
<1>2. moves' = moves
  BY DEF WritesBatch
<1>3. \A b : Recorded(b)' = Recorded(b) /\ Recorded(b) \in Int
  BY <1>2, RecordedStays
<1>4. /\ DOMAIN lots' = DOMAIN lots
      /\ \A c \in DOMAIN lots :
           lots'[c].left = IF c = f.lot THEN Left(r.left, f.qty, Restores(Posted(i)))
                           ELSE lots[c].left
  BY <1>1, LotWritten
<1>5. f \in r.shares /\ f \in Share /\ IsFiniteSet(r.alloc) /\ r.alloc \in SUBSET Share
  BY ShareIs, Kept DEF Recordable
<1>6. ASSUME NEW b \in DOMAIN lots, Clean(b)'
      PROVE  lots'[b].left + Recorded(b)' + DrawnBy(s, b)
               = lots[b].left + Recorded(b) + DrawnBy(r, b)
  <2>0. DrawnBy(r, b) \in Int /\ lots[b].left \in Int
    <3>1. lots[b] \in LotRow /\ r \in Request
      BY DEF TypeOK
    <3> QED
      BY <1>5, <3>1, DrawnByType DEF LotRow
  <2>1. CASE b # f.lot
    <3>1. ShareSum(s.alloc \cap s.shares, b) = ShareSum(r.alloc \cap r.shares, b)
      <4>1. CASE f \notin r.alloc
        <5>1. s.alloc \cap s.shares = r.alloc \cap r.shares
          BY <1>1, <4>1
        <5> QED
          BY <5>1
      <4>2. CASE f \in r.alloc
        <5> DEFINE S == r.alloc \cap r.shares
        <5>1. S \in SUBSET Share /\ f \in S /\ s.alloc \cap s.shares = S \ {f}
          BY <1>1, <1>5, <4>2
        <5>2. IsFiniteSet(S)
          BY <1>5, FS_Intersection
        <5> QED
          BY <2>1, <5>1, <5>2, ShareSumRemove
      <4> QED
        BY <4>1, <4>2
    <3>2. DrawnBy(s, b) = DrawnBy(r, b)
      BY <1>1, <3>1 DEF DrawnBy
    <3> QED
      BY <1>3, <1>4, <2>1, <3>2
  <2>2. CASE b = f.lot
    <3>1. Clean(f.lot)
      BY <1>6, <2>2, CleanBack
    <3>2. /\ f \in r.alloc /\ f.qty <= lots[b].left /\ r.left = lots[b].left
          /\ Head(r.todo).qty < 0
      BY <1>1, <1>5, <2>2, <3>1 DEF Shared, SharedOf, Clean
    <3>3. ~Restores(Posted(i))
      <4>1. Posted(i) \in Move /\ Posted(i).qty < 0
        BY <1>1, <3>2, PostedIs DEF Posted
      <4> QED
        BY <4>1 DEF Restores, Move
    <3>4. lots'[b].left = lots[b].left - f.qty
      <4>1. lots'[b].left = Left(r.left, f.qty, Restores(Posted(i)))
        BY <1>4, <2>2
      <4>2. lots'[b].left = Greatest(0, r.left - f.qty)
        BY <3>3, <4>1, Zenon DEF Left
      <4>3. f.qty \in Int
        BY <1>5 DEF Share
      <4>4. r.left - f.qty \in Int /\ 0 <= r.left - f.qty
        BY <2>0, <3>2, <4>3
      <4> QED
        BY <3>2, <4>2, <4>4, GreatestIs
    <3>5. DrawnBy(s, b) = DrawnBy(r, b) + f.qty
      <4> DEFINE S == r.alloc \cap r.shares
      <4>1. S \in SUBSET Share /\ f \in S /\ s.alloc \cap s.shares = S \ {f}
        BY <1>1, <1>5, <3>2
      <4>2. IsFiniteSet(S) /\ IsFiniteSet(S \ {f})
        BY <1>5, FS_Intersection, FS_Difference
      <4>3. ShareSum(S, b) = f.qty + ShareSum(S \ {f}, b)
        BY <2>2, <4>1, <4>2, ShareSumRemove
      <4>4. ShareSum(r.alloc, b) \in Int /\ ShareSum(S \ {f}, b) \in Int /\ f.qty \in Int
        BY <1>5, <4>1, <4>2, ShareSumType DEF Share
      <4>5. PICK a \in Int, c \in Int : a = ShareSum(r.alloc, b) /\ c = ShareSum(S \ {f}, b)
        BY <4>4
      <4>6. DrawnBy(r, b) = a - (f.qty + c) /\ DrawnBy(s, b) = a - c
        <5>1. ShareSum(r.alloc \cap r.shares, b) = f.qty + c
          BY <4>3, <4>5
        <5>2. ShareSum(s.alloc, b) = a /\ ShareSum(s.alloc \cap s.shares, b) = c
          BY <1>1, <4>1, <4>5
        <5> QED
          BY <4>5, <5>1, <5>2 DEF DrawnBy
      <4> QED
        BY <4>4, <4>6
    <3>6. f.qty \in Int
      BY <1>5 DEF Share
    <3> QED
      BY <1>3, <2>0, <3>4, <3>5, <3>6
  <2> QED
    BY <2>1, <2>2
<1>7. IsFiniteSet(s.alloc)
  BY <1>1, <1>5
<1> QED
  BY <1>1, <1>3, <1>4, <1>6, <1>7, AddUpGoes

\* What was drawn is on the row.
LEMMA InsertAddsUp ==
  ASSUME IsFiniteSet(Slots), TypeOK, TypeOK', Recordable, Keeps, BatchesAddUp,
         NEW i \in Slots, InsertsRow(i)
  PROVE  BatchesAddUp'
<1> DEFINE r == req[i]
<1>1. PICK s \in Request : Goes(i, s) /\ s.alloc = {} /\ r.shares = {}
  BY InsertsRowDoes DEF Becomes
<1>2. PICK row \in Row : moves' = Append(moves, row) /\ row.alloc = r.alloc
  BY InsertsRowGrows
<1>3. lots' = lots
  BY DEF InsertsRow
<1>4. IsFiniteSet(r.alloc) /\ r.alloc \in SUBSET Share /\ IsFiniteSet(s.alloc)
  BY <1>1, Kept, FS_EmptySet DEF Recordable
<1>5. \A b : Recorded(b)' = Recorded(b) + ShareSum(r.alloc, b)
  BY <1>2, <1>4, RecordedGrows
<1>6. \A b : Recorded(b) \in Int /\ ShareSum(r.alloc, b) \in Int
  BY <1>4, RecordedType, ShareSumType
<1>7. \A b : DrawnBy(r, b) = ShareSum(r.alloc, b) /\ DrawnBy(s, b) = 0
  <2>1. \A b : ShareSum({}, b) = 0
    BY ShareSumNone
  <2>2. r.alloc \cap r.shares = {}
    BY <1>1
  <2> QED
    BY <1>1, <1>6, <2>1, <2>2, HoldsNone DEF DrawnBy
<1>8. \A b \in DOMAIN lots : lots[b].left \in Int
  <2> TAKE b \in DOMAIN lots
  <2>1. lots[b] \in LotRow
    BY DEF TypeOK
  <2> QED
    BY <2>1 DEF LotRow
<1>9. \A b : Recorded(b)' \in Int
  BY <1>5, <1>6
<1>10. \A b \in DOMAIN lots : lots'[b].left + Recorded(b)' + DrawnBy(s, b)
                               = lots[b].left + Recorded(b) + DrawnBy(r, b)
  BY <1>3, <1>5, <1>6, <1>7, <1>8
<1> QED
  BY <1>1, <1>3, <1>4, <1>9, <1>10, AddUpGoes

\* Every other step: nothing is drawn, or what was drawn and is lost is of a disturbed item,
\* and a batch that is put on the shelf is whole.
LEMMA OtherAddsUp ==
  ASSUME IsFiniteSet(Slots), TypeOK, TypeOK', Known, Recordable, Keeps, Shared, BatchesAddUp,
         NEW i \in Slots,
         Arrival(i) \/ PostStep(i) \/ OrderStep(i) \/ PurchaseStep(i) \/ Closes(i) \/ Fault(i),
         ~PlansBatches(i), ~ReadsBatch(i), ~WritesBatch(i), ~InsertsRow(i)
  PROVE  BatchesAddUp'
<1> DEFINE r == req[i]
<1>1. PICK s \in Request : Goes(i, s) /\ s.alloc = {}
  BY OtherSteps
<1>2. \A c \in DOMAIN lots : lots'[c].left = lots[c].left
  BY OtherSteps
<1>3. moves' = moves
  BY RowsStay
<1>4. \A b : Recorded(b)' = Recorded(b) /\ Recorded(b)' \in Int
  BY <1>3, RecordedStays
<1>5. ASSUME NEW b \in DOMAIN lots, Clean(b)' PROVE DrawnBy(r, b) = 0
  <2>1. CASE r.alloc = {}
    BY <2>1, HoldsNone
  <2>2. CASE r.alloc # {}
    <3>1. r.pc \in {"share", "write", "insert"}
      BY <2>2, Kept DEF PcFits
    <3>2. Fault(i)
      <4>1. r.pc \in Posting /\ r.pc # "set" /\ r.pc # "post"
        BY <3>1 DEF Posting
      <4>2. ~Arrival(i) /\ ~OrderStep(i) /\ ~PurchaseStep(i) /\ ~Closes(i) /\ ~Weighs(i)
        BY <4>1, ArrivalQuiet, OrderStepQuiet, PurchaseStepQuiet DEF Quiet
      <4>3. ~ReadsItem(i) /\ ~StoresBalance(i)
        BY <4>1 DEF ReadsItem, StoresBalance, At
      <4> QED
        BY <4>2, <4>3 DEF PostStep
    <3>3. disturbed' = disturbed \cup {x \in Items : r.pc \in Posting /\ Posted(i).item = x}
      BY <3>2 DEF Fault, Throws, Evicted, Marks
    <3>4. r.todo # <<>> /\ r.pc \in Posting
      BY <3>1, Kept DEF PcFits, Posting
    <3>5. Posted(i).item \in disturbed'
      BY <3>3, <3>4, PostedIs DEF Move
    <3>6. \A x \in r.alloc : lots[x.lot].item = Posted(i).item
      BY DEF Shared, SharedOf, Posted
    <3>7. lots[b].item # Posted(i).item
      BY <1>5, <3>5 DEF Clean, Keeps
    <3> QED
      BY <3>6, <3>7, DrawnNone
  <2> QED
    BY <2>1, <2>2
<1>6. ASSUME NEW b \in DOMAIN lots', b \notin DOMAIN lots
      PROVE  lots'[b].received = lots'[b].left /\ Recorded(b)' = 0 /\ InHand(b)' = 0
  <2>1. lots \in Seq(LotRow) /\ lots' # lots
    BY <1>6 DEF TypeOK
  <2>2. Shelves(i)
    <3>1. Arrival(i) => lots' = lots
      BY ArrivalDoes DEF Arrives, shelf
    <3>2. OrderStep(i) => lots' = lots
      BY DEF OrderStep, Claims, Snapshots, Reopens, Cancels, ReadsSales, ChecksReversed, shelf
    <3>3. Closes(i) \/ BooksPurchase(i) \/ ReadsBought(i) \/ Fault(i) => lots' = lots
      BY DEF Closes, BooksPurchase, ReadsBought, Fault, Throws, Evicted, shelf
    <3>4. Weighs(i) \/ ReadsItem(i) \/ StoresBalance(i) => lots' = lots
      BY DEF Weighs, ReadsItem, StoresBalance, shelf
    <3> QED
      BY <2>1, <3>1, <3>2, <3>3, <3>4 DEF PostStep, PurchaseStep
  <2>3. PICK l \in LotRow : lots' = Append(lots, l) /\ l.received = l.left
    BY <2>1, <2>2, ShelvesDoes
  <2>4. b = Len(lots) + 1 /\ lots'[b] = l
    BY <1>6, <2>1, <2>3, AppendProperties
  <2>5. Recorded(b) = 0 /\ InHand(b) = 0 /\ DrawnBy(r, b) = 0
    <3>1. /\ \A n \in DOMAIN moves : \A x \in moves[n].alloc : x.lot # b
          /\ \A j \in Slots : \A x \in req[j].alloc : x.lot # b
      BY <1>6 DEF Known
    <3> QED
      BY <3>1, FreshBatch, DrawnNone
  <2>6. IsFiniteSet(s.alloc) /\ DrawnBy(s, b) = 0
    BY <1>1, HoldsNone, FS_EmptySet
  <2>7. InHand(b)' = InHand(b) + (DrawnBy(s, b) - DrawnBy(r, b))
    BY <1>1, <2>6, InHandGoes
  <2> QED
    BY <1>4, <2>3, <2>4, <2>5, <2>6, <2>7
<1>7. IsFiniteSet(s.alloc) /\ \A b : DrawnBy(s, b) = 0
  BY <1>1, HoldsNone, FS_EmptySet
<1>8. \A b \in DOMAIN lots : Clean(b)' =>
        lots'[b].left + Recorded(b)' + DrawnBy(s, b) = lots[b].left + Recorded(b) + DrawnBy(r, b)
  BY <1>2, <1>4, <1>5, <1>7
<1> QED
  BY <1>1, <1>4, <1>6, <1>7, <1>8, AddUpGoes

Holding == Recordable /\ VoidsWritten /\ Shared /\ BatchesAddUp

\* The opening batches are whole.
Whole == \A b \in DOMAIN OpeningLots : OpeningLots[b].received = OpeningLots[b].left

LEMMA HoldingInit ==
  ASSUME IsFiniteSet(Slots), Whole
  PROVE  Init => Holding
<1> SUFFICES ASSUME Init PROVE Holding
  OBVIOUS
<1>1. moves = <<>> /\ lots = OpeningLots
  BY DEF Init
<1>2. \A i \in Slots : req[i].alloc = {} /\ req[i].pc = "free" /\ req[i].op = "none"
  BY FreeIs DEF Init, Becomes
<1>3. Recordable /\ VoidsWritten
  <2>1. DOMAIN moves = {}
    BY <1>1
  <2>2. \A i \in Slots : IsFiniteSet(req[i].alloc) /\ req[i].op # "void"
    BY <1>2, FS_EmptySet
  <2> QED
    BY <2>1, <2>2 DEF Recordable, VoidsWritten
<1>4. Shared
  BY <1>2 DEF Shared, SharedOf
<1>5. TypeOK
  BY TypeInit
<1>6. \A b \in DOMAIN lots : Recorded(b) = 0 /\ InHand(b) = 0
  BY <1>1, <1>2, <1>5, FreshBatch
<1>7. \A b \in DOMAIN lots : lots[b].left \in Int /\ lots[b].received = lots[b].left
  <2> TAKE b \in DOMAIN lots
  <2>1. lots[b] \in LotRow
    BY <1>5 DEF TypeOK
  <2> QED
    BY <1>1, <2>1 DEF LotRow, Whole
<1>8. BatchesAddUp
  BY <1>6, <1>7 DEF BatchesAddUp, InHand
<1> QED
  BY <1>3, <1>4, <1>8 DEF Holding

LEMMA HoldingNext ==
  ASSUME IsFiniteSet(Slots)
  PROVE  TypeOK /\ TypeOK' /\ Known /\ Alone /\ Holding /\ [Next]_vars => Holding'
<1> SUFFICES ASSUME TypeOK, TypeOK', Known, Alone, Holding, [Next]_vars PROVE Holding'
  OBVIOUS
<1>0. Recordable /\ VoidsWritten /\ Shared /\ BatchesAddUp
  BY DEF Holding
<1>1. CASE UNCHANGED vars
  <2>1. /\ lots' = lots /\ moves' = moves /\ orders' = orders /\ disturbed' = disturbed
        /\ req' = req
    BY <1>1 DEF vars, shelf, books
  <2>2. Recordable' /\ VoidsWritten'
    BY <1>0, <2>1 DEF Recordable, VoidsWritten
  <2>3. Shared'
    BY <1>0, <2>1 DEF Shared, SharedOf, Clean, GivenBack, Foremost, Before, Posted
  <2>4. BatchesAddUp'
    BY <1>0, <2>1 DEF BatchesAddUp, GivenBack, Recorded, Drawn
  <2> QED
    BY <2>2, <2>3, <2>4 DEF Holding
<1>2. ASSUME NEW i \in Slots,
             Arrival(i) \/ PostStep(i) \/ OrderStep(i) \/ PurchaseStep(i) \/ Closes(i) \/ Fault(i)
      PROVE  Holding'
  <2>1. Keeps
    BY <1>2, StepKeeps
  <2>2. Recordable'
    BY <1>0, <1>2, RecordableNext
  <2>3. VoidsWritten' /\ Shared'
    BY <1>0, <1>2, VoidsWrittenNext, SharedNext
  <2>4. BatchesAddUp'
    <3>1. CASE PlansBatches(i) \/ ReadsBatch(i)
      BY <1>0, <2>1, <2>2, <3>1, PlanAddsUp
    <3>2. CASE WritesBatch(i)
      BY <1>0, <2>1, <2>2, <3>2, WriteAddsUp
    <3>3. CASE InsertsRow(i)
      BY <1>0, <2>1, <3>3, InsertAddsUp
    <3>4. CASE ~PlansBatches(i) /\ ~ReadsBatch(i) /\ ~WritesBatch(i) /\ ~InsertsRow(i)
      BY <1>0, <1>2, <2>1, <3>4, OtherAddsUp
    <3> QED
      BY <3>1, <3>2, <3>3, <3>4
  <2> QED
    BY <2>2, <2>3, <2>4 DEF Holding
<1> QED
  BY <1>1, <1>2 DEF Next

\* What was received of a batch is what is left of it and what the movements say they took.
THEOREM BatchesHold ==
  ASSUME IsFiniteSet(Slots), Whole
  PROVE  Spec => []BatchesAddUp
<1>1. Init => Holding
  BY HoldingInit
<1>2. TypeOK /\ TypeOK' /\ Known /\ Alone /\ Holding /\ [Next]_vars => Holding'
  BY HoldingNext
<1>3. Holding => BatchesAddUp
  BY DEF Holding
<1> QED
  BY <1>1, <1>2, <1>3, TypeInit, TypeNext, EvenInit, EvenNext, PTL DEF Spec

-----------------------------------------------------------------------------
(* Orders and purchases: what was posted for them and what is due.         *)

\* A reference to a purchase is to one that is on record, and the movements of an order or of
\* a purchase are its own and the ones that undo them.
RefKnown(ref) == ref.kind = "purchases" => ref.id \in DOMAIN purchases

Referred ==
  /\ \A i \in Slots : RefKnown(req[i].ref)
  /\ \A n \in DOMAIN moves :
       /\ RefKnown(moves[n].ref)
       /\ moves[n].ref.kind = "orders" => moves[n].type \in {"sale", "void_reversal"}
       /\ moves[n].ref.kind = "purchases" => moves[n].type \in {"purchase", "void_reversal"}

\* It is a voided order or a voided purchase.
Undone(ref) == \/ ref.kind = "orders" /\ orders[ref.id].voided
               \/ ref.kind = "purchases" /\ purchases[ref.id]

\* Nothing of it is undone yet.
Forward(ref) == \A n \in RowsOf(ref) : moves[n].type # "void_reversal"

\* What was posted for it, and what a request still has to post, item by item.
Net(ref, x) == RowSum({n \in RowsOf(ref) : moves[n].item = x})
SumOf(q, x) == SumOver([k \in DOMAIN q |-> q[k].qty], {k \in DOMAIN q : q[k].item = x})
Rest(r)     == IF r.pc = "set" THEN Tail(r.todo) ELSE r.todo

\* Before it reads the rows it undoes.
Reading == {"cancel", "sales", "bought"}

\* An order or a purchase whose requests neither crossed nor failed: who undoes it is alone
\* with it and owes what will bring it to nothing; with nobody undoing it, all of it is
\* undone or none of it.
Settles(ref) ==
  /\ \A i, j \in Slots : i # j /\ req[i].ref = ref /\ req[j].ref = ref => ~Undoes(req[i])
  /\ \A i \in Slots : req[i].ref = ref /\ Undoes(req[i]) =>
       /\ req[i].pc \in Reading \cup {"already"} => Forward(ref)
       /\ req[i].pc \notin Reading => \A x : Net(ref, x) + SumOf(Rest(req[i]), x) = 0
  /\ (\A i \in Slots : req[i].ref = ref => ~Undoes(req[i])) =>
       /\ Undone(ref) => (\A x : Net(ref, x) = 0) /\ \A i \in Slots : req[i].ref # ref
       /\ ~Undone(ref) => Forward(ref)





LEMMA RefsSame ==
  \A a, b \in Refs : a.kind = b.kind /\ a.id = b.id => a = b
BY DEF Refs

-----------------------------------------------------------------------------
(* Sums by item.                                                           *)

LEMMA NetType ==
  ASSUME TypeOK, NEW ref, NEW x PROVE Net(ref, x) \in Int
<1> DEFINE f == [n \in DOMAIN moves |-> moves[n].qty]
           S == {n \in RowsOf(ref) : moves[n].item = x}
<1>1. DOMAIN moves = 1 .. Len(moves) /\ Len(moves) \in Nat /\ \A n \in DOMAIN moves : moves[n] \in Row
  BY DEF TypeOK
<1>2. IsFiniteSet(S)
  <2>1. IsFiniteSet(DOMAIN moves) /\ S \in SUBSET (DOMAIN moves)
    BY <1>1, FS_Interval DEF RowsOf
  <2> HIDE DEF S
  <2> QED
    BY <2>1, FS_Subset
<1>3. \A n \in S : f[n] \in Int
  BY <1>1 DEF Row, RowsOf
<1>4. Net(ref, x) = SumOver(f, S)
  BY DEF Net, RowSum
<1> HIDE DEF f, S
<1> QED
  BY <1>2, <1>3, <1>4, SumType

\* A row that is inserted counts for what it is about, and for its item.
LEMMA NetGrows ==
  ASSUME TypeOK, NEW row \in Row, moves' = Append(moves, row), NEW ref
  PROVE  /\ row.ref = ref => RowsOf(ref)' = RowsOf(ref) \cup {Len(moves) + 1}
         /\ row.ref # ref => RowsOf(ref)' = RowsOf(ref)
         /\ \A x : Net(ref, x)' = Net(ref, x) + (IF row.ref = ref /\ row.item = x THEN row.qty ELSE 0)
<1> DEFINE k == Len(moves) + 1
<1>1. /\ DOMAIN moves = 1 .. Len(moves) /\ Len(moves) \in Nat
      /\ DOMAIN moves' = DOMAIN moves \cup {k} /\ k \notin DOMAIN moves
      /\ moves'[k] = row /\ \A n \in DOMAIN moves : moves'[n] = moves[n]
  BY MovesGrow
<1>2. \A n \in DOMAIN moves : moves[n] \in Row
  BY DEF TypeOK
<1>3. /\ row.ref = ref => RowsOf(ref)' = RowsOf(ref) \cup {k}
      /\ row.ref # ref => RowsOf(ref)' = RowsOf(ref)
  BY <1>1 DEF RowsOf
<1> SUFFICES ASSUME NEW x
             PROVE  Net(ref, x)' = Net(ref, x) + (IF row.ref = ref /\ row.item = x THEN row.qty ELSE 0)
  BY <1>3
<1> DEFINE f == [n \in DOMAIN moves |-> moves[n].qty]
           S == {n \in RowsOf(ref) : moves[n].item = x}
           g == [n \in DOMAIN moves' |-> moves'[n].qty]
           T == {n \in RowsOf(ref)' : moves'[n].item = x}
<1>4. IsFiniteSet(S) /\ k \notin S
  <2>1. IsFiniteSet(DOMAIN moves) /\ S \in SUBSET (DOMAIN moves) /\ k \notin S
    BY <1>1, FS_Interval DEF RowsOf
  <2> HIDE DEF S
  <2> QED
    BY <2>1, FS_Subset
<1>5. \A n \in S : f[n] = g[n] /\ g[n] \in Int
  BY <1>1, <1>2 DEF Row, RowsOf
<1>6. g[k] = row.qty /\ row.qty \in Int
  BY <1>1 DEF Row
<1>7. /\ row.ref = ref /\ row.item = x => T = S \cup {k}
      /\ ~(row.ref = ref /\ row.item = x) => T = S
  <2>1. \A n \in RowsOf(ref) : n \in DOMAIN moves
    BY DEF RowsOf
  <2> QED
    BY <1>1, <1>3, <2>1
<1>8. Net(ref, x) = SumOver(f, S) /\ Net(ref, x)' = SumOver(g, T)
  BY DEF Net, RowSum
<1> HIDE DEF f, S, g, T, k
<1>9. SumOver(f, S) = SumOver(g, S)
  BY <1>4, <1>5, SumSame
<1>10. SumOver(g, S) \in Int
  BY <1>4, <1>5, SumType
<1>11. CASE row.ref = ref /\ row.item = x
  <2>1. SumOver(g, S \cup {k}) = g[k] + SumOver(g, S)
    <3>1. \A n \in S \cup {k} : g[n] \in Int
      BY <1>5, <1>6
    <3> QED
      BY <1>4, <3>1, SumAdd
  <2>2. PICK a, b \in Int : a = SumOver(g, S) /\ b = row.qty
    BY <1>6, <1>10
  <2>3. Net(ref, x) = a /\ Net(ref, x)' = b + a
    BY <1>6, <1>7, <1>8, <1>9, <1>11, <2>1, <2>2
  <2> QED
    BY <1>11, <2>2, <2>3
<1>12. CASE ~(row.ref = ref /\ row.item = x)
  BY <1>7, <1>8, <1>9, <1>10, <1>12
<1> QED
  BY <1>11, <1>12

LEMMA SumOfType ==
  ASSUME NEW q \in Seq(Move), NEW x PROVE SumOf(q, x) \in Int
<1> DEFINE f == [k \in DOMAIN q |-> q[k].qty]
           S == {k \in DOMAIN q : q[k].item = x}
<1>1. IsFiniteSet(DOMAIN q) /\ S \in SUBSET (DOMAIN q)
  <2>1. DOMAIN q = 1 .. Len(q) /\ Len(q) \in Nat
    OBVIOUS
  <2> QED
    BY <2>1, FS_Interval
<1>2. \A k \in S : f[k] \in Int
  <2>1. \A k \in DOMAIN q : q[k] \in Move
    OBVIOUS
  <2> QED
    BY <2>1 DEF Move
<1>3. SumOf(q, x) = SumOver(f, S)
  BY DEF SumOf
<1> HIDE DEF f, S
<1> QED
  BY <1>1, <1>2, <1>3, FS_Subset, SumType

LEMMA SumOfNone == \A x : SumOf(<<>>, x) = 0
<1>1. \A x : {k \in DOMAIN <<>> : <<>>[k].item = x} = {}
  OBVIOUS
<1> QED
  BY <1>1, SumEmpty DEF SumOf

\* The first movement, and the ones after it.
LEMMA SumOfHead ==
  ASSUME NEW q \in Seq(Move), q # <<>>, NEW x
  PROVE  SumOf(q, x) = (IF q[1].item = x THEN q[1].qty ELSE 0) + SumOf(Tail(q), x)
<1> DEFINE t == Tail(q)
           f == [k \in DOMAIN q |-> q[k].qty]
           S == {k \in DOMAIN q : q[k].item = x}
           g == [k \in DOMAIN t |-> t[k].qty]
           T == {k \in DOMAIN t : t[k].item = x}
           h == [k \in DOMAIN t |-> k + 1]
           U == {h[k] : k \in T}
<1>1. PICK n \in Nat : n = Len(q) /\ n >= 1 /\ DOMAIN q = 1 .. n
  OBVIOUS
<1>2. /\ t \in Seq(Move) /\ DOMAIN t = 1 .. (n - 1)
      /\ \A k \in 1 .. (n - 1) : t[k] = q[k + 1]
  BY <1>1
<1>3. \A k \in DOMAIN q : q[k] \in Move /\ q[k].qty \in Int
  <2>1. \A k \in DOMAIN q : q[k] \in Move
    OBVIOUS
  <2> QED
    BY <2>1 DEF Move
<1>4. IsFiniteSet(S) /\ IsFiniteSet(T)
  <2>1. S \in SUBSET (DOMAIN q) /\ T \in SUBSET (DOMAIN t)
    OBVIOUS
  <2>2. IsFiniteSet(1 .. n) /\ IsFiniteSet(1 .. (n - 1))
    BY <1>1, FS_Interval
  <2> HIDE DEF S, T, t
  <2> QED
    BY <1>1, <1>2, <2>1, <2>2, FS_Subset
<1>5. \A k, l \in T : h[k] = h[l] => k = l
  BY <1>2
<1>6. \A k \in T : g[k] \in Int /\ g[k] = f[h[k]]
  BY <1>1, <1>2, <1>3
<1>7. 1 \notin U /\ 1 \in DOMAIN q /\ f[1] = q[1].qty /\ f[1] \in Int
  BY <1>1, <1>2, <1>3
<1>8. S = IF q[1].item = x THEN U \cup {1} ELSE U
  <2>1. \A k \in S : k = 1 \/ (k - 1 \in T /\ h[k - 1] = k)
    BY <1>1, <1>2
  <2>2. \A k \in T : h[k] \in S
    BY <1>1, <1>2
  <2>3. S \subseteq U \cup {1} /\ U \subseteq S
    BY <2>1, <2>2
  <2>4. 1 \in S <=> q[1].item = x
    BY <1>1
  <2> HIDE DEF S, U
  <2>5. CASE 1 \in S
    <3>1. S = U \cup {1}
      BY <2>3, <2>5
    <3> QED
      BY <2>4, <2>5, <3>1
  <2>6. CASE 1 \notin S
    <3>1. S = U
      BY <2>3, <2>6
    <3> QED
      BY <2>4, <2>6, <3>1
  <2> QED
    BY <2>5, <2>6
<1>9. SumOf(q, x) = SumOver(f, S) /\ SumOf(Tail(q), x) = SumOver(g, T)
  BY DEF SumOf
<1>10. SumOver(g, T) \in Int
  <2> HIDE DEF g, T
  <2> QED
    BY <1>4, <1>6, SumType
<1>11. SumOver(g, T) = SumOver(f, U)
  <2> HIDE DEF f, g, T, h
  <2> QED
    BY <1>4, <1>5, <1>6, SumMap
<1>12. CASE q[1].item = x
  <2>1. IsFiniteSet(S) /\ 1 \in S /\ S \ {1} = U /\ \A k \in S : f[k] \in Int
    <3>1. \A k \in S : f[k] \in Int
      BY <1>3
    <3> HIDE DEF S, U
    <3> QED
      BY <1>4, <1>7, <1>8, <1>12, <3>1
  <2> HIDE DEF f, g, S, T, U
  <2>2. SumOver(f, S) = f[1] + SumOver(f, U)
    BY <2>1, SumRemove
  <2> QED
    BY <1>7, <1>9, <1>11, <1>12, <2>2
<1>13. CASE q[1].item # x
  <2> HIDE DEF f, g, S, T, U
  <2> QED
    BY <1>8, <1>9, <1>10, <1>11, <1>13
<1> QED
  BY <1>12, <1>13

\* When every row of it is of one type, the reversals of the rows of that type bring it to
\* nothing.
LEMMA NetTurned ==
  ASSUME TypeOK, NEW ref, NEW type, RowsFor(ref, type) = RowsOf(ref), NEW x
  PROVE  Net(ref, x) + SumOf(Reversals(Rows(ref, type)), x) = 0
<1> DEFINE R == RowsOf(ref)
<1>0. PICK q, h : q = Reversals(Rows(ref, type)) /\ h = InOrder(R)
  OBVIOUS
<1>1. PICK n \in Nat : n = Cardinality(R)
  BY RowsForType, FS_CardinalityType
<1>2. /\ Numbers(h, R) /\ DOMAIN Rows(ref, type) = 1 .. n
      /\ \A k \in 1 .. n : h[k] \in R /\ Rows(ref, type)[k] = moves[h[k]]
  BY <1>0, <1>1, RowsAre
<1>3. /\ q \in Seq(Move) /\ DOMAIN q = 1 .. n
      /\ \A k \in 1 .. n : q[k].item = moves[h[k]].item /\ q[k].qty = -moves[h[k]].qty
  BY <1>0, <1>2, ReversalsAre
<1>4. R \subseteq DOMAIN moves /\ \A m \in DOMAIN moves : moves[m] \in Row /\ moves[m].qty \in Int
  <2>1. R \subseteq DOMAIN moves /\ \A m \in DOMAIN moves : moves[m] \in Row
    BY DEF RowsOf, TypeOK
  <2> QED
    BY <2>1 DEF Row
<1>5. \A a, b \in 1 .. n : h[a] = h[b] => a = b
  <2> SUFFICES ASSUME NEW a \in 1 .. n, NEW b \in 1 .. n, h[a] = h[b], a # b PROVE FALSE
    OBVIOUS
  <2>1. h[a] \in Nat /\ h[b] \in Nat
    BY <1>2, RowsForType
  <2>2. a < b \/ b < a
    OBVIOUS
  <2>3. h[a] < h[b] \/ h[b] < h[a]
    BY <1>1, <1>2, <2>2 DEF Numbers
  <2> QED
    BY <2>1, <2>3
<1> DEFINE f == [m \in DOMAIN moves |-> moves[m].qty]
           S == {m \in R : moves[m].item = x}
           g == [k \in DOMAIN q |-> q[k].qty]
           T == {k \in DOMAIN q : q[k].item = x}
           e == [k \in DOMAIN q |-> -q[k].qty]
           U == {h[k] : k \in T}
<1>6. U = S
  <2>1. \A m \in R : \E k \in 1 .. n : h[k] = m
    BY <1>1, <1>2 DEF Numbers
  <2> QED
    BY <1>2, <1>3, <2>1
<1>7. IsFiniteSet(T)
  <2>1. T \in SUBSET (DOMAIN q)
    OBVIOUS
  <2>2. IsFiniteSet(1 .. n)
    BY <1>1, FS_Interval
  <2> HIDE DEF T
  <2> QED
    BY <1>3, <2>1, <2>2, FS_Subset
<1>8. \A k \in T : e[k] \in Int /\ e[k] = f[h[k]] /\ g[k] \in Int /\ e[k] = -g[k]
  <2> SUFFICES ASSUME NEW k \in 1 .. n
               PROVE  /\ e[k] \in Int /\ e[k] = f[h[k]] /\ g[k] \in Int /\ e[k] = -g[k]
    BY <1>3
  <2>1. PICK a \in Int : a = moves[h[k]].qty
    BY <1>2, <1>4
  <2>2. f[h[k]] = a /\ g[k] = -a /\ e[k] = -(-a)
    BY <1>2, <1>3, <1>4, <2>1
  <2> QED
    BY <2>2
<1>9. \A k, l \in T : h[k] = h[l] => k = l
  BY <1>3, <1>5
<1>10. Net(ref, x) = SumOver(f, S) /\ SumOf(q, x) = SumOver(g, T)
  BY DEF Net, RowSum, SumOf
<1> HIDE DEF f, S, g, T, e, U, R
<1>11. SumOver(e, T) = SumOver(f, {h[k] : k \in T})
  BY <1>7, <1>8, <1>9, SumMap
<1>12. SumOver(e, T) = -SumOver(g, T)
  BY <1>7, <1>8, SumNegate
<1>13. SumOver(g, T) \in Int
  BY <1>7, <1>8, SumType
<1>14. SumOver(f, {h[k] : k \in T}) = SumOver(f, S)
  BY <1>6 DEF U
<1>15. PICK a \in Int : a = SumOver(g, T)
  BY <1>13
<1>16. Net(ref, x) = -a /\ SumOf(q, x) = a
  BY <1>10, <1>11, <1>12, <1>14, <1>15
<1> QED
  BY <1>0, <1>15, <1>16

-----------------------------------------------------------------------------
(* What steps do to the requests about one order or purchase.              *)

There(ref) == \/ ref.kind = "orders" /\ ref.id \in Orders
              \/ ref.kind = "purchases" /\ ref.id \in DOMAIN purchases

Settling == Referred /\ \A ref \in Refs \ troubled : There(ref) => Settles(ref)

\* A request that goes on posting what it has to.
Course(s, r) ==
  /\ Alike(s, r) /\ Rest(s) = Rest(r)
  /\ r.pc \in {"post"} \cup Posting
  /\ s.pc \in {"post", "weigh", "snapshot", "shelve", "close"} \cup Posting

Carried(s, r) == s.ref = r.ref /\ (r.ref # NoRef => Course(s, r))

LEMMA CourseIs ==
  ASSUME NEW s \in Request, NEW r \in Request, Alike(s, r), s.todo = r.todo,
         r.pc \in {"post", "batch", "share", "write"}, s.pc \in {"batch", "share", "write", "insert"}
  PROVE  Course(s, r)
BY DEF Course, Rest, Posting

\* Posting leaves alone what there is still to post, except that a row is inserted.
LEMMA PostStepIs ==
  ASSUME TypeOK, Known, NEW i \in Slots, PostStep(i), ~InsertsRow(i)
  PROVE  \E s \in Request : Goes(i, s) /\ Carried(s, req[i])
<1> DEFINE r == req[i]
<1> SUFFICES \E s \in Request : Goes(i, s) /\ s.ref = r.ref /\ (r.ref # NoRef => Course(s, r))
  BY DEF Carried
<1>0. r \in Request /\ RefFits(r) /\ PcFits(r)
  BY Kept
<1>1. CASE Weighs(i)
  <2>1. PICK s \in Request : /\ Goes(i, s) /\ \E todo : Resumes(i, s, Tail(r.sheet), todo, r.cur)
                             /\ r.op = "count"
    BY <1>1, WeighsDoes
  <2>2. r.ref = NoRef
    BY <1>0, <2>1 DEF RefFits
  <2>3. s.ref = NoRef
    BY <2>1, <2>2, FreeIs DEF Resumes, Onward, Alike
  <2> QED
    BY <2>1, <2>2, <2>3
<1>2. CASE ReadsItem(i)
  <2>1. \E s \in Request : Goes(i, s) /\ Alike(s, r) /\ s.todo = r.todo /\ s.pc = "batch" /\ r.pc = "post"
    BY <1>2, ReadsItemDoes DEF Becomes, ReadsItem, At
  <2> QED
    BY <1>0, <2>1, CourseIs DEF Alike
<1>3. CASE PlansBatches(i)
  <2>1. \E s \in Request : Goes(i, s) /\ Alike(s, r) /\ s.todo = r.todo
                           /\ s.pc \in {"insert", "share"} /\ r.pc = "batch"
    BY <1>3, PlansBatchesDoes DEF Becomes, PlansBatches, At
  <2> QED
    BY <1>0, <2>1, CourseIs DEF Alike
<1>4. CASE ReadsBatch(i)
  <2>1. \E s \in Request : Goes(i, s) /\ Alike(s, r) /\ s.todo = r.todo
                           /\ s.pc = "write" /\ r.pc = "share"
    BY <1>4, ReadsBatchDoes DEF Becomes, ReadsBatch, At
  <2> QED
    BY <1>0, <2>1, CourseIs DEF Alike
<1>5. CASE WritesBatch(i)
  <2>1. \E s \in Request : Goes(i, s) /\ Alike(s, r) /\ s.todo = r.todo
                           /\ s.pc \in {"insert", "share"} /\ r.pc = "write"
    BY <1>5, WritesBatchDoes DEF Becomes, WritesBatch, At
  <2> QED
    BY <1>0, <2>1, CourseIs DEF Alike
<1>6. CASE StoresBalance(i)
  <2>1. PICK s \in Request : Goes(i, s) /\ Resumes(i, s, r.sheet, Tail(r.todo), 0) /\ r.pc = "set"
    BY <1>6, StoresBalanceDoes
  <2>2. PICK t \in Request : Alike(t, r) /\ t.todo = Tail(r.todo) /\ Onward(s, t)
    BY <2>1 DEF Resumes, Becomes
  <2>3. CASE s = FreeSlot /\ t.op \in {"adjust", "count", "waste"}
    BY <1>0, <2>1, <2>2, <2>3, FreeIs DEF RefFits, Alike
  <2>4. CASE /\ Alike(s, t) /\ s.todo = t.todo
             /\ s.pc \in {"post", "weigh", "snapshot", "shelve", "close"}
    <3>1. Alike(s, r) /\ s.todo = Tail(r.todo)
      BY <2>2, <2>4 DEF Alike
    <3>2. Rest(s) = Rest(r)
      BY <2>1, <2>4, <3>1 DEF Rest
    <3> QED
      BY <2>1, <2>4, <3>1, <3>2 DEF Course, Alike, Posting
  <2> QED
    BY <2>2, <2>3, <2>4 DEF Onward, Becomes
<1> QED
  BY <1>1, <1>2, <1>3, <1>4, <1>5, <1>6 DEF PostStep

\* A request is about one order or purchase from its arrival on, or from the INSERT of the
\* purchase.
LEMMA RefGoes ==
  ASSUME TypeOK, Known, NEW i \in Slots, ~Arrival(i), ~BooksPurchase(i),
         Arrival(i) \/ PostStep(i) \/ OrderStep(i) \/ PurchaseStep(i) \/ Closes(i) \/ Fault(i)
  PROVE  \E s \in Request : Goes(i, s) /\ s.ref \in {req[i].ref, NoRef} /\ s.op \in {req[i].op, "none"}
<1> DEFINE r == req[i]
           Fine(s) == s.ref \in {r.ref, NoRef} /\ s.op \in {r.op, "none"}
<1>1. FreeSlot \in Request /\ Fine(FreeSlot)
  BY FreeIs
<1>2. ASSUME NEW s \in Request, NEW sheet, NEW todo, NEW cur, Resumes(i, s, sheet, todo, cur)
      PROVE  Fine(s)
  BY <1>1, <1>2 DEF Resumes, Onward, Alike
<1>3. ASSUME NEW s, Alike(s, r) PROVE Fine(s)
  BY <1>3 DEF Alike
<1>4. Answers(i) => \E s \in Request : Goes(i, s) /\ Fine(s)
  BY <1>1 DEF Answers
<1> SUFFICES \E s \in Request : Goes(i, s) /\ Fine(s)
  OBVIOUS
<1> HIDE DEF Fine
<1>5. CASE PostStep(i)
  <2>1. CASE Weighs(i)
    BY <1>2, <2>1, WeighsDoes
  <2>2. CASE ReadsItem(i) \/ PlansBatches(i) \/ ReadsBatch(i) \/ WritesBatch(i) \/ InsertsRow(i)
    BY <1>3, <2>2, ReadsItemDoes, PlansBatchesDoes, ReadsBatchDoes, WritesBatchDoes, InsertsRowDoes
  <2>3. CASE StoresBalance(i)
    BY <1>2, <2>3, StoresBalanceDoes
  <2> QED
    BY <1>5, <2>1, <2>2, <2>3 DEF PostStep
<1>6. CASE OrderStep(i)
  <2>1. CASE Claims(i)
    BY <1>2, <1>4, <2>1, ClaimsDoes
  <2>2. CASE Snapshots(i) \/ Reopens(i)
    BY <1>4, <2>2 DEF Snapshots, Reopens
  <2>3. CASE Cancels(i)
    BY <1>3, <2>3, CancelsDoes
  <2>4. CASE ReadsSales(i)
    BY <1>3, <1>4, <2>4, ReadsSalesDoes
  <2>5. CASE ChecksReversed(i)
    BY <1>2, <1>4, <2>5, ChecksReversedDoes
  <2> QED
    BY <1>6, <2>1, <2>2, <2>3, <2>4, <2>5 DEF OrderStep
<1>7. CASE Shelves(i) \/ Closes(i) \/ Evicted(i)
  BY <1>4, <1>7, ShelvesDoes, ClosesDoes DEF Evicted
<1>8. CASE ReadsBought(i)
  BY <1>2, <1>8, ReadsBoughtDoes
<1>9. CASE Throws(i)
  <2>1. ASSUME NEW s, s.op = "consume", s.ref = r.ref, r.op = "consume" PROVE Fine(s)
    BY <2>1 DEF Fine
  <2> QED
    BY <1>3, <1>4, <1>9, <2>1, ThrowsDoes
<1> QED
  BY <1>5, <1>6, <1>7, <1>8, <1>9 DEF PurchaseStep, Fault

\* Rows are about what their request is about.
LEMMA RowRefIs ==
  ASSUME TypeOK, NEW i \in Slots, InsertsRow(i)
  PROVE  \E row \in Row :
           /\ moves' = Append(moves, row)
           /\ row.item = Posted(i).item /\ row.qty = Posted(i).qty /\ row.type = Posted(i).type
           /\ row.ref = req[i].ref /\ MoveFits(req[i], Posted(i)) /\ req[i].todo # <<>>
<1>1. req[i].todo # <<>>
  BY InsertsRowDoes
<1>2. MoveFits(req[i], Posted(i))
  BY <1>1, PostedIs
<1> QED
  BY <1>1, <1>2, InsertsRowGrows DEF MoveFits

LEMMA PurchasesStay ==
  ASSUME TypeOK, NEW i \in Slots,
         Arrival(i) \/ PostStep(i) \/ OrderStep(i) \/ PurchaseStep(i) \/ Closes(i) \/ Fault(i)
  PROVE  /\ DOMAIN purchases \subseteq DOMAIN purchases'
         /\ ~BooksPurchase(i) => DOMAIN purchases' = DOMAIN purchases
         /\ ~BooksPurchase(i) /\ ~Closes(i) => purchases' = purchases
         /\ BooksPurchase(i) =>
              /\ DOMAIN purchases' = DOMAIN purchases \cup {Len(purchases) + 1}
              /\ Len(purchases) + 1 \notin DOMAIN purchases
              /\ purchases'[Len(purchases) + 1] = FALSE
              /\ \A p \in DOMAIN purchases : purchases'[p] = purchases[p]
<1>1. purchases \in Seq(BOOLEAN) /\ DOMAIN purchases = 1 .. Len(purchases) /\ Len(purchases) \in Nat
  BY DEF TypeOK
<1>2. CASE BooksPurchase(i)
  <2>1. purchases' = Append(purchases, FALSE)
    BY <1>2 DEF BooksPurchase
  <2> QED
    BY <1>1, <1>2, <2>1, AppendProperties
<1>3. CASE Closes(i) /\ ~BooksPurchase(i)
  <2>1. \/ purchases' = purchases
        \/ \E p : purchases' = [purchases EXCEPT ![p] = TRUE]
    BY <1>3, ClosesDoes
  <2> QED
    BY <1>3, <2>1
<1>4. CASE ~BooksPurchase(i) /\ ~Closes(i)
  <2>1. Arrival(i) => purchases' = purchases
    BY ArrivalDoes DEF Arrives, books
  <2>2. PostStep(i) => purchases' = purchases
    BY DEF PostStep, Weighs, ReadsItem, PlansBatches, ReadsBatch, WritesBatch, InsertsRow,
           StoresBalance, books
  <2>3. OrderStep(i) => purchases' = purchases
    BY DEF OrderStep, Claims, Snapshots, Reopens, Cancels, ReadsSales, ChecksReversed, books
  <2>4. Shelves(i) \/ ReadsBought(i) \/ Fault(i) => purchases' = purchases
    BY DEF Shelves, ReadsBought, Fault, Throws, Evicted, books
  <2> QED
    BY <1>4, <2>1, <2>2, <2>3, <2>4 DEF PurchaseStep
<1> QED
  BY <1>2, <1>3, <1>4

\* The references rows and requests have are known in the next state as well.
LEMMA ReferredNext ==
  ASSUME TypeOK, Known, Referred, NEW i \in Slots,
         Arrival(i) \/ PostStep(i) \/ OrderStep(i) \/ PurchaseStep(i) \/ Closes(i) \/ Fault(i)
  PROVE  Referred'
<1>1. \A ref : RefKnown(ref) => RefKnown(ref)'
  BY PurchasesStay DEF RefKnown
<1>2. \E s \in Request : Goes(i, s) /\ RefKnown(s.ref)'
  <2>1. CASE Arrival(i)
    <3>1. PICK s \in Request :
            Arrives(i, s) /\ Fits(s) /\ (s.op = "unbuy" => s.ref.id \in DOMAIN purchases)
            /\ s.op # "none" /\ (s.op = "purchase" => s.ref = NoRef)
      BY <2>1, ArrivalDoes
    <3>2. RefKnown(s.ref)
      BY <3>1 DEF Fits, RefFits, RefKnown, Request, AllOps, NoRef
    <3> QED
      BY <1>1, <3>1, <3>2 DEF Arrives
  <2>2. CASE BooksPurchase(i)
    <3>1. PICK s \in Request : Goes(i, s) /\ s.ref = PurchaseRef(Len(purchases) + 1)
      BY <2>2, BooksPurchaseDoes
    <3>2. RefKnown(s.ref)'
      BY <2>2, <3>1, PurchasesStay, PurchaseRefIs DEF RefKnown
    <3> QED
      BY <3>1, <3>2
  <2>3. CASE ~Arrival(i) /\ ~BooksPurchase(i)
    <3>1. PICK s \in Request : Goes(i, s) /\ s.ref \in {req[i].ref, NoRef}
      BY <2>3, RefGoes
    <3>2. RefKnown(req[i].ref) /\ RefKnown(NoRef)
      BY DEF Referred, RefKnown, NoRef
    <3> QED
      BY <1>1, <3>1, <3>2
  <2> QED
    BY <2>1, <2>2, <2>3
<1>3. \A j \in Slots : RefKnown(req[j].ref)'
  <2>1. PICK s \in Request : Goes(i, s) /\ RefKnown(s.ref)'
    BY <1>2
  <2>2. \A j \in Slots \ {i} : req'[j] = req[j] /\ RefKnown(req[j].ref)
    BY <2>1, GoesOne DEF Referred
  <2>3. req'[i] = s
    BY <2>1, GoesOne
  <2> QED
    BY <1>1, <2>1, <2>2, <2>3 DEF RefKnown
<1>4. ASSUME NEW n \in DOMAIN moves', NEW ref, ref = moves'[n].ref
      PROVE  /\ RefKnown(ref)'
             /\ moves'[n].ref.kind = "orders" => moves'[n].type \in {"sale", "void_reversal"}
             /\ moves'[n].ref.kind = "purchases" => moves'[n].type \in {"purchase", "void_reversal"}
  <2>1. CASE n \in DOMAIN moves
    <3>1. moves'[n] = moves[n]
      BY <2>1, RowsStay
    <3> QED
      BY <1>1, <1>4, <2>1, <3>1 DEF Referred
  <2>2. CASE n \notin DOMAIN moves
    <3>1. InsertsRow(i)
      BY <2>2, RowsStay
    <3>2. PICK row \in Row : /\ moves' = Append(moves, row)
                             /\ row.type = Posted(i).type /\ row.ref = req[i].ref
                             /\ MoveFits(req[i], Posted(i)) /\ req[i].todo # <<>>
      BY <3>1, RowRefIs
    <3>3. moves'[n] = row
      BY <2>2, <3>2, MovesGrow
    <3>4. RefFits(req[i]) /\ req[i].op \in AllOps /\ RefKnown(req[i].ref)
      BY <3>1, Kept, OpsServed DEF InsertsRow, At, Referred
    <3>5. /\ row.ref.kind = "orders" => row.type \in {"sale", "void_reversal"}
          /\ row.ref.kind = "purchases" => row.type \in {"purchase", "void_reversal"}
      BY <3>2, <3>4 DEF RefFits, MoveFits, AllOps, NoRef
    <3> QED
      BY <1>1, <1>4, <3>2, <3>3, <3>4, <3>5
  <2> QED
    BY <2>1, <2>2
<1>5. \A n \in DOMAIN moves' :
        /\ moves'[n].ref.kind = "purchases" => moves'[n].ref.id \in DOMAIN purchases'
        /\ moves'[n].ref.kind = "orders" => moves'[n].type \in {"sale", "void_reversal"}
        /\ moves'[n].ref.kind = "purchases" => moves'[n].type \in {"purchase", "void_reversal"}
  BY <1>4 DEF RefKnown
<1> QED
  BY <1>3, <1>5 DEF Referred, RefKnown

\* What is voided stays so, and only the UPDATE of its void makes it so.
LEMMA UndoneSame ==
  ASSUME TypeOK, NEW i \in Slots, NEW ref \in Refs, There(ref),
         Arrival(i) \/ PostStep(i) \/ OrderStep(i) \/ PurchaseStep(i) \/ Closes(i) \/ Fault(i),
         Cancels(i) \/ Closes(i) => req[i].ref # ref
  PROVE  Undone(ref)' <=> Undone(ref)
<1>1. CASE ref.kind = "orders"
  <2>1. PICK o \in Orders : o = ref.id
    BY <1>1 DEF There
  <2>2. orders'[o].voided = orders[o].voided
    <3>1. CASE orders' = orders
      BY <3>1
    <3>2. CASE Claims(i) \/ Reopens(i) \/ Closes(i)
      <4>1. PICK u : \/ orders' = [orders EXCEPT ![u].consumed = TRUE]
                     \/ orders' = [orders EXCEPT ![u].consumed = FALSE]
                     \/ orders' = orders
        BY <3>2, ClaimsDoes, ClosesDoes DEF Reopens
      <4>2. /\ [orders EXCEPT ![u].consumed = TRUE][o].voided = orders[o].voided
            /\ [orders EXCEPT ![u].consumed = FALSE][o].voided = orders[o].voided
        BY OrderMarked
      <4> QED
        BY <4>1, <4>2
    <3>3. CASE Cancels(i)
      <4>1. PICK u \in Orders : u = req[i].ref.id /\ req[i].ref = OrderRef(u)
        BY <3>3, CancelsDoes
      <4>2. orders' = [orders EXCEPT ![u].voided = TRUE]
        BY <3>3, <4>1 DEF Cancels
      <4>3. u # o
        BY <1>1, <2>1, <3>3, <4>1 DEF OrderRef, Refs
      <4> QED
        BY <4>2, <4>3, OrderMarked
    <3>4. Arrival(i) \/ PostStep(i) \/ Snapshots(i) \/ ReadsSales(i) \/ ChecksReversed(i)
            \/ PurchaseStep(i) \/ Fault(i) => orders' = orders
      <4>1. Arrival(i) => orders' = orders
        BY ArrivalDoes DEF Arrives, books
      <4>2. PostStep(i) => orders' = orders
        BY DEF PostStep, Weighs, ReadsItem, PlansBatches, ReadsBatch, WritesBatch, InsertsRow,
               StoresBalance, books
      <4>3. Snapshots(i) \/ ReadsSales(i) \/ ChecksReversed(i) => orders' = orders
        BY DEF Snapshots, ReadsSales, ChecksReversed, books
      <4>4. PurchaseStep(i) => orders' = orders
        BY DEF PurchaseStep, BooksPurchase, Shelves, ReadsBought, books
      <4>5. Fault(i) => orders' = orders
        BY DEF Fault, Throws, Evicted, books
      <4> QED
        BY <4>1, <4>2, <4>3, <4>4, <4>5
    <3> QED
      BY <3>1, <3>2, <3>3, <3>4 DEF OrderStep
  <2> QED
    BY <1>1, <2>1, <2>2 DEF Undone
<1>2. CASE ref.kind = "purchases"
  <2>1. PICK p \in DOMAIN purchases : p = ref.id
    BY <1>2 DEF There
  <2>2. purchases'[p] = purchases[p]
    <3>1. CASE BooksPurchase(i)
      BY <3>1, PurchasesStay
    <3>2. CASE Closes(i)
      <4>1. CASE purchases' = purchases
        BY <4>1
      <4>2. CASE purchases' = [purchases EXCEPT ![req[i].ref.id] = TRUE] /\ req[i].op = "unbuy"
        <5>1. req[i].ref \in Refs /\ req[i].ref.kind = "purchases"
          BY <4>2, Kept DEF RefFits
        <5>2. req[i].ref.id # p
          BY <1>2, <2>1, <3>2, <5>1, RefsSame
        <5> QED
          BY <4>2, <5>2
      <4> QED
        BY <3>2, <4>1, <4>2, ClosesDoes
    <3> QED
      BY <3>1, <3>2, PurchasesStay
  <2> QED
    BY <1>2, <2>1, <2>2 DEF Undone
<1> QED
  BY <1>1, <1>2 DEF There

-----------------------------------------------------------------------------
(* What is voided is given back.                                           *)

\* Nothing was inserted for it.
RowsSame(ref) == /\ Forward(ref)' <=> Forward(ref)
                 /\ \A x : Net(ref, x)' = Net(ref, x)

LEMMA RowsSameIs ==
  ASSUME TypeOK, NEW i \in Slots, NEW ref,
         Arrival(i) \/ PostStep(i) \/ OrderStep(i) \/ PurchaseStep(i) \/ Closes(i) \/ Fault(i),
         InsertsRow(i) => req[i].ref # ref
  PROVE  RowsSame(ref) /\ RowsOf(ref)' = RowsOf(ref)
<1>1. CASE ~InsertsRow(i)
  <2>1. moves' = moves
    BY <1>1, RowsStay
  <2>2. RowsOf(ref)' = RowsOf(ref)
    BY <2>1 DEF RowsOf
  <2> QED
    BY <2>1, <2>2 DEF RowsSame, Forward, Net, RowSum
<1>2. CASE InsertsRow(i)
  <2>1. PICK row \in Row : moves' = Append(moves, row) /\ row.ref = req[i].ref
    BY <1>2, RowRefIs
  <2>2. RowsOf(ref)' = RowsOf(ref) /\ \A x : Net(ref, x)' = Net(ref, x) + 0
    BY <1>2, <2>1, NetGrows
  <2>3. \A n \in RowsOf(ref) : moves'[n] = moves[n]
    BY <2>1, MovesGrow DEF RowsOf
  <2> QED
    BY <2>2, <2>3, NetType DEF RowsSame, Forward
<1> QED
  BY <1>1, <1>2

\* What is to be shown after a step.
LEMMA SettlesNew ==
  ASSUME NEW ref
  PROVE  Settles(ref)' <=>
        /\ \A j, k \in Slots : j # k /\ req'[j].ref = ref /\ req'[k].ref = ref => ~Undoes(req'[j])
        /\ \A j \in Slots : req'[j].ref = ref /\ Undoes(req'[j]) =>
             /\ req'[j].pc \in Reading \cup {"already"} => Forward(ref)'
             /\ req'[j].pc \notin Reading => \A x : Net(ref, x)' + SumOf(Rest(req'[j]), x) = 0
        /\ (\A j \in Slots : req'[j].ref = ref => ~Undoes(req'[j])) =>
             /\ Undone(ref)' => (\A x : Net(ref, x)' = 0) /\ \A j \in Slots : req'[j].ref # ref
             /\ ~Undone(ref)' => Forward(ref)'
BY DEF Settles, Undoes, SumOf, Rest

\* A request that leaves it, keeps off it, or goes on with what it owes.
LEMMA SettlesKept ==
  ASSUME TypeOK, NEW i \in Slots, NEW ref, Settles(ref), NEW s \in Request, Goes(i, s),
         RowsSame(ref), Undone(ref)' <=> Undone(ref),
         s.ref = ref => /\ req[i].ref = ref
                        /\ \/ ~Undoes(req[i]) /\ ~Undoes(s)
                           \/ Course(s, req[i]),
         req[i].ref = ref /\ Undoes(req[i]) => s.ref = ref
  PROVE  Settles(ref)'
<1> DEFINE r == req[i]
<1>1. req'[i] = s /\ \A j \in Slots \ {i} : req'[j] = req[j]
  BY GoesOne
<1>2. s.ref = ref => (Undoes(s) <=> Undoes(r))
  BY DEF Course, Alike, Undoes
<1>3. \A j \in Slots : req'[j].ref = ref =>
        /\ req[j].ref = ref
        /\ Undoes(req'[j]) <=> Undoes(req[j])
  BY <1>1, <1>2
<1>4. \A j \in Slots : req'[j].ref = ref /\ Undoes(req'[j]) =>
        \/ req'[j] = req[j]
        \/ Course(req'[j], req[j])
  BY <1>1, <1>2
<1>5. \A j, k \in Slots : j # k /\ req'[j].ref = ref /\ req'[k].ref = ref => ~Undoes(req'[j])
  BY <1>3 DEF Settles
<1>6. ASSUME NEW j \in Slots, req'[j].ref = ref, Undoes(req'[j])
      PROVE  /\ req'[j].pc \in Reading \cup {"already"} => Forward(ref)'
             /\ req'[j].pc \notin Reading => \A x : Net(ref, x)' + SumOf(Rest(req'[j]), x) = 0
  <2>1. req[j].ref = ref /\ Undoes(req[j])
    BY <1>3, <1>6
  <2>2. CASE req'[j] = req[j]
    BY <2>1, <2>2 DEF RowsSame, Settles
  <2>3. CASE Course(req'[j], req[j])
    <3>1. /\ Rest(req'[j]) = Rest(req[j])
          /\ req'[j].pc \notin Reading \cup {"already"} /\ req[j].pc \notin Reading
      BY <2>3 DEF Course, Posting, Reading
    <3> QED
      BY <2>1, <3>1 DEF RowsSame, Settles
  <2> QED
    BY <1>4, <1>6, <2>2, <2>3
<1>7. ASSUME \A j \in Slots : req'[j].ref = ref => ~Undoes(req'[j])
      PROVE  /\ Undone(ref)' => (\A x : Net(ref, x)' = 0) /\ \A j \in Slots : req'[j].ref # ref
             /\ ~Undone(ref)' => Forward(ref)'
  <2>1. \A j \in Slots : req[j].ref = ref => ~Undoes(req[j])
    BY <1>1, <1>3, <1>7
  <2> QED
    BY <1>3, <2>1 DEF RowsSame, Settles
<1> QED
  BY <1>5, <1>6, <1>7, SettlesNew

\* Who undoes it goes on, or leaves.
LEMMA UndoerNext ==
  ASSUME TypeOK, NEW i \in Slots, NEW ref, Settles(ref), NEW s \in Request, Goes(i, s),
         req[i].ref = ref, Undoes(req[i]), s.ref = ref, Undoes(s),
         s.pc \in Reading \cup {"already"} => Forward(ref)',
         s.pc \notin Reading => \A x : Net(ref, x)' + SumOf(Rest(s), x) = 0
  PROVE  Settles(ref)'
<1>1. req'[i] = s /\ \A j \in Slots \ {i} : req'[j] = req[j]
  BY GoesOne
<1>2. \A j \in Slots : req'[j].ref = ref => j = i
  BY <1>1 DEF Settles
<1>3. ~ \A j \in Slots : req'[j].ref = ref => ~Undoes(req'[j])
  BY <1>1
<1> QED
  BY <1>1, <1>2, <1>3, SettlesNew

LEMMA UndoerLeaves ==
  ASSUME TypeOK, NEW i \in Slots, NEW ref, Settles(ref), NEW s \in Request, Goes(i, s),
         req[i].ref = ref, Undoes(req[i]), s.ref # ref,
         Undone(ref)' => \A x : Net(ref, x)' = 0,
         ~Undone(ref)' => Forward(ref)'
  PROVE  Settles(ref)'
<1>1. req'[i] = s /\ \A j \in Slots \ {i} : req'[j] = req[j]
  BY GoesOne
<1>2. \A j \in Slots : req'[j].ref # ref
  BY <1>1 DEF Settles
<1> QED
  BY <1>2, SettlesNew

\* A request comes for it where nobody undoes it, or comes to undo it where nobody is.
LEMMA ArrivalSettles ==
  ASSUME TypeOK, NEW i \in Slots, Arrival(i), NEW ref \in Refs \ troubled', There(ref), Settles(ref)
  PROVE  Settles(ref)'
<1>1. PICK s \in Request :
        /\ Arrives(i, s) /\ Fits(s)
        /\ \/ s.op = "consume" /\ ~orders[s.ref.id].voided
           \/ s.op = "void" /\ s.pc = "cancel" /\ ~orders[s.ref.id].voided
           \/ s.op = "unbuy" /\ s.pc = "bought" /\ ~purchases[s.ref.id]
           \/ s.ref = NoRef /\ s.op \notin {"void", "unbuy"}
  BY ArrivalDoes
<1>2. /\ Goes(i, s) /\ req[i].pc = "free" /\ RefFits(s)
      /\ UNCHANGED <<moves, orders, purchases>>
  BY <1>1 DEF Arrives, At, shelf, books, Fits
<1>3. req[i].ref = NoRef /\ ref # NoRef
  <2>1. req[i].op = "none"
    BY <1>2, Kept DEF PcFits
  <2> QED
    BY <2>1, Kept DEF RefFits, There, NoRef
<1>4. RowsSame(ref) /\ (Undone(ref)' <=> Undone(ref))
  BY <1>2 DEF RowsSame, Forward, Net, RowSum, RowsOf, Undone
<1>5. CASE s.ref # ref
  BY <1>2, <1>3, <1>4, <1>5, SettlesKept
<1>6. CASE s.ref = ref
  <2>1. ~Undone(ref)
    BY <1>1, <1>2, <1>3, <1>6 DEF Undone, RefFits
  <2>2. ~Meets(i, s)
    BY <1>1, <1>6 DEF Arrives
  <2>3. \A j \in Slots \ {i} : req[j].ref = ref => ~Undoes(s) /\ ~Undoes(req[j])
    <3> SUFFICES ASSUME NEW j \in Slots \ {i}, req[j].ref = ref PROVE ~Undoes(s) /\ ~Undoes(req[j])
      OBVIOUS
    <3>1. req[j].op # "none"
      BY <1>3, Kept DEF RefFits
    <3>2. Busy(j)
      BY <3>1, Kept DEF Busy, At, PcFits
    <3> QED
      BY <1>3, <1>6, <2>2, <3>2 DEF Meets
  <2>4. \A j \in Slots : req[j].ref = ref => ~Undoes(req[j])
    BY <1>3, <2>3
  <2>5. Forward(ref) /\ Forward(ref)' /\ ~Undone(ref)'
    BY <1>4, <2>1, <2>4 DEF Settles, RowsSame
  <2>6. req'[i] = s /\ \A j \in Slots \ {i} : req'[j] = req[j]
    BY <1>2, GoesOne
  <2>7. \A j, k \in Slots : j # k /\ req'[j].ref = ref /\ req'[k].ref = ref => ~Undoes(req'[j])
    BY <2>3, <2>6
  <2>8. \A j \in Slots : req'[j].ref = ref /\ Undoes(req'[j]) => j = i /\ Undoes(s)
    BY <2>3, <2>6
  <2>9. Undoes(s) => s.pc \in Reading
    BY <1>1, <1>3, <1>6 DEF Undoes, Reading
  <2> QED
    BY <2>5, <2>6, <2>7, <2>8, <2>9, SettlesNew
<1> QED
  BY <1>5, <1>6

\* A row is inserted by who undoes it, who owes as much less, or by who does it.
LEMMA InsertsRowSettles ==
  ASSUME TypeOK, Known, NEW i \in Slots, InsertsRow(i), NEW ref \in Refs, There(ref), Settles(ref)
  PROVE  Settles(ref)'
<1> DEFINE r == req[i]
<1>1. PICK s \in Request : /\ Goes(i, s) /\ Alike(s, r) /\ s.pc = "set" /\ s.todo = r.todo
                           /\ r.pc = "insert" /\ r.todo # <<>>
  BY InsertsRowDoes DEF Becomes
<1>2. PICK row \in Row :
        /\ moves' = Append(moves, row)
        /\ row.item = Posted(i).item /\ row.qty = Posted(i).qty /\ row.type = Posted(i).type
        /\ row.ref = r.ref /\ MoveFits(r, Posted(i))
  BY RowRefIs
<1>3. ref # NoRef /\ PostStep(i)
  BY DEF There, NoRef, PostStep
<1>4. Undone(ref)' <=> Undone(ref)
  BY DEF InsertsRow, books, Undone
<1>5. s.ref = r.ref /\ s.op = r.op
  BY <1>1 DEF Alike
<1>6. CASE r.ref # ref
  <2>1. RowsSame(ref)
    BY <1>3, <1>6, RowsSameIs
  <2> QED
    BY <1>1, <1>4, <1>5, <1>6, <2>1, SettlesKept
<1>7. CASE r.ref = ref /\ Undoes(r)
  <2>1. ASSUME NEW x PROVE Net(ref, x)' + SumOf(Rest(s), x) = 0
    <3>1. Net(ref, x) + SumOf(r.todo, x) = 0
      BY <1>1, <1>7 DEF Settles, Reading, Rest
    <3>2. r.todo \in Seq(Move) /\ Posted(i) = r.todo[1] /\ Tail(r.todo) \in Seq(Move) /\ Posted(i) \in Move
      BY <1>1, Kept, PostedIs
    <3>3. PICK d \in Int : d = (IF row.item = x THEN row.qty ELSE 0)
      BY DEF Row
    <3>4. SumOf(r.todo, x) = d + SumOf(Tail(r.todo), x)
      <4>1. d = (IF r.todo[1].item = x THEN r.todo[1].qty ELSE 0)
        BY <1>2, <3>2, <3>3
      <4> QED
        BY <1>1, <3>2, <4>1, SumOfHead
    <3>5. Net(ref, x)' = Net(ref, x) + d
      <4>1. \A y : Net(ref, y)' = Net(ref, y) + (IF row.ref = ref /\ row.item = y THEN row.qty ELSE 0)
        BY <1>2, NetGrows, Zenon
      <4> QED
        BY <1>2, <1>7, <3>3, <4>1
    <3>6. Rest(s) = Tail(r.todo)
      BY <1>1 DEF Rest
    <3>7. PICK a, b \in Int : a = Net(ref, x) /\ b = SumOf(Tail(r.todo), x)
      BY <3>2, NetType, SumOfType
    <3> QED
      BY <3>1, <3>3, <3>4, <3>5, <3>6, <3>7
  <2>2. Undoes(s) /\ s.pc \notin Reading \cup {"already"}
    BY <1>1, <1>5, <1>7 DEF Undoes, Reading
  <2> QED
    BY <1>1, <1>5, <1>7, <2>1, <2>2, UndoerNext
<1>8. CASE r.ref = ref /\ ~Undoes(r)
  <2>1. \A j \in Slots : req[j].ref = ref => ~Undoes(req[j])
    BY <1>8 DEF Settles
  <2>2. ~Undone(ref) /\ Forward(ref)
    BY <1>8, <2>1 DEF Settles
  <2>3. row.type # "void_reversal"
    BY <1>1, <1>2, <1>3, <1>8, OpsServed, Kept DEF MoveFits, Undoes, AllOps
  <2>4. Forward(ref)'
    <3>1. RowsOf(ref)' = RowsOf(ref) \cup {Len(moves) + 1}
      BY <1>2, <1>8, NetGrows
    <3>2. moves'[Len(moves) + 1] = row /\ \A n \in RowsOf(ref) : moves'[n] = moves[n]
      BY <1>2, MovesGrow DEF RowsOf
    <3> QED
      BY <2>2, <2>3, <3>1, <3>2 DEF Forward
  <2>5. req'[i] = s /\ \A j \in Slots \ {i} : req'[j] = req[j]
    BY <1>1, GoesOne
  <2>6. \A j \in Slots : req'[j].ref = ref => ~Undoes(req'[j])
    BY <1>5, <1>8, <2>1, <2>5 DEF Undoes
  <2> QED
    BY <1>4, <2>2, <2>4, <2>6, SettlesNew
<1> QED
  BY <1>6, <1>7, <1>8

\* The steps of who undoes it, up to the rows it will post.
LEMMA UndoSettles ==
  ASSUME TypeOK, Known, VoidsWritten, Referred, NEW i \in Slots,
         Cancels(i) \/ ReadsSales(i) \/ ChecksReversed(i) \/ ReadsBought(i) \/ Closes(i),
         NEW ref \in Refs, There(ref), Settles(ref), req[i].ref = ref
  PROVE  Settles(ref)'
<1> DEFINE r == req[i]
<1>0. /\ r \in Request /\ RefFits(r) /\ ref # NoRef
  BY Kept DEF There, NoRef
<1>1. RowsSame(ref) /\ ~InsertsRow(i)
  <2>1. ~InsertsRow(i)
    BY DEF Cancels, ReadsSales, ChecksReversed, ReadsBought, Closes, InsertsRow, At
  <2> QED
    BY <2>1, RowsSameIs DEF OrderStep, PurchaseStep
<1>2. Undoes(r)
  BY CancelsDoes, ReadsSalesDoes, ChecksReversedDoes, ReadsBoughtDoes, ClosesDoes DEF Undoes
<1>4. FreeSlot \in Request /\ FreeSlot.ref # ref
  BY <1>0, FreeIs
<1>5. ASSUME NEW s \in Request, NEW sheet, NEW todo, NEW cur, Resumes(i, s, sheet, todo, cur)
      PROVE  /\ s.ref = ref /\ Undoes(s) /\ Rest(s) = todo
             /\ s.pc \notin Reading \cup {"already"}
  <2>1. PICK t \in Request : Alike(t, r) /\ t.todo = todo /\ Onward(s, t)
    BY <1>5 DEF Resumes, Becomes
  <2>2. t.op \in {"void", "unbuy"}
    BY <1>2, <2>1 DEF Alike, Undoes
  <2>3. Alike(s, t) /\ s.todo = t.todo /\ s.pc \in {"post", "weigh", "snapshot", "shelve", "close"}
    BY <2>1, <2>2 DEF Onward, Becomes
  <2> QED
    BY <1>2, <2>1, <2>3 DEF Alike, Undoes, Rest, Reading
<1>6. CASE Cancels(i)
  <2>1. PICK s \in Request : Goes(i, s) /\ Alike(s, r) /\ s.pc = "sales" /\ r.pc = "cancel"
    BY <1>6, CancelsDoes DEF Becomes
  <2>2. Forward(ref)'
    BY <1>1, <1>2, <2>1 DEF Settles, Reading, RowsSame
  <2> QED
    BY <1>2, <2>1, <2>2, UndoerNext DEF Alike, Undoes, Reading
<1>7. CASE ReadsSales(i)
  <2>1. r.pc = "sales" /\ r.op = "void" /\ ref.kind = "orders"
    BY <1>0, <1>7, ReadsSalesDoes DEF RefFits
  <2>2. Forward(ref)
    BY <1>2, <2>1 DEF Settles, Reading
  <2>3. RowsFor(ref, "sale") = RowsOf(ref)
    BY <2>1, <2>2 DEF RowsFor, RowsOf, Forward, Referred
  <2>4. \A x : Net(ref, x) + SumOf(Reversals(Rows(ref, "sale")), x) = 0
    BY <2>3, NetTurned
  <2>5. CASE Answers(i) /\ Rows(ref, "sale") = <<>>
    <3>1. Reversals(<<>>) = <<>>
      BY DEF Reversals
    <3>2. \A x : Net(ref, x) = 0
      BY <2>4, <2>5, <3>1, SumOfNone, NetType
    <3>3. Undone(ref)'
      <4>1. orders[ref.id].voided /\ orders' = orders
        BY <1>7, <2>1 DEF VoidsWritten, ReadsSales, books
      <4> QED
        BY <2>1, <4>1 DEF Undone
    <3> QED
      BY <1>1, <1>2, <1>4, <2>5, <3>2, <3>3, UndoerLeaves DEF Answers, RowsSame
  <2>6. ASSUME NEW s \in Request, Goes(i, s), Alike(s, r), s.pc = "already",
               s.todo = Reversals(Rows(ref, "sale"))
        PROVE  Settles(ref)'
    <3>1. Rest(s) = Reversals(Rows(ref, "sale"))
      BY <2>6 DEF Rest
    <3>2. \A x : Net(ref, x)' + SumOf(Rest(s), x) = 0
      BY <1>1, <2>4, <3>1 DEF RowsSame
    <3>3. Forward(ref)' /\ Undoes(s) /\ s.ref = ref
      BY <1>1, <1>2, <2>2, <2>6 DEF RowsSame, Alike, Undoes
    <3> QED
      BY <1>2, <2>6, <3>2, <3>3, UndoerNext
  <2> QED
    BY <1>7, <2>5, <2>6, ReadsSalesDoes DEF Becomes
<1>8. CASE ChecksReversed(i)
  <2>1. r.pc = "already"
    BY <1>8, ChecksReversedDoes
  <2>2. Forward(ref) /\ \A x : Net(ref, x) + SumOf(Rest(r), x) = 0
    BY <1>2, <2>1 DEF Settles, Reading
  <2>3. RowsFor(ref, "void_reversal") = {}
    BY <2>2 DEF RowsFor, Forward
  <2>4. Rows(ref, "void_reversal") = <<>>
    <3>1. Cardinality(RowsFor(ref, "void_reversal")) = 0
      BY <2>3, FS_EmptySet
    <3>2. Rows(ref, "void_reversal") \in Seq(Row) /\ DOMAIN Rows(ref, "void_reversal") = 1 .. 0
      BY <3>1, RowsAre
    <3> QED
      BY <3>2
  <2>5. PICK s \in Request : Goes(i, s) /\ Resumes(i, s, r.sheet, r.todo, r.cur)
    BY <1>8, <2>4, ChecksReversedDoes
  <2>6. s.ref = ref /\ Undoes(s) /\ Rest(s) = Rest(r) /\ s.pc \notin Reading \cup {"already"}
    BY <1>5, <2>1, <2>5 DEF Rest
  <2>7. \A x : Net(ref, x)' + SumOf(Rest(s), x) = 0
    BY <1>1, <2>2, <2>6 DEF RowsSame
  <2> QED
    BY <1>2, <2>5, <2>6, <2>7, UndoerNext
<1>9. CASE ReadsBought(i)
  <2>1. r.pc = "bought" /\ r.op = "unbuy" /\ ref.kind = "purchases"
    BY <1>0, <1>9, ReadsBoughtDoes DEF RefFits
  <2>2. Forward(ref)
    BY <1>2, <2>1 DEF Settles, Reading
  <2>3. RowsFor(ref, "purchase") = RowsOf(ref)
    BY <2>1, <2>2 DEF RowsFor, RowsOf, Forward, Referred
  <2>4. \A x : Net(ref, x) + SumOf(Reversals(Rows(ref, "purchase")), x) = 0
    BY <2>3, NetTurned
  <2>5. PICK s \in Request : Goes(i, s) /\ Resumes(i, s, r.sheet, Reversals(Rows(ref, "purchase")), r.cur)
    BY <1>9, ReadsBoughtDoes
  <2>6. /\ s.ref = ref /\ Undoes(s) /\ Rest(s) = Reversals(Rows(ref, "purchase"))
        /\ s.pc \notin Reading \cup {"already"}
    BY <1>5, <2>5
  <2>7. \A x : Net(ref, x)' + SumOf(Rest(s), x) = 0
    BY <1>1, <2>4, <2>6 DEF RowsSame
  <2> QED
    BY <1>2, <2>5, <2>6, <2>7, UndoerNext
<1>10. CASE Closes(i)
  <2>1. r.pc = "close" /\ r.todo = <<>> /\ Goes(i, FreeSlot)
    BY <1>10, ClosesDoes DEF Answers
  <2>2. \A x : Net(ref, x) = 0
    <3>1. \A x : Net(ref, x) + SumOf(<<>>, x) = 0
      BY <1>2, <2>1 DEF Settles, Reading, Rest
    <3> QED
      BY <3>1, SumOfNone, NetType
  <2>3. Undone(ref)'
    <3>1. CASE r.op = "void"
      <4>1. ref.kind = "orders" /\ ref.id \in Orders /\ orders[ref.id].voided
        BY <1>0, <2>1, <3>1 DEF RefFits, VoidsWritten
      <4>2. orders'[ref.id].voided
        BY <1>10, <4>1, VoidedStays
      <4> QED
        BY <4>1, <4>2 DEF Undone
    <3>2. CASE r.op = "unbuy"
      <4>1. ref.kind = "purchases" /\ ref.id \in DOMAIN purchases
        BY <1>0, <3>2 DEF RefFits, There
      <4>2. purchases' = [purchases EXCEPT ![ref.id] = TRUE]
        BY <1>10, <3>2, ClosesDoes
      <4> QED
        BY <4>1, <4>2 DEF Undone
    <3> QED
      BY <1>2, <3>1, <3>2 DEF Undoes
  <2> QED
    BY <1>1, <1>2, <1>4, <2>1, <2>2, <2>3, UndoerLeaves DEF RowsSame
<1> QED
  BY <1>6, <1>7, <1>8, <1>9, <1>10

LEMMA SettlesNext ==
  ASSUME TypeOK, Known, VoidsWritten, Referred, NEW i \in Slots,
         Arrival(i) \/ PostStep(i) \/ OrderStep(i) \/ PurchaseStep(i) \/ Closes(i) \/ Fault(i),
         NEW ref \in Refs \ troubled', There(ref), Settles(ref)
  PROVE  Settles(ref)'
<1> DEFINE r == req[i]
<1>0. r \in Request /\ RefFits(r) /\ PcFits(r) /\ ref # NoRef /\ FreeSlot.ref = NoRef
  BY Kept, FreeIs DEF There, NoRef
<1>1. CASE Arrival(i)
  BY <1>1, ArrivalSettles
<1>2. CASE InsertsRow(i)
  BY <1>2, InsertsRowSettles
<1>3. CASE PostStep(i) /\ ~InsertsRow(i)
  <2>1. PICK s \in Request : Goes(i, s) /\ Carried(s, r)
    BY <1>3, PostStepIs
  <2>2. RowsSame(ref)
    BY <1>3, RowsSameIs
  <2>3. Undone(ref)' <=> Undone(ref)
    BY <1>3 DEF PostStep, Weighs, ReadsItem, PlansBatches, ReadsBatch, WritesBatch, InsertsRow,
                StoresBalance, books, Undone
  <2>4. r.ref = ref => Course(s, r)
    BY <1>0, <2>1 DEF Carried
  <2> QED
    BY <2>1, <2>2, <2>3, <2>4, SettlesKept DEF Carried
<1>4. CASE Cancels(i) \/ ReadsSales(i) \/ ChecksReversed(i) \/ ReadsBought(i) \/ Closes(i)
  <2>1. CASE r.ref = ref
    BY <1>4, <2>1, UndoSettles
  <2>2. CASE r.ref # ref
    <3>1. ~Arrival(i) /\ ~BooksPurchase(i)
      <4>1. r.pc \in {"cancel", "sales", "already", "bought", "close"}
        BY <1>4 DEF Cancels, ReadsSales, ChecksReversed, ReadsBought, Closes, At
      <4>2. Arrival(i) => r.pc = "free"
        BY ArrivalDoes DEF Arrives, At
      <4>3. BooksPurchase(i) => r.pc = "bill"
        BY DEF BooksPurchase, At
      <4> QED
        BY <4>1, <4>2, <4>3
    <3>2. PICK s \in Request : Goes(i, s) /\ s.ref \in {r.ref, NoRef}
      BY <1>4, <3>1, RefGoes DEF OrderStep, PurchaseStep
    <3>3. RowsSame(ref)
      BY <2>2, RowsSameIs
    <3>4. Undone(ref)' <=> Undone(ref)
      BY <2>2, UndoneSame
    <3> QED
      BY <1>0, <2>2, <3>2, <3>3, <3>4, SettlesKept
  <2> QED
    BY <2>1, <2>2
<1>5. CASE Claims(i) \/ Snapshots(i) \/ Reopens(i) \/ Shelves(i)
  <2>1. r.pc \in {"claim", "snapshot", "reopen", "shelve"}
    BY <1>5 DEF Claims, Snapshots, Reopens, Shelves, At
  <2>2. ~Arrival(i) /\ ~BooksPurchase(i) /\ ~InsertsRow(i) /\ ~Cancels(i) /\ ~Closes(i)
    <3>1. Arrival(i) => r.pc = "free"
      BY ArrivalDoes DEF Arrives, At
    <3> QED
      BY <2>1, <3>1 DEF BooksPurchase, InsertsRow, Cancels, Closes, At
  <2>3. PICK s \in Request : Goes(i, s) /\ s.ref \in {r.ref, NoRef} /\ s.op \in {r.op, "none"}
    BY <1>5, <2>2, RefGoes DEF OrderStep, PurchaseStep
  <2>4. ~Undoes(r) /\ ~Undoes(s)
    BY <1>0, <2>1, <2>3 DEF PcFits, Undoes
  <2>5. RowsSame(ref) /\ (Undone(ref)' <=> Undone(ref))
    BY <2>2, RowsSameIs, UndoneSame
  <2> QED
    BY <1>0, <2>3, <2>4, <2>5, SettlesKept
<1>6. CASE BooksPurchase(i)
  <2>1. PICK s \in Request : Goes(i, s) /\ s.op = "purchase" /\ s.ref = PurchaseRef(Len(purchases) + 1)
    BY <1>6, BooksPurchaseDoes
  <2>2. r.pc = "bill" /\ r.op = "purchase"
    BY <1>6, BooksPurchaseDoes
  <2>3. ~Undoes(r) /\ ~Undoes(s)
    BY <2>1, <2>2 DEF Undoes
  <2>4. s.ref # ref
    BY <1>6, <2>1, PurchaseRefIs, PurchasesStay DEF There
  <2>5. ~InsertsRow(i) /\ ~Cancels(i) /\ ~Closes(i)
    BY <2>2 DEF InsertsRow, Cancels, Closes, At
  <2>6. RowsSame(ref) /\ (Undone(ref)' <=> Undone(ref))
    BY <2>5, RowsSameIs, UndoneSame
  <2> QED
    BY <2>1, <2>3, <2>4, <2>6, SettlesKept
<1>7. CASE Fault(i)
  <2>1. troubled' = IF r.ref = NoRef THEN troubled ELSE troubled \cup {r.ref}
    BY <1>7 DEF Fault, Throws, Evicted, Marks
  <2>2. r.ref # ref
    BY <1>0, <2>1
  <2>3. PICK s \in Request : Goes(i, s) /\ s.ref \in {r.ref, NoRef}
    <3>1. CASE Evicted(i)
      BY <3>1, FreeIs DEF Evicted, Answers
    <3>2. CASE Throws(i)
      BY <3>2, FreeIs, ThrowsDoes DEF Answers, Alike
    <3> QED
      BY <1>7, <3>1, <3>2 DEF Fault
  <2>4. RowsSame(ref)
    BY <2>2, RowsSameIs
  <2>5. Undone(ref)' <=> Undone(ref)
    BY <1>7 DEF Fault, Throws, Evicted, books, Undone
  <2> QED
    BY <1>0, <2>2, <2>3, <2>4, <2>5, SettlesKept
<1> QED
  BY <1>1, <1>2, <1>3, <1>4, <1>5, <1>6, <1>7 DEF OrderStep, PurchaseStep

\* A purchase that is booked has nothing posted for it, and nobody undoes it.
LEMMA BookedSettles ==
  ASSUME TypeOK, Known, Referred, NEW i \in Slots, BooksPurchase(i),
         NEW ref \in Refs, ref = PurchaseRef(Len(purchases) + 1)
  PROVE  Settles(ref)'
<1>1. ref.kind = "purchases" /\ ref.id = Len(purchases) + 1 /\ ref.id \notin DOMAIN purchases
  BY PurchaseRefIs, PurchasesStay
<1>2. ~RefKnown(ref)
  BY <1>1 DEF RefKnown
<1>3. RowsOf(ref) = {} /\ \A j \in Slots : req[j].ref # ref
  BY <1>2 DEF Referred, RowsOf
<1>4. RowsOf(ref)' = {}
  <2>1. ~InsertsRow(i)
    BY DEF BooksPurchase, InsertsRow, At
  <2> QED
    BY <1>3, <2>1, RowsSameIs DEF PurchaseStep
<1>5. PICK s \in Request : Goes(i, s) /\ s.op = "purchase"
  BY BooksPurchaseDoes
<1>6. req'[i] = s /\ \A j \in Slots \ {i} : req'[j] = req[j]
  BY <1>5, GoesOne
<1>7. ~Undone(ref)'
  BY <1>1, PurchasesStay DEF PurchaseStep, Undone
<1>8. Forward(ref)'
  BY <1>4 DEF Forward
<1>9. \A j \in Slots : req'[j].ref = ref => j = i /\ ~Undoes(req'[j])
  BY <1>3, <1>5, <1>6 DEF Undoes
<1> QED
  BY <1>7, <1>8, <1>9, SettlesNew

LEMMA SettlingInit == Init => Settling
<1> SUFFICES ASSUME Init PROVE Settling
  OBVIOUS
<1>1. \A i \in Slots : req[i].ref = NoRef /\ ~Undoes(req[i])
  BY FreeIs DEF Init, Undoes
<1>2. DOMAIN moves = {}
  BY DEF Init
<1>3. Referred
  BY <1>1, <1>2 DEF Referred, RefKnown, NoRef
<1>4. ASSUME NEW ref \in Refs, There(ref) PROVE Settles(ref)
  <2>1. ~Undone(ref)
    BY <1>4 DEF Init, There, Undone
  <2>2. Forward(ref)
    BY <1>2 DEF Forward, RowsOf
  <2> QED
    BY <1>1, <2>1, <2>2 DEF Settles
<1> QED
  BY <1>3, <1>4 DEF Settling

LEMMA SettlingNext ==
  TypeOK /\ Known /\ VoidsWritten /\ Settling /\ [Next]_vars => VoidsWritten' /\ Settling'
<1> SUFFICES ASSUME TypeOK, Known, VoidsWritten, Settling, [Next]_vars
             PROVE  VoidsWritten' /\ Settling'
  OBVIOUS
<1>1. CASE UNCHANGED vars
  <2>1. UNCHANGED <<moves, orders, purchases, req, troubled>>
    BY <1>1 DEF vars, shelf, books
  <2>2. VoidsWritten' /\ Referred'
    BY <2>1 DEF VoidsWritten, Settling, Referred, RefKnown
  <2>3. ASSUME NEW ref \in Refs \ troubled', There(ref)' PROVE Settles(ref)'
    <3>1. There(ref) /\ ref \notin troubled
      BY <2>1, <2>3 DEF There
    <3>2. Settles(ref)
      BY <3>1 DEF Settling
    <3>3. /\ Forward(ref)' <=> Forward(ref)
          /\ Undone(ref)' <=> Undone(ref)
          /\ \A x : Net(ref, x)' = Net(ref, x)
      BY <2>1 DEF Forward, Undone, Net, RowSum, RowsOf
    <3> QED
      BY <2>1, <3>2, <3>3, SettlesNew DEF Settles
  <2> QED
    BY <2>2, <2>3 DEF Settling
<1>2. CASE Next
  <2>1. PICK i \in Slots :
          Arrival(i) \/ PostStep(i) \/ OrderStep(i) \/ PurchaseStep(i) \/ Closes(i) \/ Fault(i)
    BY <1>2 DEF Next
  <2>2. VoidsWritten'
    BY <2>1, VoidsWrittenNext
  <2>3. Referred'
    BY <2>1, ReferredNext DEF Settling
  <2>4. troubled \subseteq troubled'
    <3>1. Arrival(i) => troubled \subseteq troubled'
      BY ArrivalDoes DEF Arrives
    <3>2. PostStep(i) => troubled' = troubled
      BY DEF PostStep, Weighs, ReadsItem, PlansBatches, ReadsBatch, WritesBatch, InsertsRow,
             StoresBalance
    <3>3. OrderStep(i) => troubled' = troubled
      BY DEF OrderStep, Claims, Snapshots, Reopens, Cancels, ReadsSales, ChecksReversed
    <3>4. PurchaseStep(i) \/ Closes(i) => troubled' = troubled
      BY DEF PurchaseStep, BooksPurchase, Shelves, ReadsBought, Closes
    <3>5. Fault(i) => troubled \subseteq troubled'
      BY DEF Fault, Throws, Evicted, Marks
    <3> QED
      BY <2>1, <3>1, <3>2, <3>3, <3>4, <3>5
  <2>5. ASSUME NEW ref \in Refs \ troubled', There(ref)' PROVE Settles(ref)'
    <3>1. CASE There(ref)
      BY <2>1, <2>4, <2>5, <3>1, SettlesNext DEF Settling
    <3>2. CASE ~There(ref)
      <4>1. ref.kind = "purchases" /\ ref.id \in DOMAIN purchases' /\ ref.id \notin DOMAIN purchases
        BY <2>5, <3>2 DEF There
      <4>2. BooksPurchase(i) /\ ref.id = Len(purchases) + 1
        <5>1. BooksPurchase(i)
          BY <2>1, <4>1, PurchasesStay
        <5>2. DOMAIN purchases' = DOMAIN purchases \cup {Len(purchases) + 1}
          BY <2>1, <5>1, PurchasesStay
        <5> QED
          BY <4>1, <5>1, <5>2
      <4>3. ref = PurchaseRef(Len(purchases) + 1)
        BY <4>1, <4>2, PurchaseRefIs, RefsSame
      <4> QED
        BY <4>2, <4>3, BookedSettles DEF Settling
    <3> QED
      BY <3>1, <3>2
  <2> QED
    BY <2>2, <2>3, <2>5 DEF Settling
<1> QED
  BY <1>1, <1>2

\* What a voided order took and what a voided purchase brought is undone by its own
\* movements, to the last unit of every item: reverseOrderConsumption and voidPurchase post
\* the reversal of every row they read, and nobody posts another one after they read.
THEOREM VoidsGiveBack == Spec => []VoidedIsGivenBack
<1>1. Init => TypeOK /\ Known /\ VoidsWritten /\ Settling
  <2>1. Init => VoidsWritten
    BY FreeIs DEF Init, VoidsWritten
  <2> QED
    BY <2>1, TypeInit, SettlingInit
<1>2. TypeOK /\ Known /\ VoidsWritten /\ Settling /\ [Next]_vars
        => (TypeOK /\ Known /\ VoidsWritten /\ Settling)'
  BY TypeNext, SettlingNext
<1>3. TypeOK /\ Settling => VoidedIsGivenBack
  <2> SUFFICES ASSUME TypeOK, Settling, NEW ref, Sound(ref),
                      \/ \E o \in Orders : orders[o].voided /\ ref = OrderRef(o)
                      \/ \E p \in DOMAIN purchases : purchases[p] /\ ref = PurchaseRef(p)
               PROVE  \A x \in Items : Net(ref, x) = 0
    BY DEF VoidedIsGivenBack, Net
  <2>1. ref \in Refs /\ There(ref) /\ Undone(ref)
    <3>1. Orders \subseteq Nat /\ DOMAIN purchases \subseteq Nat
      BY OrdersAssumption DEF TypeOK
    <3> QED
      BY <3>1 DEF OrderRef, PurchaseRef, Refs, There, Undone
  <2>2. Settles(ref)
    BY <2>1 DEF Settling, Sound
  <2>3. \A i \in Slots : req[i].ref # ref
    BY DEF Sound, AtRest
  <2> QED
    BY <2>1, <2>2, <2>3 DEF Settles
<1> QED
  BY <1>1, <1>2, <1>3, PTL DEF Spec

-----------------------------------------------------------------------------
(* An order is taken from the shelf once.                                  *)

\* A request past its claim on the order.
Active(r) == r.op = "consume" /\ r.pc # "claim"

\* The first d lines of the recipe are sold, once each, and nothing else was posted.
Sold(o, d) == \E g :
  /\ g \in Bijection(1 .. d, RowsOf(OrderRef(o)))
  /\ \A k \in 1 .. d : /\ moves[g[k]].item = Recipe[o][k].item
                     /\ moves[g[k]].qty = -Recipe[o][k].qty

\* What the request has still to post is the recipe from there on.
Selling(o, r, d) ==
  /\ d + Len(Rest(r)) = Len(Recipe[o])
  /\ \A k \in 1 .. Len(Rest(r)) : Rest(r)[k] = SalesOf(o)[d + k]

Serves(o, i) == req[i].ref = OrderRef(o) /\ Active(req[i])

\* One request at most is past its claim, on an order that is marked, and has sold what it
\* does not owe any more; without one all is sold, or nothing.
Consuming(o) ==
  /\ ~orders[o].consumed => RowsOf(OrderRef(o)) = {} /\ \A i \in Slots : ~Serves(o, i)
  /\ \A i, j \in Slots : Serves(o, i) /\ Serves(o, j) => i = j
  /\ \A i \in Slots : Serves(o, i) => \E d \in Nat : Selling(o, req[i], d) /\ Sold(o, d)
  /\ orders[o].consumed /\ (\A i \in Slots : ~Serves(o, i)) => Sold(o, Len(Recipe[o]))

\* A claim is only released on an order that is known to be in trouble.
Consumed ==
  /\ \A i \in Slots : req[i].pc = "reopen" => req[i].ref \in troubled
  /\ \A o \in Orders : OrderRef(o) \notin troubled /\ ~orders[o].voided => Consuming(o)

LEMMA SoldNone ==
  /\ \E g : g \in Bijection(1 .. 0, {})
  /\ 1 .. 0 = {}
<1> DEFINE g == [k \in 1 .. 0 |-> 0]
<1>1. 1 .. 0 = {}
  OBVIOUS
<1>2. g \in Bijection(1 .. 0, {})
  BY <1>1 DEF Bijection, Injection, Surjection, IsInjective
<1> QED
  BY <1>1, <1>2

\* One more line is sold.
LEMMA SoldNext ==
  ASSUME TypeOK, NEW o \in Orders, NEW d \in Nat, Sold(o, d), d + 1 \in DOMAIN Recipe[o],
         NEW row \in Row, moves' = Append(moves, row), row.ref = OrderRef(o),
         row.item = Recipe[o][d + 1].item, row.qty = -Recipe[o][d + 1].qty
  PROVE  Sold(o, d + 1)'
<1> DEFINE R == RowsOf(OrderRef(o))
           m == Len(moves) + 1
<1>1. PICK g : /\ g \in Bijection(1 .. d, R)
               /\ \A k \in 1 .. d : /\ moves[g[k]].item = Recipe[o][k].item
                                  /\ moves[g[k]].qty = -Recipe[o][k].qty
  BY DEF Sold
<1>2. /\ RowsOf(OrderRef(o))' = R \cup {m} /\ m \notin R
      /\ moves'[m] = row /\ \A n \in R : moves'[n] = moves[n]
  BY NetGrows, MovesGrow DEF RowsOf
<1>3. /\ g \in [1 .. d -> R]
      /\ \A a, b \in 1 .. d : g[a] = g[b] => a = b
      /\ \A n \in R : \E k \in 1 .. d : g[k] = n
  BY <1>1 DEF Bijection, Injection, Surjection, IsInjective
<1> DEFINE h == [k \in 1 .. (d + 1) |-> IF k = d + 1 THEN m ELSE g[k]]
<1>4. \A k \in 1 .. (d + 1) : k = d + 1 \/ k \in 1 .. d
  OBVIOUS
<1>5. d + 1 \in 1 .. (d + 1) /\ d + 1 \notin 1 .. d /\ 1 .. d \subseteq 1 .. (d + 1)
  OBVIOUS
<1>6. h[d + 1] = m /\ \A k \in 1 .. d : h[k] = g[k] /\ h[k] \in R
  BY <1>3, <1>5
<1>7. h \in [1 .. (d + 1) -> R \cup {m}]
  BY <1>3, <1>4
<1> HIDE DEF h, m, R
<1>8. \A a, b \in 1 .. (d + 1) : h[a] = h[b] => a = b
  <2> SUFFICES ASSUME NEW a \in 1 .. (d + 1), NEW b \in 1 .. (d + 1), h[a] = h[b] PROVE a = b
    OBVIOUS
  <2>1. CASE a \in 1 .. d /\ b \in 1 .. d
    BY <1>3, <1>6, <2>1
  <2>2. CASE a \in 1 .. d /\ b = d + 1
    BY <1>2, <1>6, <2>2
  <2>3. CASE a = d + 1 /\ b \in 1 .. d
    BY <1>2, <1>6, <2>3
  <2> QED
    BY <1>4, <2>1, <2>2, <2>3
<1>9. \A n \in R \cup {m} : \E k \in 1 .. (d + 1) : h[k] = n
  <2> SUFFICES ASSUME NEW n \in R \cup {m} PROVE \E k \in 1 .. (d + 1) : h[k] = n
    OBVIOUS
  <2>1. CASE n = m
    BY <1>5, <1>6, <2>1
  <2>2. CASE n \in R
    <3>1. PICK k \in 1 .. d : g[k] = n
      BY <1>3, <2>2
    <3> QED
      BY <1>5, <1>6, <3>1
  <2> QED
    BY <2>1, <2>2
<1>10. h \in Bijection(1 .. (d + 1), R \cup {m})
  BY <1>7, <1>8, <1>9, Zenon DEF Bijection, Injection, Surjection, IsInjective
<1>11. ASSUME NEW k \in 1 .. (d + 1)
       PROVE  moves'[h[k]].item = Recipe[o][k].item /\ moves'[h[k]].qty = -Recipe[o][k].qty
  <2>1. CASE k = d + 1
    BY <1>2, <1>6, <2>1
  <2>2. CASE k \in 1 .. d
    <3>1. h[k] = g[k] /\ h[k] \in R
      BY <1>6, <2>2
    <3>2. moves'[h[k]] = moves[g[k]]
      BY <1>2, <3>1
    <3> QED
      BY <1>1, <2>2, <3>2
  <2> QED
    BY <1>4, <2>1, <2>2
<1> QED
  BY <1>2, <1>10, <1>11 DEF Sold

\* A claim is released where consumeForOrder failed.
LEMMA ReopenFrom ==
  ASSUME TypeOK, Known, NEW i \in Slots,
         Arrival(i) \/ PostStep(i) \/ OrderStep(i) \/ PurchaseStep(i) \/ Closes(i) \/ Fault(i)
  PROVE  /\ \E s : Goes(i, s) /\ (s.pc # "reopen" \/ s.ref \in troubled')
         /\ troubled \subseteq troubled'
<1> DEFINE r == req[i]
           Fine(s) == s.pc # "reopen" \/ s.ref \in troubled'
<1>1. Fine(FreeSlot)
  BY FreeIs DEF Becomes
<1>2. ASSUME NEW s \in Request, NEW sheet, NEW todo, NEW cur, Resumes(i, s, sheet, todo, cur)
      PROVE  Fine(s)
  BY <1>1, <1>2 DEF Resumes, Onward
<1>3. ASSUME NEW s, s.pc \in {"batch", "share", "write", "insert", "set", "sales", "already",
                              "post", "claim", "cancel", "bought", "weigh", "bill"}
      PROVE  Fine(s)
  BY <1>3
<1>4. Answers(i) => \E s : Goes(i, s) /\ Fine(s)
  BY <1>1 DEF Answers
<1> SUFFICES (\E s : Goes(i, s) /\ Fine(s)) /\ troubled \subseteq troubled'
  OBVIOUS
<1>5. Fault(i) => troubled' = IF r.ref = NoRef THEN troubled ELSE troubled \cup {r.ref}
  BY DEF Fault, Throws, Evicted, Marks
<1> HIDE DEF Fine
<1>6. CASE Arrival(i)
  <2>1. PICK s \in Request : Arrives(i, s) /\ s.pc \in {"claim", "cancel", "bought", "post", "weigh", "bill"}
    BY <1>6, ArrivalDoes
  <2> QED
    BY <1>3, <2>1 DEF Arrives
<1>7. CASE PostStep(i)
  <2>1. troubled' = troubled
    BY <1>7 DEF PostStep, Weighs, ReadsItem, PlansBatches, ReadsBatch, WritesBatch, InsertsRow,
                StoresBalance
  <2>2. \E s : Goes(i, s) /\ Fine(s)
    <3>1. CASE Weighs(i)
      BY <1>2, <3>1, WeighsDoes
    <3>2. CASE ReadsItem(i) \/ PlansBatches(i) \/ ReadsBatch(i) \/ WritesBatch(i) \/ InsertsRow(i)
      <4>1. \E s : Goes(i, s) /\ s.pc \in {"batch", "insert", "share", "write", "set"}
        <5>1. ReadsItem(i) => \E s : Goes(i, s) /\ s.pc = "batch"
          BY ReadsItemDoes DEF Becomes
        <5>2. PlansBatches(i) => \E s : Goes(i, s) /\ s.pc \in {"insert", "share"}
          BY PlansBatchesDoes DEF Becomes
        <5>3. ReadsBatch(i) => \E s : Goes(i, s) /\ s.pc = "write"
          BY ReadsBatchDoes DEF Becomes
        <5>4. WritesBatch(i) => \E s : Goes(i, s) /\ s.pc \in {"insert", "share"}
          BY WritesBatchDoes DEF Becomes
        <5>5. InsertsRow(i) => \E s : Goes(i, s) /\ s.pc = "set"
          BY InsertsRowDoes DEF Becomes
        <5> QED
          BY <3>2, <5>1, <5>2, <5>3, <5>4, <5>5
      <4> QED
        BY <1>3, <4>1
    <3>3. CASE StoresBalance(i)
      BY <1>2, <3>3, StoresBalanceDoes
    <3> QED
      BY <1>7, <3>1, <3>2, <3>3 DEF PostStep
  <2> QED
    BY <2>1, <2>2
<1>8. CASE OrderStep(i)
  <2>1. troubled' = troubled
    BY <1>8 DEF OrderStep, Claims, Snapshots, Reopens, Cancels, ReadsSales, ChecksReversed
  <2>2. \E s : Goes(i, s) /\ Fine(s)
    <3>1. CASE Claims(i)
      BY <1>2, <1>4, <3>1, ClaimsDoes
    <3>2. CASE Snapshots(i) \/ Reopens(i)
      BY <1>4, <3>2 DEF Snapshots, Reopens
    <3>3. CASE Cancels(i)
      BY <1>3, <3>3, CancelsDoes DEF Becomes
    <3>4. CASE ReadsSales(i)
      BY <1>3, <1>4, <3>4, ReadsSalesDoes DEF Becomes
    <3>5. CASE ChecksReversed(i)
      BY <1>2, <1>4, <3>5, ChecksReversedDoes
    <3> QED
      BY <1>8, <3>1, <3>2, <3>3, <3>4, <3>5 DEF OrderStep
  <2> QED
    BY <2>1, <2>2
<1>9. CASE PurchaseStep(i) \/ Closes(i)
  <2>1. troubled' = troubled
    BY <1>9 DEF PurchaseStep, BooksPurchase, Shelves, ReadsBought, Closes
  <2>2. \E s : Goes(i, s) /\ Fine(s)
    <3>1. CASE Shelves(i) \/ Closes(i)
      BY <1>4, <3>1, ShelvesDoes, ClosesDoes
    <3>2. CASE ReadsBought(i)
      BY <1>2, <3>2, ReadsBoughtDoes
    <3>3. CASE BooksPurchase(i)
      BY <1>3, <3>3, BooksPurchaseDoes
    <3> QED
      BY <1>9, <3>1, <3>2, <3>3 DEF PurchaseStep
  <2> QED
    BY <2>1, <2>2
<1>10. CASE Fault(i)
  <2>1. \E s : Goes(i, s) /\ Fine(s)
    <3>1. CASE Evicted(i)
      BY <1>4, <3>1 DEF Evicted
    <3>2. ASSUME NEW s, Goes(i, s), s.op = "consume", s.ref = r.ref, r.op = "consume"
          PROVE  Fine(s)
      <4>1. r.ref # NoRef
        BY <3>2, Kept DEF RefFits, NoRef
      <4>2. s.ref \in troubled'
        BY <1>5, <1>10, <3>2, <4>1
      <4> QED
        BY <4>2 DEF Fine
    <3>3. CASE Throws(i)
      BY <1>3, <1>4, <3>2, <3>3, ThrowsDoes DEF Becomes
    <3> QED
      BY <1>10, <3>1, <3>3 DEF Fault
  <2> QED
    BY <1>5, <1>10, <2>1
<1> QED
  BY <1>6, <1>7, <1>8, <1>9, <1>10

\* What is to be shown after a step.
LEMMA ConsumingNew ==
  ASSUME NEW o
  PROVE  Consuming(o)' <=>
    /\ ~orders'[o].consumed =>
         RowsOf(OrderRef(o))' = {} /\ \A j \in Slots : ~(req'[j].ref = OrderRef(o) /\ Active(req'[j]))
    /\ \A j, k \in Slots :
         (req'[j].ref = OrderRef(o) /\ Active(req'[j])) /\ (req'[k].ref = OrderRef(o) /\ Active(req'[k]))
           => j = k
    /\ \A j \in Slots : req'[j].ref = OrderRef(o) /\ Active(req'[j]) =>
         \E d \in Nat : Selling(o, req'[j], d) /\ Sold(o, d)'
    /\ orders'[o].consumed /\ (\A j \in Slots : ~(req'[j].ref = OrderRef(o) /\ Active(req'[j])))
         => Sold(o, Len(Recipe[o]))'
<1>1. \A j \in Slots : Serves(o, j)' <=> (req'[j].ref = OrderRef(o) /\ Active(req'[j]))
  BY DEF Serves, Active, OrderRef
<1>2. \A j \in Slots, d \in Nat : Selling(o, req[j], d)' <=> Selling(o, req'[j], d)
  BY DEF Selling, SalesOf, OrderRef, Rest
<1> QED
  BY <1>1, <1>2 DEF Consuming

\* A step that sells nothing for it and changes nothing about who does.
LEMMA ConsumingKept ==
  ASSUME TypeOK, NEW i \in Slots, NEW o \in Orders, Consuming(o), NEW s, Goes(i, s),
         RowsOf(OrderRef(o))' = RowsOf(OrderRef(o)),
         \A n \in RowsOf(OrderRef(o)) : moves'[n] = moves[n],
         orders'[o].consumed = orders[o].consumed,
         (s.ref = OrderRef(o) /\ Active(s)) <=> Serves(o, i),
         Serves(o, i) => Rest(s) = Rest(req[i])
  PROVE  Consuming(o)'
<1>1. req'[i] = s /\ \A j \in Slots \ {i} : req'[j] = req[j]
  BY GoesOne
<1>2. \A j \in Slots : /\ (req'[j].ref = OrderRef(o) /\ Active(req'[j])) <=> Serves(o, j)
                       /\ Serves(o, j) => Rest(req'[j]) = Rest(req[j])
  BY <1>1 DEF Serves
<1>3. \A d : Sold(o, d) => Sold(o, d)'
  <2> SUFFICES ASSUME NEW d, Sold(o, d) PROVE Sold(o, d)'
    OBVIOUS
  <2>1. PICK g : /\ g \in Bijection(1 .. d, RowsOf(OrderRef(o)))
                 /\ \A k \in 1 .. d : /\ moves[g[k]].item = Recipe[o][k].item
                                    /\ moves[g[k]].qty = -Recipe[o][k].qty
    BY DEF Sold
  <2>2. \A k \in 1 .. d : g[k] \in RowsOf(OrderRef(o))
    BY <2>1 DEF Bijection, Injection
  <2> QED
    BY <2>1, <2>2 DEF Sold
<1>4. \A j \in Slots : Serves(o, j) => \A d : Selling(o, req[j], d) => Selling(o, req'[j], d)
  BY <1>2 DEF Selling
<1>5. \A j \in Slots : Serves(o, j) => \E d \in Nat : Selling(o, req'[j], d) /\ Sold(o, d)'
  BY <1>3, <1>4 DEF Consuming
<1>6. /\ ~orders'[o].consumed => RowsOf(OrderRef(o))' = {} /\ \A j \in Slots : ~Serves(o, j)
      /\ \A j, k \in Slots : Serves(o, j) /\ Serves(o, k) => j = k
      /\ orders'[o].consumed /\ (\A j \in Slots : ~Serves(o, j)) => Sold(o, Len(Recipe[o]))'
  BY <1>3 DEF Consuming
<1> QED
  BY <1>2, <1>5, <1>6, ConsumingNew

\* What is consumed is marked by the claim, and the mark is taken off again by who releases
\* it and by the void.
LEMMA MarkKept ==
  ASSUME TypeOK, NEW i \in Slots, NEW o \in Orders,
         Arrival(i) \/ PostStep(i) \/ OrderStep(i) \/ PurchaseStep(i) \/ Closes(i) \/ Fault(i),
         Claims(i) \/ Reopens(i) \/ (Closes(i) /\ req[i].op = "void") => req[i].ref.id # o
  PROVE  orders'[o].consumed = orders[o].consumed
<1>1. CASE orders' = orders
  BY <1>1
<1>2. CASE Claims(i) \/ Reopens(i) \/ Closes(i)
  <2>1. PICK u : /\ \/ orders' = [orders EXCEPT ![u].consumed = TRUE]
                    \/ orders' = [orders EXCEPT ![u].consumed = FALSE]
                    \/ orders' = orders
                 /\ u # o \/ orders' = orders
    BY <1>2, ClaimsDoes, ClosesDoes DEF Reopens
  <2>2. u # o => /\ [orders EXCEPT ![u].consumed = TRUE][o].consumed = orders[o].consumed
                 /\ [orders EXCEPT ![u].consumed = FALSE][o].consumed = orders[o].consumed
    BY OrderMarked
  <2> QED
    BY <2>1, <2>2
<1>3. CASE Cancels(i)
  <2>1. PICK u : orders' = [orders EXCEPT ![u].voided = TRUE]
    BY <1>3 DEF Cancels
  <2>2. [orders EXCEPT ![u].voided = TRUE][o].consumed = orders[o].consumed
    BY OrderMarked
  <2> QED
    BY <2>1, <2>2
<1>4. Arrival(i) \/ PostStep(i) \/ Snapshots(i) \/ ReadsSales(i) \/ ChecksReversed(i)
        \/ PurchaseStep(i) \/ Fault(i) => orders' = orders
  <2>1. Arrival(i) => orders' = orders
    BY ArrivalDoes DEF Arrives, books
  <2>2. PostStep(i) => orders' = orders
    BY DEF PostStep, Weighs, ReadsItem, PlansBatches, ReadsBatch, WritesBatch, InsertsRow,
           StoresBalance, books
  <2>3. Snapshots(i) \/ ReadsSales(i) \/ ChecksReversed(i) => orders' = orders
    BY DEF Snapshots, ReadsSales, ChecksReversed, books
  <2>4. PurchaseStep(i) => orders' = orders
    BY DEF PurchaseStep, BooksPurchase, Shelves, ReadsBought, books
  <2>5. Fault(i) => orders' = orders
    BY DEF Fault, Throws, Evicted, books
  <2> QED
    BY <2>1, <2>2, <2>3, <2>4, <2>5
<1> QED
  BY <1>1, <1>2, <1>3, <1>4 DEF OrderStep

\* A claim that succeeds finds nothing sold, and owes the whole recipe.
LEMMA ClaimConsumes ==
  ASSUME TypeOK, NEW i \in Slots, Claims(i), NEW o \in Orders, req[i].ref = OrderRef(o), Consuming(o)
  PROVE  Consuming(o)'
<1> DEFINE r == req[i]
<1>1. r.pc = "claim" /\ r.op = "consume" /\ r.ref.id = o /\ moves' = moves
  <2>1. r.pc = "claim" /\ r.op = "consume"
    BY ClaimsDoes
  <2>2. moves' = moves
    BY DEF Claims, shelf
  <2> QED
    BY <2>1, <2>2 DEF OrderRef
<1>2. RowsOf(OrderRef(o))' = RowsOf(OrderRef(o)) /\ ~Serves(o, i)
  BY <1>1 DEF RowsOf, Serves, Active
<1>3. CASE Answers(i) /\ orders' = orders
  BY <1>1, <1>2, <1>3, ConsumingKept, FreeIs DEF Answers, Active
<1>4. CASE Claimable(o) /\ orders' = [orders EXCEPT ![o].consumed = TRUE]
           /\ \E s \in Request : Goes(i, s) /\ Resumes(i, s, r.sheet, SalesOf(o), r.cur)
  <2>1. RowsOf(OrderRef(o)) = {} /\ \A j \in Slots : ~Serves(o, j)
    BY <1>4 DEF Consuming, Claimable
  <2>2. PICK s \in Request, t \in Request :
          Goes(i, s) /\ Alike(t, r) /\ t.todo = SalesOf(o) /\ Onward(s, t)
    BY <1>4 DEF Resumes, Becomes
  <2>3. s.ref = OrderRef(o) /\ Active(s) /\ Rest(s) = SalesOf(o)
    BY <1>1, <2>2 DEF Onward, Alike, Becomes, Active, Rest
  <2>4. req'[i] = s /\ \A j \in Slots \ {i} : req'[j] = req[j]
    BY <2>2, GoesOne
  <2>5. \A j \in Slots : req'[j].ref = OrderRef(o) /\ Active(req'[j]) => j = i
    BY <2>1, <2>4 DEF Serves
  <2>6. Sold(o, 0)'
    <3>1. RowsOf(OrderRef(o))' = {}
      BY <1>2, <2>1
    <3> QED
      BY <3>1, SoldNone DEF Sold
  <2>7. Selling(o, s, 0)
    <3>1. SalesOf(o) \in Seq(Move) /\ DOMAIN SalesOf(o) = 1 .. Len(Recipe[o]) /\ Len(Recipe[o]) \in Nat
      BY SalesAre
    <3>2. Len(SalesOf(o)) = Len(Recipe[o])
      BY <3>1
    <3> QED
      BY <2>3, <3>1, <3>2 DEF Selling
  <2>8. orders'[o].consumed
    BY <1>4, OrderMarked
  <2> QED
    BY <2>3, <2>4, <2>5, <2>6, <2>7, <2>8, ConsumingNew
<1> QED
  BY <1>1, <1>3, <1>4, ClaimsDoes

\* The row that is inserted sells the next line.
LEMMA InsertConsumes ==
  ASSUME TypeOK, NEW i \in Slots, InsertsRow(i), NEW o \in Orders, Serves(o, i), Consuming(o)
  PROVE  Consuming(o)'
<1> DEFINE r == req[i]
<1>1. PICK s \in Request : /\ Goes(i, s) /\ Alike(s, r) /\ s.pc = "set" /\ s.todo = r.todo
                           /\ r.pc = "insert" /\ r.todo # <<>>
  BY InsertsRowDoes DEF Becomes
<1>2. PICK row \in Row :
        /\ moves' = Append(moves, row)
        /\ row.item = Posted(i).item /\ row.qty = Posted(i).qty /\ row.ref = r.ref
  BY RowRefIs
<1>3. PICK d \in Nat : Selling(o, r, d) /\ Sold(o, d)
  BY DEF Consuming
<1>4. /\ Rest(r) = r.todo /\ Rest(s) = Tail(r.todo) /\ r.todo \in Seq(Move)
      /\ Posted(i) = r.todo[1] /\ r.ref = OrderRef(o) /\ s.ref = OrderRef(o) /\ Active(s)
  BY <1>1, Kept, PostedIs DEF Rest, Serves, Active, Alike
<1>5. PICK n \in Nat : n = Len(Recipe[o]) /\ DOMAIN Recipe[o] = 1 .. n
  BY SalesAre
<1>6. PICK m \in Nat : m = Len(r.todo) /\ m >= 1 /\ d + m = n
  BY <1>1, <1>3, <1>4, <1>5 DEF Selling
<1>7. d + 1 \in DOMAIN Recipe[o] /\ Posted(i) = SalesOf(o)[d + 1]
  BY <1>3, <1>4, <1>5, <1>6 DEF Selling
<1>8. Sold(o, d + 1)'
  <2>1. row.ref = OrderRef(o) /\ row.item = Recipe[o][d + 1].item /\ row.qty = -Recipe[o][d + 1].qty
    BY <1>2, <1>4, <1>7, SalesAre
  <2> QED
    BY <1>2, <1>3, <1>7, <2>1, SoldNext
<1>9. Selling(o, s, d + 1)
  <2>1. Len(Tail(r.todo)) = m - 1 /\ \A k \in 1 .. (m - 1) : Tail(r.todo)[k] = r.todo[k + 1]
    BY <1>1, <1>4, <1>6
  <2>2. \A k \in 1 .. (m - 1) : r.todo[k + 1] = SalesOf(o)[d + (k + 1)]
    BY <1>3, <1>4, <1>6 DEF Selling
  <2>3. \A k \in 1 .. (m - 1) : d + (k + 1) = (d + 1) + k
    OBVIOUS
  <2>4. \A k \in 1 .. (m - 1) : Tail(r.todo)[k] = SalesOf(o)[(d + 1) + k]
    BY <2>1, <2>2, <2>3
  <2> QED
    <3>1. Rest(s) = Tail(r.todo) /\ Len(Rest(s)) = m - 1 /\ (d + 1) + (m - 1) = n
      <4>1. (d + 1) + (m - 1) = n
        <5>1. \A a, b \in Nat : (a + 1) + (b - 1) = a + b
          OBVIOUS
        <5> QED
          BY <1>6, <5>1
      <4>2. Rest(s) = Tail(r.todo)
        BY <1>4
      <4> QED
        BY <2>1, <4>1, <4>2
    <3> QED
      BY <1>5, <2>4, <3>1 DEF Selling
<1>10. req'[i] = s /\ \A j \in Slots \ {i} : req'[j] = req[j]
  BY <1>1, GoesOne
<1>11. \A j \in Slots : req'[j].ref = OrderRef(o) /\ Active(req'[j]) => j = i
  BY <1>10 DEF Consuming, Serves
<1>12. orders'[o].consumed
  <2>1. orders' = orders
    BY DEF InsertsRow, books
  <2> QED
    BY <2>1 DEF Consuming
<1> QED
  BY <1>4, <1>8, <1>9, <1>10, <1>11, <1>12, ConsumingNew

\* Who has posted it all leaves it sold.
LEMMA SnapshotConsumes ==
  ASSUME TypeOK, NEW i \in Slots, Snapshots(i), NEW o \in Orders, Serves(o, i), Consuming(o)
  PROVE  Consuming(o)'
<1>1. req[i].pc = "snapshot" /\ req[i].todo = <<>> /\ Goes(i, FreeSlot)
  BY Kept DEF Snapshots, At, PcFits, Answers
<1>2. moves' = moves /\ orders' = orders
  BY DEF Snapshots, shelf, books
<1>3. PICK d \in Nat : Selling(o, req[i], d) /\ Sold(o, d)
  BY DEF Consuming
<1>4. d = Len(Recipe[o])
  <2>1. Rest(req[i]) = <<>> /\ Len(<<>>) = 0
    BY <1>1 DEF Rest
  <2> QED
    BY <1>3, <2>1 DEF Selling
<1>5. Sold(o, Len(Recipe[o]))'
  BY <1>2, <1>3, <1>4 DEF Sold, RowsOf
<1>6. req'[i] = FreeSlot /\ \A j \in Slots \ {i} : req'[j] = req[j]
  BY <1>1, GoesOne
<1>7. \A j \in Slots : ~(req'[j].ref = OrderRef(o) /\ Active(req'[j]))
  BY <1>6, FreeIs DEF Consuming, Serves, Active
<1>8. orders'[o].consumed
  BY <1>2 DEF Consuming
<1> QED
  BY <1>5, <1>7, <1>8, ConsumingNew

LEMMA ConsumingNext ==
  ASSUME TypeOK, Known, VoidsWritten, NEW i \in Slots,
         \A j \in Slots : req[j].pc = "reopen" => req[j].ref \in troubled,
         Arrival(i) \/ PostStep(i) \/ OrderStep(i) \/ PurchaseStep(i) \/ Closes(i) \/ Fault(i),
         NEW o \in Orders, OrderRef(o) \notin troubled', ~orders'[o].voided, Consuming(o)
  PROVE  Consuming(o)'
<1> DEFINE r == req[i]
           ref == OrderRef(o)
<1>0. /\ RefFits(r) /\ PcFits(r) /\ ref # NoRef /\ ref.kind = "orders" /\ ref.id = o
      /\ FreeSlot.ref = NoRef /\ ~Active(FreeSlot)
  BY Kept, FreeIs DEF NoRef, OrderRef, Active
<1>1. ~orders[o].voided /\ troubled \subseteq troubled'
  BY VoidedStays, ReopenFrom
<1>2. r.ref = ref /\ r.op = "void" => r.pc = "cancel"
  BY <1>0, <1>1 DEF VoidsWritten
<1>3. ASSUME ~InsertsRow(i) \/ r.ref # ref
      PROVE  /\ RowsOf(ref)' = RowsOf(ref)
             /\ \A n \in RowsOf(ref) : moves'[n] = moves[n]
  BY <1>3, RowsSameIs, RowsStay DEF RowsOf
<1>4. CASE InsertsRow(i) /\ r.ref = ref
  <2>1. r.pc = "insert" /\ r.op \in {"consume", "void"}
    <3>1. r.pc = "insert" /\ r.op \in AllOps
      BY <1>4, OpsServed DEF InsertsRow, At
    <3> QED
      BY <1>0, <1>4, <3>1 DEF RefFits, AllOps, NoRef
  <2>2. Serves(o, i)
    BY <1>2, <1>4, <2>1 DEF Serves, Active
  <2> QED
    BY <1>4, <2>2, InsertConsumes
<1>5. CASE Claims(i) /\ r.ref = ref
  BY <1>5, ClaimConsumes
<1>6. CASE Snapshots(i) /\ r.ref = ref
  <2>1. Serves(o, i)
    BY <1>0, <1>6 DEF Snapshots, At, PcFits, Serves, Active
  <2> QED
    BY <1>6, <2>1, SnapshotConsumes
<1>7. ~(Reopens(i) /\ r.ref = ref) /\ ~(Fault(i) /\ r.ref = ref)
  <2>1. ~(Reopens(i) /\ r.ref = ref)
    BY <1>1 DEF Reopens, At
  <2>2. ~(Fault(i) /\ r.ref = ref)
    BY <1>0 DEF Fault, Throws, Evicted, Marks
  <2> QED
    BY <2>1, <2>2
<1>8. ASSUME ~(InsertsRow(i) /\ r.ref = ref), ~(Claims(i) /\ r.ref = ref),
             ~(Snapshots(i) /\ r.ref = ref)
      PROVE  Consuming(o)'
  <2>1. orders'[o].consumed = orders[o].consumed
    <3>1. ASSUME Claims(i) \/ Reopens(i) PROVE r.ref.id # o
      <4>1. r.op = "consume"
        BY <1>0, <3>1 DEF Claims, Reopens, At, PcFits
      <4>2. r.ref = OrderRef(r.ref.id)
        BY <4>1, RefIs
      <4> QED
        BY <1>7, <1>8, <3>1, <4>2
    <3>2. ASSUME Closes(i), r.op = "void" PROVE r.ref.id # o
      <4>1. r.pc = "close" /\ r.ref = OrderRef(r.ref.id)
        BY <3>2, RefIs DEF Closes, At
      <4> QED
        BY <1>2, <3>2, <4>1
    <3> QED
      BY <3>1, <3>2, MarkKept
  <2>2. RowsOf(ref)' = RowsOf(ref) /\ \A n \in RowsOf(ref) : moves'[n] = moves[n]
    BY <1>3, <1>8
  <2>3. ASSUME NEW s, Goes(i, s), (s.ref = ref /\ Active(s)) <=> Serves(o, i),
               Serves(o, i) => Rest(s) = Rest(r)
        PROVE  Consuming(o)'
    BY <2>1, <2>2, <2>3, ConsumingKept
  <2>4. CASE Arrival(i)
    <3>1. PICK s \in Request : /\ Arrives(i, s) /\ Fits(s)
                               /\ s.op = "consume" => s.pc = "claim"
      BY <2>4, ArrivalDoes
    <3>2. ~Active(s) /\ ~Serves(o, i) /\ Goes(i, s)
      BY <1>0, <3>1 DEF Arrives, At, Active, Serves, PcFits
    <3> QED
      BY <2>3, <3>2
  <2>5. CASE PostStep(i) /\ ~InsertsRow(i)
    <3>1. PICK s \in Request : Goes(i, s) /\ Carried(s, r)
      BY <2>5, PostStepIs
    <3>2. r.ref = ref => Course(s, r)
      BY <1>0, <3>1 DEF Carried
    <3>3. r.ref = ref => (Active(s) <=> Active(r)) /\ Rest(s) = Rest(r)
      BY <3>2 DEF Course, Alike, Active, Posting
    <3> QED
      BY <2>3, <3>1, <3>3 DEF Carried, Serves
  <2>6. CASE InsertsRow(i)
    <3>1. PICK s \in Request : Goes(i, s) /\ s.ref = r.ref
      BY <2>6, InsertsRowDoes DEF Alike
    <3> QED
      BY <1>8, <2>3, <2>6, <3>1 DEF Serves
  <2>7. CASE Claims(i) \/ Snapshots(i) \/ Reopens(i) \/ Fault(i)
    <3>1. r.ref # ref
      BY <1>7, <1>8, <2>7
    <3>2. (~Arrival(i) /\ ~BooksPurchase(i)) \/ Fault(i)
      <4>1. Arrival(i) => r.pc = "free"
        BY ArrivalDoes DEF Arrives, At
      <4> QED
        BY <2>7, <4>1 DEF Claims, Snapshots, Reopens, BooksPurchase, At
    <3>3. \E s : Goes(i, s) /\ s.ref \in {r.ref, NoRef}
      <4>1. CASE ~Fault(i)
        BY <2>7, <3>2, <4>1, RefGoes DEF OrderStep
      <4>2. CASE Evicted(i)
        BY <1>0, <4>2 DEF Evicted, Answers
      <4>3. CASE Throws(i)
        BY <1>0, <4>3, ThrowsDoes DEF Answers, Alike
      <4> QED
        BY <4>1, <4>2, <4>3 DEF Fault
    <3> QED
      BY <1>0, <2>3, <3>1, <3>3 DEF Serves
  <2>8. CASE Cancels(i) \/ ReadsSales(i) \/ ChecksReversed(i) \/ PurchaseStep(i) \/ Closes(i)
    <3>1. r.op \in {"void", "unbuy", "purchase"}
      BY <2>8, CancelsDoes, ReadsSalesDoes, ChecksReversedDoes, BooksPurchaseDoes, ShelvesDoes,
         ReadsBoughtDoes, ClosesDoes DEF PurchaseStep
    <3>2. \E s : Goes(i, s) /\ s.op # "consume"
      <4>1. CASE BooksPurchase(i)
        <5>1. \E s \in Request : Goes(i, s) /\ s.op = "purchase"
          BY <4>1, BooksPurchaseDoes
        <5> QED
          BY <5>1
      <4>2. CASE ~BooksPurchase(i)
        <5>1. ~Arrival(i)
          <6>1. Arrival(i) => r.pc = "free"
            BY ArrivalDoes DEF Arrives, At
          <6> QED
            BY <1>0, <3>1, <6>1 DEF PcFits
        <5>2. \E s \in Request : Goes(i, s) /\ s.op \in {r.op, "none"}
          BY <2>8, <4>2, <5>1, RefGoes DEF OrderStep
        <5> QED
          BY <3>1, <5>2
      <4> QED
        BY <4>1, <4>2
    <3> QED
      BY <2>3, <3>1, <3>2 DEF Serves, Active
  <2> QED
    BY <2>4, <2>5, <2>6, <2>7, <2>8 DEF OrderStep
<1> QED
  BY <1>4, <1>5, <1>6, <1>8

LEMMA ConsumedInit == Init => Consumed
<1> SUFFICES ASSUME Init PROVE Consumed
  OBVIOUS
<1>1. \A i \in Slots : req[i].pc = "free" /\ req[i].op = "none"
  BY FreeIs DEF Init, Becomes
<1>2. \A ref : RowsOf(ref) = {}
  BY DEF Init, RowsOf
<1>3. \A o \in Orders : ~orders[o].consumed
  BY DEF Init
<1> QED
  BY <1>1, <1>2, <1>3 DEF Consumed, Consuming, Serves, Active

LEMMA ConsumedNext ==
  TypeOK /\ Known /\ VoidsWritten /\ Consumed /\ [Next]_vars => VoidsWritten' /\ Consumed'
<1> SUFFICES ASSUME TypeOK, Known, VoidsWritten, Consumed, [Next]_vars
             PROVE  VoidsWritten' /\ Consumed'
  OBVIOUS
<1>1. CASE UNCHANGED vars
  <2>1. UNCHANGED <<moves, orders, req, troubled>>
    BY <1>1 DEF vars, shelf, books
  <2>2. VoidsWritten'
    BY <2>1 DEF VoidsWritten
  <2>3. ASSUME NEW o \in Orders, Consuming(o) PROVE Consuming(o)'
    <3>1. RowsOf(OrderRef(o))' = RowsOf(OrderRef(o)) /\ \A d : Sold(o, d) => Sold(o, d)'
      BY <2>1 DEF Sold, RowsOf
    <3> QED
      BY <2>1, <2>3, <3>1, ConsumingNew DEF Consuming, Serves
  <2>4. \A o \in Orders : (OrderRef(o) \notin troubled /\ ~orders[o].voided => Consuming(o))'
    BY <2>1, <2>3 DEF Consumed, OrderRef
  <2> QED
    BY <2>1, <2>2, <2>4 DEF Consumed
<1>2. CASE Next
  <2>1. PICK i \in Slots :
          Arrival(i) \/ PostStep(i) \/ OrderStep(i) \/ PurchaseStep(i) \/ Closes(i) \/ Fault(i)
    BY <1>2 DEF Next
  <2>2. VoidsWritten'
    BY <2>1, VoidsWrittenNext
  <2>3. PICK s : Goes(i, s) /\ (s.pc # "reopen" \/ s.ref \in troubled')
    BY <2>1, ReopenFrom
  <2>4. troubled \subseteq troubled'
    BY <2>1, ReopenFrom
  <2>5. \A j \in Slots : req'[j].pc = "reopen" => req'[j].ref \in troubled'
    BY <2>3, <2>4, GoesOne DEF Consumed
  <2>6. ASSUME NEW o \in Orders, OrderRef(o) \notin troubled', ~orders'[o].voided
        PROVE  Consuming(o)'
    <3>1. Consuming(o)
      BY <2>1, <2>4, <2>6, VoidedStays DEF Consumed
    <3>2. \A j \in Slots : req[j].pc = "reopen" => req[j].ref \in troubled
      BY DEF Consumed
    <3> QED
      BY <2>1, <2>6, <3>1, <3>2, ConsumingNext
  <2>7. \A o \in Orders : (OrderRef(o) \notin troubled /\ ~orders[o].voided => Consuming(o))'
    BY <2>6 DEF OrderRef
  <2> QED
    BY <2>2, <2>5, <2>7 DEF Consumed
<1> QED
  BY <1>1, <1>2

\* As many rows as lines, of each kind of line.
LEMMA SoldCounts ==
  ASSUME TypeOK, NEW o \in Orders, Sold(o, Len(Recipe[o]))
  PROVE  /\ Cardinality(RowsOf(OrderRef(o))) = Len(Recipe[o])
         /\ \A line \in Line :
              Cardinality({n \in RowsOf(OrderRef(o)) :
                             moves[n].item = line.item /\ moves[n].qty = -line.qty})
                = Cardinality({k \in DOMAIN Recipe[o] : Recipe[o][k] = line})
<1> DEFINE R == RowsOf(OrderRef(o))
<1>1. PICK n \in Nat : n = Len(Recipe[o]) /\ DOMAIN Recipe[o] = 1 .. n
  BY SalesAre
<1>2. PICK g : /\ g \in Bijection(1 .. n, R)
               /\ \A k \in 1 .. n : /\ moves[g[k]].item = Recipe[o][k].item
                                  /\ moves[g[k]].qty = -Recipe[o][k].qty
  BY <1>1 DEF Sold
<1>3. /\ g \in [1 .. n -> R]
      /\ \A a, b \in 1 .. n : g[a] = g[b] => a = b
      /\ \A m \in R : \E k \in 1 .. n : g[k] = m
  BY <1>2 DEF Bijection, Injection, Surjection, IsInjective
<1>4. IsFiniteSet(1 .. n) /\ Cardinality(1 .. n) = n
  BY FS_Interval
<1>5. Cardinality(R) = n
  BY <1>2, <1>4, FS_Bijection DEF ExistsBijection
<1>6. \A k \in 1 .. n : Recipe[o][k] \in Line
  <2>1. Recipe[o] \in Seq(Line)
    BY OrdersAssumption
  <2> QED
    BY <1>1, <2>1
<1>7. \A a, b \in Line : a.item = b.item /\ -a.qty = -b.qty <=> a = b
  <2>1. \A a, b \in Line : a.item = b.item /\ a.qty = b.qty => a = b
    BY DEF Line
  <2>2. \A a \in Line : a.qty \in Nat
    BY DEF Line
  <2>3. \A x, y \in Nat : -x = -y => x = y
    OBVIOUS
  <2> QED
    BY <2>1, <2>2, <2>3
<1> SUFFICES ASSUME NEW line \in Line
             PROVE  Cardinality({m \in R : moves[m].item = line.item /\ moves[m].qty = -line.qty})
                      = Cardinality({k \in DOMAIN Recipe[o] : Recipe[o][k] = line})
  BY <1>1, <1>5
<1> DEFINE S == {m \in R : moves[m].item = line.item /\ moves[m].qty = -line.qty}
           T == {k \in 1 .. n : Recipe[o][k] = line}
           h == [k \in T |-> g[k]]
<1>8. \A k \in 1 .. n : g[k] \in S <=> k \in T
  BY <1>2, <1>3, <1>6, <1>7
<1>9. T \subseteq 1 .. n /\ S \subseteq R
  OBVIOUS
<1>10. IsFiniteSet(T)
  <2> HIDE DEF T
  <2> QED
    BY <1>4, <1>9, FS_Subset
<1> HIDE DEF S, T, R
<1>11. h \in [T -> S]
  BY <1>8, <1>9
<1>12. \A a, b \in T : h[a] = h[b] => a = b
  BY <1>3, <1>9
<1>13. \A m \in S : \E k \in T : h[k] = m
  <2> SUFFICES ASSUME NEW m \in S PROVE \E k \in T : h[k] = m
    OBVIOUS
  <2>1. PICK k \in 1 .. n : g[k] = m
    BY <1>3, <1>9
  <2>2. k \in T
    BY <1>8, <2>1
  <2> QED
    BY <2>1, <2>2
<1> HIDE DEF h
<1>14. h \in Bijection(T, S)
  BY <1>11, <1>12, <1>13, Zenon DEF Bijection, Injection, Surjection, IsInjective
<1>15. Cardinality(S) = Cardinality(T)
  BY <1>10, <1>14, FS_Bijection DEF ExistsBijection
<1> QED
  BY <1>1, <1>15 DEF S, T

\* However many times an order is made ready, at once or again, its recipe is taken from the
\* shelf once: the claim in consumeForOrder lets one request past, which posts the lines it
\* has not posted yet and none of them twice.
THEOREM TakenOnce == Spec => []ConsumedOnce
<1>1. Init => TypeOK /\ Known /\ VoidsWritten /\ Consumed
  <2>1. Init => VoidsWritten
    BY FreeIs DEF Init, VoidsWritten
  <2> QED
    BY <2>1, TypeInit, ConsumedInit
<1>2. TypeOK /\ Known /\ VoidsWritten /\ Consumed /\ [Next]_vars
        => (TypeOK /\ Known /\ VoidsWritten /\ Consumed)'
  BY TypeNext, ConsumedNext
<1>3. TypeOK /\ Consumed => ConsumedOnce
  <2> SUFFICES ASSUME TypeOK, Consumed, NEW o \in Orders, Sound(OrderRef(o)), ~orders[o].voided
               PROVE  IF orders[o].consumed
                      THEN /\ Cardinality(RowsOf(OrderRef(o))) = Len(Recipe[o])
                           /\ \A k \in DOMAIN Recipe[o] :
                                Cardinality({n \in RowsOf(OrderRef(o)) :
                                   moves[n].item = Recipe[o][k].item /\ moves[n].qty = -Recipe[o][k].qty})
                                 = Cardinality({l \in DOMAIN Recipe[o] : Recipe[o][l] = Recipe[o][k]})
                      ELSE RowsOf(OrderRef(o)) = {}
    BY Zenon DEF ConsumedOnce
  <2>1. Consuming(o) /\ \A i \in Slots : ~Serves(o, i)
    BY DEF Consumed, Sound, AtRest, Serves
  <2>2. CASE orders[o].consumed
    <3>1. Sold(o, Len(Recipe[o]))
      BY <2>1, <2>2 DEF Consuming
    <3>2. \A k \in DOMAIN Recipe[o] : Recipe[o][k] \in Line
      <4>1. Recipe[o] \in Seq(Line)
        BY OrdersAssumption
      <4> QED
        BY <4>1
    <3> QED
      BY <2>2, <3>1, <3>2, SoldCounts
  <2>3. CASE ~orders[o].consumed
    BY <2>1, <2>3 DEF Consuming
  <2> QED
    BY <2>2, <2>3
<1> QED
  BY <1>1, <1>2, <1>3, PTL DEF Spec

=============================================================================
