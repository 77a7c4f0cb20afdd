----------------------------- MODULE TimerProofs -----------------------------
(***************************************************************************)
(* Proofs about what timers run.                                           *)
(*                                                                         *)
(* First about Sync, for any rows, ownership, batch size, number of        *)
(* overlapping requests and number of faults, and about SyncRestore; then  *)
(* about Alerts, for any things, rows, thresholds and people, and any      *)
(* sweeps, pings and acknowledgements at once.                             *)
(***************************************************************************)
EXTENDS SyncRestore, Alerts, SequenceTheorems, FiniteSetTheorems, TLAPS

-----------------------------------------------------------------------------
(* What the helpers return.                                                *)

\* A statement leaves a row with contents, or without.
LEMMA EffectType ==
  ASSUME NEW k \in AllKinds, NEW v \in Nat, NEW c \in Contents
  PROVE  Effect(k, v, c) \in Contents
BY DEF Effect, Matches, Contents, AllKinds, Absent

\* A batch is the entries of the log that follow since, as many as fit.
LEMMA AfterProperties ==
  ASSUME NEW S, NEW log \in Seq(S), NEW since \in Nat, since < Len(log)
  PROVE  /\ After(log, since) \in Seq(S)
         /\ since + Len(After(log, since)) <= Len(log)
         /\ \A k \in 1 .. Len(After(log, since)) : After(log, since)[k] = log[since + k]
<1> DEFINE n == Smaller(since + BATCH, Len(log))
<1>1. BATCH \in Nat \ {0}
  BY BoundsAssumption
<1>2. n \in Nat /\ since + 1 <= n /\ n <= Len(log)
  BY <1>1 DEF Smaller
<1>3. \A i \in since + 1 .. n : log[i] \in S
  BY <1>2
<1>4. /\ SubSeq(log, since + 1, n) \in Seq(S)
      /\ Len(SubSeq(log, since + 1, n)) = n - since
      /\ \A i \in 1 .. n - since : SubSeq(log, since + 1, n)[i] = log[since + i]
  BY <1>2, <1>3, SubSeqProperties
<1> QED
  BY <1>2, <1>4 DEF After

\* Appending an entry to what a site has gone through adds just that entry.
LEMMA HandledAppend ==
  ASSUME NEW q \in Seq(Nat), NEW u \in Nat
  PROVE  LET q2 == Append(q, u)
         IN {q2[n] : n \in 1 .. Len(q2)} = {q[n] : n \in 1 .. Len(q)} \cup {u}
BY AppendProperties

-----------------------------------------------------------------------------
(* Type correctness.                                                       *)

\* Going through an entry keeps the types of what it writes.
LEMMA ApplyType ==
  ASSUME TypeOK, NEW s \in Sites, NEW e \in Entry, Apply(s, e)
  PROVE  /\ db' \in [Sites -> [Rows -> Contents]]
         /\ recon' \in [Sites -> SUBSET Entry]
         /\ applied' \in [Sites -> Seq(Nat)]
<1>1. e.kind \in AllKinds /\ e.val \in Nat /\ e.row \in Rows /\ e.uid \in Nat
  BY KindsAssumption, ValsAssumption DEF Entry
<1>2. Effect(e.kind, e.val, db[s][e.row]) \in Contents
  BY <1>1, EffectType DEF TypeOK
<1>3. applied' \in [Sites -> Seq(Nat)]
  <2>1. Append(applied[s], e.uid) \in Seq(Nat)
    BY <1>1, AppendProperties DEF TypeOK
  <2> QED
    BY <2>1 DEF Apply, TypeOK
<1>4. recon' \in [Sites -> SUBSET Entry] /\ db' \in [Sites -> [Rows -> Contents]]
  <2>1. PICK throws \in ReplayFaults :
          IF \/ Decide(Entity[e.row], OpOf(e.kind), s) = "conflict"
             \/ OpOf(e.kind) = "update" /\ ~Matches(e.kind, e.val, db[s][e.row])
             \/ throws
          THEN /\ recon' = [recon EXCEPT ![s] = @ \cup {e}]
               /\ UNCHANGED db
          ELSE /\ db' = [db EXCEPT ![s][e.row] = Effect(e.kind, e.val, db[s][e.row])]
               /\ UNCHANGED recon
    BY DEF Apply
  <2>2. CASE recon' = [recon EXCEPT ![s] = @ \cup {e}] /\ UNCHANGED db
    BY <2>2 DEF TypeOK
  <2>3. CASE /\ db' = [db EXCEPT ![s][e.row] = Effect(e.kind, e.val, db[s][e.row])]
             /\ UNCHANGED recon
    BY <1>1, <1>2, <2>3 DEF TypeOK
  <2> QED
    BY <2>1, <2>2, <2>3
<1> QED
  BY <1>3, <1>4

LEMMA ExecuteType ==
  ASSUME TypeOK, NEW s \in Sites, NEW e \in Entry, Execute(s, e)
  PROVE  /\ db' \in [Sites -> [Rows -> Contents]]
         /\ writes' \in [Sites -> Nat]
         /\ born' \subseteq Rows
<1>1. e.kind \in AllKinds /\ e.val \in Nat /\ e.row \in Rows /\ e.uid \in Nat
  BY KindsAssumption, ValsAssumption DEF Entry
<1>2. Effect(e.kind, e.val, db[s][e.row]) \in Contents
  BY <1>1, EffectType DEF TypeOK
<1> QED
  BY <1>1, <1>2 DEF Execute, TypeOK

LEMMA NewEntryType ==
  ASSUME TypeOK, NEW s \in Sites, NEW r \in Rows, NEW k \in Kinds, NEW v \in Vals
  PROVE  NewEntry(s, r, k, v) \in Entry
BY KindsAssumption, ValsAssumption DEF TypeOK, NewEntry, Entry

\* Every way a request is changed leaves a request.
LEMMA RequestUpdates ==
  ASSUME NEW r \in Request, NEW p \in Nat, NEW l \in Nat
  PROVE  /\ FreeSlot \in Request
         /\ [r EXCEPT !.st = "applying", !.last = l] \in Request
         /\ [r EXCEPT !.pos = p] \in Request
         /\ [r EXCEPT !.pos = p, !.last = l] \in Request
         /\ [r EXCEPT !.st = "done"] \in Request
         /\ [r EXCEPT !.awaited = FALSE] \in Request
<1>1. FreeSlot \in Request
  BY DEF FreeSlot, Request, SlotStates
<1>2. [r EXCEPT !.st = "applying", !.last = l] \in Request
  BY Zenon DEF Request, SlotStates
<1>3. [r EXCEPT !.pos = p] \in Request
  BY Zenon DEF Request
<1>4. [r EXCEPT !.pos = p, !.last = l] \in Request
  BY Zenon DEF Request
<1>5. [r EXCEPT !.st = "done"] \in Request
  BY Zenon DEF Request, SlotStates
<1>6. [r EXCEPT !.awaited = FALSE] \in Request
  BY Zenon DEF Request
<1> QED
  BY <1>1, <1>2, <1>3, <1>4, <1>5, <1>6

\* The request PushSends makes.
LEMMA SentType ==
  ASSUME NEW e \in Nat, NEW n \in Nat, NEW q \in Seq(Entry)
  PROVE  [FreeSlot EXCEPT !.st = "arrived", !.awaited = TRUE, !.epoch = e,
                          !.base = n, !.batch = q] \in Request
BY DEF FreeSlot, Request, SlotStates

LEMMA IdleType == Idle \in Cycle
BY DEF Idle, Cycle, DaemonPcs

\* Every way the cycle is changed leaves a cycle.
LEMMA CyclePc ==
  ASSUME NEW d \in Cycle, NEW c \in DaemonPcs
  PROVE  [d EXCEPT !.pc = c] \in Cycle
BY Zenon DEF Cycle

LEMMA CycleRound ==
  ASSUME NEW d \in Cycle, NEW c \in DaemonPcs, NEW n \in Nat
  PROVE  [d EXCEPT !.pc = c, !.round = n] \in Cycle
BY Zenon DEF Cycle

LEMMA CyclePos ==
  ASSUME NEW d \in Cycle, NEW n \in Nat
  PROVE  [d EXCEPT !.pos = n] \in Cycle
BY Zenon DEF Cycle

LEMMA CycleFetched ==
  ASSUME NEW d \in Cycle, NEW c \in DaemonPcs, NEW b \in Nat, NEW n \in Nat,
         NEW q \in Seq(Entry)
  PROVE  [d EXCEPT !.pc = c, !.base = b, !.pos = n, !.fetched = q] \in Cycle
BY Zenon DEF Cycle

LEMMA AbandonedType ==
  ASSUME TypeOK
  PROVE  Abandoned \in [Slots -> Request]
<1> SUFFICES ASSUME NEW i \in Slots
             PROVE  Abandoned[i] \in Request
  BY DEF Abandoned
<1>1. /\ FreeSlot \in Request
      /\ [push[i] EXCEPT !.awaited = FALSE] \in Request
  BY RequestUpdates DEF TypeOK
<1> QED
  BY <1>1 DEF Abandoned

LEMMA StrikeType ==
  ASSUME TypeOK, NEW f \in FaultKinds, Strike(f)
  PROVE  faults' \in [FaultKinds -> Nat]
BY DEF TypeOK, Strike

LEMMA InitType == Init => TypeOK
BY RowsAssumption
DEF Init, TypeOK, Cycle, Request, Idle, FreeSlot, SlotStates, DaemonPcs, Contents,
    Absent, Sites

LEMMA NextType == TypeOK /\ [Next]_vars => TypeOK'
<1> SUFFICES ASSUME TypeOK, [Next]_vars PROVE TypeOK'
  OBVIOUS
<1>1. ASSUME NEW s \in Sites, NEW r \in Rows, NEW k \in Kinds, NEW v \in Vals,
             Run(s, r, k, v) \/ Batch(s, r, k, v)
      PROVE  TypeOK'
  <2> DEFINE e == NewEntry(s, r, k, v)
  <2>1. e \in Entry
    BY NewEntryType
  <2>2. Execute(s, e)
    BY <1>1 DEF Run, Batch
  <2>3. /\ db' \in [Sites -> [Rows -> Contents]]
        /\ writes' \in [Sites -> Nat]
        /\ born' \subseteq Rows
    BY <2>1, <2>2, ExecuteType
  <2>4. Append(journal[s], e) \in Seq(Entry)
    BY <2>1, AppendProperties DEF TypeOK
  <2>5. CASE Run(s, r, k, v)
    BY <2>1, <2>3, <2>5 DEF Run, TypeOK, box
  <2>6. CASE Batch(s, r, k, v)
    BY <2>3, <2>4, <2>6 DEF Batch, TypeOK, box
  <2> QED
    BY <1>1, <2>5, <2>6
<1>2. ASSUME NEW s \in Sites, NEW e \in pending[s], Capture(s, e)
      PROVE  TypeOK'
  <2>1. Append(journal[s], e) \in Seq(Entry)
    BY AppendProperties DEF TypeOK
  <2> QED
    BY <1>2, <2>1 DEF Capture, TypeOK, box, hist
<1>3. ASSUME NEW s \in Sites, NEW e \in pending[s], CaptureFails(s, e)
      PROVE  TypeOK'
  <2>1. faults' \in [FaultKinds -> Nat]
    BY <1>3, StrikeType DEF CaptureFails, FaultKinds
  <2>2. e.row \in Rows
    BY DEF TypeOK, Entry
  <2> QED
    BY <1>3, <2>1, <2>2 DEF CaptureFails, TypeOK, box, hist
<1>4. ASSUME NEW i \in Slots, HandlerStarts(i) \/ HandlerSkips(i) \/ HandlerFinishes(i)
      PROVE  TypeOK'
  <2> DEFINE rewound == cloudIn.epoch # 0 /\ cloudIn.epoch # push[i].epoch
             l == IF rewound THEN 0 ELSE cloudIn.last
             r == push[i]
  <2>0. r \in Request /\ l \in Nat /\ r.pos + 1 \in Nat
    BY DEF TypeOK, Request
  <2>1. CASE HandlerStarts(i)
    <3>1. push' = [push EXCEPT ![i] = [r EXCEPT !.st = "applying", !.last = l]]
      BY <2>1 DEF HandlerStarts, StartFrom
    <3>2. [r EXCEPT !.st = "applying", !.last = l] \in Request
      BY <2>0, RequestUpdates
    <3> QED
      BY <2>1, <3>1, <3>2 DEF HandlerStarts, TypeOK, box, hist, StartFrom
  <2>2. CASE HandlerSkips(i)
    <3>1. push' = [push EXCEPT ![i] = [r EXCEPT !.pos = r.pos + 1]]
      BY <2>2 DEF HandlerSkips, Fresh, AtSeq
    <3>2. [r EXCEPT !.pos = r.pos + 1] \in Request
      BY <2>0, RequestUpdates
    <3> QED
      BY <2>2, <3>1, <3>2 DEF HandlerSkips, TypeOK, box, hist, Fresh, AtSeq
  <2>3. CASE HandlerFinishes(i)
    <3>1. FreeSlot \in Request /\ [r EXCEPT !.st = "done"] \in Request
      BY <2>0, RequestUpdates
    <3>2. [last |-> r.last, epoch |-> r.epoch] \in [last : Nat, epoch : Nat]
      BY <2>0 DEF Request
    <3> QED
      BY <2>3, <3>1, <3>2 DEF HandlerFinishes, TypeOK, box, hist, LastSeq
  <2> QED
    BY <1>4, <2>1, <2>2, <2>3
<1>5. ASSUME NEW i \in Slots, HandlerApplies(i)
      PROVE  TypeOK'
  <2> DEFINE r == push[i]
             l == r.base + r.pos + 1
  <2>0. r \in Request /\ l \in Nat /\ r.pos + 1 \in Nat
    BY DEF TypeOK, Request
  <2>1. r.batch[r.pos + 1] \in Entry
    BY <1>5, <2>0 DEF HandlerApplies, Request, Fresh, AtSeq
  <2>2. /\ db' \in [Sites -> [Rows -> Contents]]
        /\ recon' \in [Sites -> SUBSET Entry]
        /\ applied' \in [Sites -> Seq(Nat)]
    BY <1>5, <2>1, ApplyType DEF HandlerApplies, Sites, Fresh, AtSeq
  <2>3. push' = [push EXCEPT ![i] = [r EXCEPT !.pos = r.pos + 1, !.last = l]]
    BY <1>5 DEF HandlerApplies, Fresh, AtSeq
  <2>4. [r EXCEPT !.pos = r.pos + 1, !.last = l] \in Request
    BY <2>0, RequestUpdates
  <2> QED
    BY <1>5, <2>2, <2>3, <2>4 DEF HandlerApplies, TypeOK, box, hist, Fresh, AtSeq
<1>6. ASSUME NEW i \in Slots, HandlerDies(i)
      PROVE  TypeOK'
  <2>1. faults' \in [FaultKinds -> Nat]
    BY <1>6, StrikeType DEF HandlerDies, FaultKinds
  <2>2. FreeSlot \in Request /\ Idle \in Cycle
    BY DEF FreeSlot, Request, SlotStates, Idle, Cycle, DaemonPcs
  <2> QED
    BY <1>6, <2>1, <2>2 DEF HandlerDies, TypeOK, hist
<1>7. CASE Beat \/ PushHasNothing \/ PullHasNothing \/ PullAdvances \/ Prune
  <2>0. /\ daemon \in Cycle /\ daemon.round + 1 \in Nat
        /\ daemon.base + daemon.pos \in Nat
    BY DEF TypeOK, Cycle
  <2>a. /\ Idle \in Cycle
        /\ \A c \in DaemonPcs :
              /\ [Idle EXCEPT !.pc = c] \in Cycle
              /\ [Idle EXCEPT !.pc = c, !.round = daemon.round + 1] \in Cycle
    BY <2>0, IdleType, CyclePc, CycleRound
  <2>1. CASE Beat
    BY <2>1, <2>a DEF Beat, TypeOK, hist, DaemonPcs
  <2>2. CASE PushHasNothing
    BY <2>2, <2>a DEF PushHasNothing, TypeOK, hist, DaemonPcs
  <2>3. CASE PullHasNothing
    BY <2>3, <2>a DEF PullHasNothing, TypeOK, hist, DaemonPcs
  <2>4. CASE PullAdvances
    BY <2>4, <2>0, <2>a DEF PullAdvances, TypeOK, hist, DaemonPcs
  <2>5. CASE Prune
    <3>1. pruned' \in Nat
      <4>1. PICK n \in pruned .. Larger(pruned, outCur) : pruned' = n
        BY <2>5 DEF Prune, Prunable
      <4> QED
        BY <4>1 DEF TypeOK
    <3> QED
      BY <2>5, <2>a, <3>1 DEF Prune, TypeOK, hist, Prunable
  <2> QED
    BY <1>7, <2>1, <2>2, <2>3, <2>4, <2>5
<1>8. ASSUME NEW i \in Slots, PushSends(i)
      PROVE  TypeOK'
  <2> DEFINE since == Larger(outCur, pruned)
  <2>1. since \in Nat /\ since < Len(journal["local"]) /\ journal["local"] \in Seq(Entry)
    BY <1>8 DEF PushSends, TypeOK, Larger, Sites
  <2>2. After(journal["local"], since) \in Seq(Entry)
    BY <2>1, AfterProperties
  <2>3. [FreeSlot EXCEPT !.st = "arrived", !.awaited = TRUE, !.epoch = epoch,
                         !.base = since, !.batch = After(journal["local"], since)]
          \in Request
    BY <2>1, <2>2, SentType DEF TypeOK
  <2>4. [daemon EXCEPT !.pc = "awaiting"] \in Cycle
    BY CyclePc DEF TypeOK, DaemonPcs
  <2> QED
    BY <1>8, <2>3, <2>4 DEF PushSends, TypeOK, hist
<1>9. ASSUME NEW i \in Slots, PushAcked(i)
      PROVE  TypeOK'
  <2>1. push[i].last \in Nat /\ daemon.round + 1 \in Nat /\ daemon \in Cycle
    BY DEF TypeOK, Request, Cycle
  <2>2. FreeSlot \in Request
    BY DEF FreeSlot, Request, SlotStates
  <2>3. /\ [daemon EXCEPT !.pc = "pushing", !.round = daemon.round + 1] \in Cycle
        /\ [Idle EXCEPT !.pc = "pulling"] \in Cycle
    BY <2>1, IdleType, CyclePc, CycleRound DEF DaemonPcs
  <2> QED
    BY <1>9, <2>1, <2>2, <2>3 DEF PushAcked, TypeOK, hist, Progress
<1>10. CASE PullFetches
  <2>1. After(journal["cloud"], inCur) \in Seq(Entry)
    BY <1>10, AfterProperties DEF PullFetches, TypeOK, Sites
  <2>2. [daemon EXCEPT !.pc = "applying", !.base = inCur, !.pos = 0,
                       !.fetched = After(journal["cloud"], inCur)] \in Cycle
    BY <2>1, CycleFetched DEF TypeOK, DaemonPcs
  <2> QED
    BY <1>10, <2>2 DEF PullFetches, TypeOK, hist
<1>11. CASE PullApplies
  <2>1. daemon.fetched[daemon.pos + 1] \in Entry /\ daemon.pos + 1 \in Nat
    BY <1>11 DEF PullApplies, TypeOK, Cycle
  <2>2. /\ db' \in [Sites -> [Rows -> Contents]]
        /\ recon' \in [Sites -> SUBSET Entry]
        /\ applied' \in [Sites -> Seq(Nat)]
    BY <1>11, <2>1, ApplyType DEF PullApplies, Sites
  <2>3. [daemon EXCEPT !.pos = daemon.pos + 1] \in Cycle
    BY <2>1, CyclePos DEF TypeOK
  <2> QED
    BY <1>11, <2>2, <2>3 DEF PullApplies, TypeOK, hist
<1>12. CASE Timeout
  <2>1. faults' \in [FaultKinds -> Nat]
    BY <1>12, StrikeType DEF Timeout, FaultKinds
  <2> QED
    BY <1>12, <2>1, AbandonedType, IdleType DEF Timeout, TypeOK, hist
<1>13. CASE Crash
  <2>1. faults' \in [FaultKinds -> Nat]
    BY <1>13, StrikeType DEF Crash, FaultKinds
  <2>2. {e.row : e \in pending["local"]} \subseteq Rows
    BY DEF TypeOK, Entry, Sites
  <2> QED
    BY <1>13, <2>1, <2>2, AbandonedType, IdleType DEF Crash, TypeOK, hist
<1>14. CASE Reimage
  <2>1. faults' \in [FaultKinds -> Nat]
    BY <1>14, StrikeType DEF Reimage, FaultKinds
  <2>2. [r \in Rows |-> Absent] \in [Rows -> Contents]
    BY DEF Contents
  <2>3. <<>> \in Seq(Entry) /\ <<>> \in Seq(Nat)
    OBVIOUS
  <2>4. /\ db' \in [Sites -> [Rows -> Contents]]
        /\ pending' \in [Sites -> SUBSET Entry]
        /\ journal' \in [Sites -> Seq(Entry)]
        /\ recon' \in [Sites -> SUBSET Entry]
        /\ applied' \in [Sites -> Seq(Nat)]
    BY <1>14, <2>2, <2>3 DEF Reimage, TypeOK
  <2> QED
    BY <1>14, <2>1, <2>4, AbandonedType, IdleType DEF Reimage, TypeOK, hist
<1>15. CASE UNCHANGED vars
  BY <1>15 DEF vars, box, hist, TypeOK
<1> QED
  BY <1>1, <1>2, <1>3, <1>4, <1>5, <1>6, <1>7, <1>8, <1>9, <1>10, <1>11, <1>12,
     <1>13, <1>14, <1>15
  DEF Next, Write, Journals, Fails, Loses, Daemon, Pushes, Pulls, Handler

\* Every state has the types the code gives its rows, cursors and requests.
THEOREM TypeCorrect == Spec => []TypeOK
BY InitType, NextType, PTL DEF Spec

-----------------------------------------------------------------------------
(***************************************************************************)
(* Nothing is lost.  NothingLost is not inductive: a cursor moves to what a*)
(* request or a cycle holds, so the invariant also says what every request *)
(* in the air and the cycle under way stand for.  A request of an earlier  *)
(* journal stands for nothing, which is why the epoch is compared.         *)
(***************************************************************************)

\* The cloud has gone through the n-th entry of the box's journal.
Taken(n) == /\ n <= Len(journal["local"])
            /\ journal["local"][n].uid \in Handled("cloud")

\* The box has gone through the n-th entry of the cloud's journal.
Collected(n) == /\ n <= Len(journal["cloud"])
                /\ journal["cloud"][n].uid \in Handled("local")

\* A request of the present journal carries a slice of it, and what it has
\* gone through or been told about was taken.
Carries(q) ==
  q.st # "free" /\ q.epoch = epoch =>
    /\ q.pos <= Len(q.batch)
    /\ \A k \in 1 .. Len(q.batch) : /\ q.base + k <= Len(journal["local"])
                                    /\ q.batch[k] = journal["local"][q.base + k]
    /\ \A n \in 1 .. q.base + q.pos : Taken(n)
    /\ q.st # "arrived" => \A n \in 1 .. q.last : Taken(n)

RequestOK(q) == /\ q.epoch <= epoch
                /\ q.awaited => q.epoch = epoch
                /\ q.st # "free" => q.epoch # 0
                /\ Carries(q)

CursorsOK ==
  /\ \A n \in 1 .. outCur : Taken(n)
  /\ \A n \in 1 .. pruned : Taken(n)
  /\ cloudIn.epoch <= epoch
  /\ cloudIn.epoch = 0 => cloudIn.last = 0
  /\ cloudIn.epoch = epoch => \A n \in 1 .. cloudIn.last : Taken(n)

PushInv == CursorsOK /\ \A i \in Slots : RequestOK(push[i])

CycleOK ==
  daemon.pc = "applying" =>
    /\ daemon.pos <= Len(daemon.fetched)
    /\ \A k \in 1 .. Len(daemon.fetched) :
          /\ daemon.base + k <= Len(journal["cloud"])
          /\ daemon.fetched[k] = journal["cloud"][daemon.base + k]
    /\ \A n \in 1 .. daemon.base + daemon.pos : Collected(n)

PullInv == (\A n \in 1 .. inCur : Collected(n)) /\ CycleOK

\* The n first entries of site s's journal are what they were.
Kept(s) == \A n \in 1 .. Len(journal[s]) : /\ n <= Len(journal'[s])
                                          /\ journal'[s][n] = journal[s][n]

\* Neither a journal nor what was gone through ever shrinks.
Grows == \A s \in Sites : Kept(s) /\ Handled(s) \subseteq Handled(s)'

LEMMA ApplyHandles ==
  ASSUME TypeOK, NEW s \in Sites, NEW e \in Entry, Apply(s, e)
  PROVE  /\ Handled(s)' = Handled(s) \cup {e.uid}
         /\ \A t \in Sites : t # s => Handled(t)' = Handled(t)
<1> DEFINE q == applied[s]
           q2 == Append(q, e.uid)
<1>1. q \in Seq(Nat) /\ e.uid \in Nat
  BY DEF TypeOK, Entry
<1>2. applied'[s] = q2 /\ \A t \in Sites : t # s => applied'[t] = applied[t]
  BY DEF Apply, TypeOK
<1>3. {q2[n] : n \in 1 .. Len(q2)} = {q[n] : n \in 1 .. Len(q)} \cup {e.uid}
  BY <1>1, HandledAppend
<1>4. Handled(s)' = Handled(s) \cup {e.uid}
  BY <1>2, <1>3 DEF Handled
<1>5. \A t \in Sites : t # s => Handled(t)' = Handled(t)
  BY <1>2 DEF Handled
<1> QED
  BY <1>4, <1>5

LEMMA AppendKeeps ==
  ASSUME TypeOK, NEW t \in Sites, NEW e \in Entry,
         journal' = [journal EXCEPT ![t] = Append(@, e)]
  PROVE  \A s \in Sites : Kept(s)
<1> SUFFICES ASSUME NEW s \in Sites PROVE Kept(s)
  OBVIOUS
<1>1. journal[s] \in Seq(Entry)
  BY DEF TypeOK
<1>2. CASE s = t
  <2>1. journal'[s] = Append(journal[s], e)
    BY <1>2 DEF TypeOK
  <2>2. /\ Len(Append(journal[s], e)) = Len(journal[s]) + 1
        /\ \A n \in 1 .. Len(journal[s]) : Append(journal[s], e)[n] = journal[s][n]
    BY <1>1, AppendProperties
  <2>3. Len(journal[s]) \in Nat
    BY <1>1
  <2> QED
    BY <2>1, <2>2, <2>3 DEF Kept
<1>3. CASE s # t
  <2>1. journal'[s] = journal[s] /\ Len(journal[s]) \in Nat
    BY <1>1, <1>3 DEF TypeOK
  <2> QED
    BY <2>1 DEF Kept
<1> QED
  BY <1>2, <1>3

\* A step that leaves both alone.
LEMMA StillGrows ==
  ASSUME TypeOK, UNCHANGED <<journal, applied>>
  PROVE  Grows
<1>1. \A s \in Sites : Len(journal[s]) \in Nat
  BY DEF TypeOK
<1> QED
  BY <1>1 DEF Grows, Kept, Handled

LEMMA JournalsGrow ==
  ASSUME TypeOK, [Next]_vars, epoch' = epoch
  PROVE  Grows
<1>1. ASSUME NEW s \in Sites, NEW r \in Rows, NEW k \in Kinds, NEW v \in Vals,
             Run(s, r, k, v) \/ Batch(s, r, k, v)
      PROVE  Grows
  <2>1. CASE Run(s, r, k, v)
    BY <2>1, StillGrows DEF Run
  <2>2. CASE Batch(s, r, k, v)
    <3>1. NewEntry(s, r, k, v) \in Entry
      BY NewEntryType
    <3>2. \A t \in Sites : Kept(t)
      BY <2>2, <3>1, AppendKeeps DEF Batch
    <3> QED
      BY <2>2, <3>2 DEF Batch, Grows, Handled
  <2> QED
    BY <1>1, <2>1, <2>2
<1>2. ASSUME NEW s \in Sites, NEW e \in pending[s], Capture(s, e)
      PROVE  Grows
  <2>1. e \in Entry
    BY DEF TypeOK
  <2>2. \A t \in Sites : Kept(t)
    BY <1>2, <2>1, AppendKeeps DEF Capture
  <2> QED
    BY <1>2, <2>2 DEF Capture, Grows, Handled
<1>3. ASSUME NEW s \in Sites, NEW e \in Entry, Apply(s, e), UNCHANGED journal
      PROVE  Grows
  <2>1. \A t \in Sites : Len(journal[t]) \in Nat
    BY DEF TypeOK
  <2> QED
    BY <1>3, <2>1, ApplyHandles DEF Grows, Kept
<1>4. ASSUME NEW i \in Slots, HandlerApplies(i)
      PROVE  Grows
  <2>1. push[i].batch[push[i].pos + 1] \in Entry
    BY <1>4 DEF HandlerApplies, TypeOK, Request, Fresh, AtSeq
  <2> QED
    BY <1>3, <1>4, <2>1 DEF HandlerApplies, Sites, Fresh, AtSeq
<1>5. CASE PullApplies
  <2>1. daemon.fetched[daemon.pos + 1] \in Entry
    BY <1>5 DEF PullApplies, TypeOK, Cycle
  <2> QED
    BY <1>3, <1>5, <2>1 DEF PullApplies, Sites
<1>6. CASE \E s \in Sites : \E e \in pending[s] : CaptureFails(s, e)
  BY <1>6, StillGrows DEF CaptureFails
<1>7. CASE \E i \in Slots : HandlerStarts(i) \/ HandlerSkips(i) \/ HandlerFinishes(i)
                             \/ HandlerDies(i)
  BY <1>7, StillGrows DEF HandlerStarts, HandlerSkips, HandlerFinishes, HandlerDies, StartFrom,
                          Fresh, AtSeq, LastSeq
<1>8. CASE PushHasNothing \/ \E i \in Slots : PushSends(i) \/ PushAcked(i)
  BY <1>8, StillGrows DEF PushHasNothing, PushSends, PushAcked, Progress
<1>9. CASE PullFetches \/ PullHasNothing \/ PullAdvances
  BY <1>9, StillGrows DEF PullFetches, PullHasNothing, PullAdvances
<1>10. CASE Beat \/ Prune \/ Timeout \/ Crash
  BY <1>10, StillGrows DEF Beat, Prune, Timeout, Crash, Prunable
<1>11. CASE Reimage
  BY <1>11 DEF Reimage, TypeOK
<1>12. CASE UNCHANGED vars
  BY <1>12, StillGrows DEF vars
<1> QED
  BY <1>1, <1>2, <1>4, <1>5, <1>6, <1>7, <1>8, <1>9, <1>10, <1>11, <1>12
  DEF Next, Write, Journals, Fails, Loses, Daemon, Pushes, Pulls, Handler

\* So an entry once taken, or collected, remains so.
LEMMA TakenStays ==
  ASSUME TypeOK, Grows, NEW n \in Nat \ {0}
  PROVE  /\ Taken(n) => Taken(n)'
         /\ Collected(n) => Collected(n)'
<1>1. /\ journal["local"] \in Seq(Entry) /\ journal["cloud"] \in Seq(Entry)
      /\ Len(journal["local"]) \in Nat /\ Len(journal["cloud"]) \in Nat
  BY DEF TypeOK, Sites
<1>2. /\ Kept("local") /\ Kept("cloud")
      /\ Handled("local") \subseteq Handled("local")'
      /\ Handled("cloud") \subseteq Handled("cloud")'
  BY DEF Grows, Sites
<1> QED
  BY <1>1, <1>2 DEF Taken, Collected, Kept

LEMMA CarriesStays ==
  ASSUME TypeOK, Grows, epoch' = epoch, NEW q \in Request, Carries(q)
  PROVE  Carries(q)'
<1> SUFFICES ASSUME q.st # "free", q.epoch = epoch
             PROVE  /\ q.pos <= Len(q.batch)
                    /\ \A k \in 1 .. Len(q.batch) :
                          /\ q.base + k <= Len(journal'["local"])
                          /\ q.batch[k] = journal'["local"][q.base + k]
                    /\ \A n \in 1 .. q.base + q.pos : Taken(n)'
                    /\ q.st # "arrived" => \A n \in 1 .. q.last : Taken(n)'
  BY DEF Carries
<1>1. /\ q.pos \in Nat /\ q.base \in Nat /\ q.last \in Nat /\ q.batch \in Seq(Entry)
      /\ Len(q.batch) \in Nat /\ Len(journal["local"]) \in Nat
  BY DEF Request, TypeOK, Sites
<1>2. /\ q.pos <= Len(q.batch)
      /\ \A k \in 1 .. Len(q.batch) : /\ q.base + k <= Len(journal["local"])
                                      /\ q.batch[k] = journal["local"][q.base + k]
      /\ \A n \in 1 .. q.base + q.pos : Taken(n)
      /\ q.st # "arrived" => \A n \in 1 .. q.last : Taken(n)
  BY DEF Carries
<1>3. \A n \in Nat \ {0} : Taken(n) => Taken(n)'
  BY TakenStays
<1>4. Kept("local")
  BY DEF Grows, Sites
<1>5. \A k \in 1 .. Len(q.batch) : /\ q.base + k <= Len(journal'["local"])
                                   /\ q.batch[k] = journal'["local"][q.base + k]
  <2> SUFFICES ASSUME NEW k \in 1 .. Len(q.batch)
               PROVE  /\ q.base + k <= Len(journal'["local"])
                      /\ q.batch[k] = journal'["local"][q.base + k]
    OBVIOUS
  <2>1. q.base + k \in 1 .. Len(journal["local"])
    BY <1>1, <1>2
  <2> QED
    BY <1>2, <1>4, <2>1 DEF Kept
<1> QED
  BY <1>1, <1>2, <1>3, <1>5

LEMMA RequestStays ==
  ASSUME TypeOK, Grows, epoch' = epoch, NEW q \in Request, RequestOK(q)
  PROVE  RequestOK(q)'
BY CarriesStays DEF RequestOK

LEMMA FreeSlotOK == ASSUME TypeOK PROVE RequestOK(FreeSlot)
BY DEF TypeOK, RequestOK, Carries, FreeSlot

LEMMA CursorsStay ==
  ASSUME TypeOK, CursorsOK, Grows, UNCHANGED <<epoch, outCur, pruned, cloudIn>>
  PROVE  CursorsOK'
<1>1. \A n \in Nat \ {0} : Taken(n) => Taken(n)'
  BY TakenStays
<1>2. outCur \in Nat /\ pruned \in Nat /\ cloudIn.last \in Nat
  BY DEF TypeOK
<1> QED
  BY <1>1, <1>2 DEF CursorsOK

LEMMA PushInvInit == Init => PushInv
BY DEF Init, PushInv, CursorsOK, RequestOK, Carries, FreeSlot

\* Steps after which each request is what it was, gone, or unawaited.
LEMMA RequestsFrame ==
  ASSUME TypeOK, PushInv, Grows, epoch' = epoch, CursorsOK',
         \A i \in Slots : push'[i] \in {push[i], FreeSlot, [push[i] EXCEPT !.awaited = FALSE]}
  PROVE  PushInv'
<1>1. ASSUME NEW i \in Slots
      PROVE  RequestOK(push[i])'
  <2>1. PICK q \in Request : q = push[i]
    BY DEF TypeOK
  <2>2. RequestOK(q)'
    BY <2>1, RequestStays DEF PushInv
  <2>3. RequestOK([q EXCEPT !.awaited = FALSE])'
    BY <2>2 DEF Request, RequestOK, Carries
  <2>4. RequestOK(FreeSlot)'
    BY DEF RequestOK, Carries, FreeSlot, TypeOK
  <2>5. push'[i] \in {q, FreeSlot, [q EXCEPT !.awaited = FALSE]}
    BY <2>1
  <2>6. CASE push'[i] = q
    BY <2>2, <2>6 DEF RequestOK, Carries
  <2>7. CASE push'[i] = [q EXCEPT !.awaited = FALSE]
    BY <2>3, <2>7 DEF RequestOK, Carries
  <2>8. CASE push'[i] = FreeSlot
    BY <2>4, <2>8 DEF RequestOK, Carries, FreeSlot
  <2> QED
    BY <2>5, <2>6, <2>7, <2>8
<1> QED
  BY <1>1 DEF PushInv

\* A step that changes one request.
LEMMA OneRequest ==
  ASSUME TypeOK, PushInv, Grows, epoch' = epoch, CursorsOK',
         NEW i \in Slots, NEW r \in Request, RequestOK(r)',
         push' = [push EXCEPT ![i] = r]
  PROVE  PushInv'
<1>1. ASSUME NEW j \in Slots
      PROVE  RequestOK(push[j])'
  <2>1. PICK q \in Request : q = push[j]
    BY DEF TypeOK
  <2>2. RequestOK(q)'
    BY <2>1, RequestStays DEF PushInv
  <2>3. CASE push'[j] = q
    BY <2>2, <2>3 DEF RequestOK, Carries
  <2>4. CASE push'[j] = r
    BY <2>4 DEF RequestOK, Carries
  <2> QED
    BY <2>1, <2>3, <2>4 DEF TypeOK
<1> QED
  BY <1>1 DEF PushInv

LEMMA StartKeeps ==
  ASSUME TypeOK, PushInv, Grows, NEW i \in Slots, HandlerStarts(i)
  PROVE  PushInv'
<1> USE DEF HandlerStarts, box, StartFrom
<1>1. PICK q \in Request : q = push[i]
  BY DEF TypeOK
<1> DEFINE l == IF cloudIn.epoch # 0 /\ cloudIn.epoch # q.epoch THEN 0 ELSE cloudIn.last
<1>2. PICK m \in Nat : m = l
  BY DEF TypeOK
<1> DEFINE r == [q EXCEPT !.st = "applying", !.last = m]
<1>3. push' = [push EXCEPT ![i] = r] /\ r \in Request
  BY <1>1, <1>2, RequestUpdates
<1>4. CursorsOK'
  BY CursorsStay DEF PushInv
<1>5. RequestOK(q)'
  BY <1>1, RequestStays DEF PushInv
<1>6. q.epoch = epoch => \A n \in 1 .. m : Taken(n)'
  <2>1. \A n \in Nat \ {0} : Taken(n) => Taken(n)'
    BY TakenStays
  <2> SUFFICES ASSUME q.epoch = epoch, NEW n \in 1 .. m PROVE Taken(n)
    BY <1>2, <2>1
  <2>2. m # 0 => cloudIn.epoch = q.epoch /\ m = cloudIn.last
    BY <1>2 DEF PushInv, CursorsOK
  <2> QED
    BY <1>2, <2>2 DEF PushInv, CursorsOK
<1>7. /\ r.awaited = q.awaited /\ r.epoch = q.epoch /\ r.base = q.base
      /\ r.batch = q.batch /\ r.pos = q.pos /\ r.last = m /\ r.st = "applying"
      /\ q.st = "arrived"
  BY <1>1 DEF Request
<1>8. RequestOK(r)'
  BY <1>5, <1>6, <1>7 DEF RequestOK, Carries
<1> QED
  BY <1>3, <1>4, <1>8, OneRequest

LEMMA SkipKeeps ==
  ASSUME TypeOK, PushInv, Grows, NEW i \in Slots, HandlerSkips(i)
  PROVE  PushInv'
<1> USE DEF HandlerSkips, box, Fresh, AtSeq
<1>1. PICK q \in Request : q = push[i]
  BY DEF TypeOK
<1>2. /\ q.pos \in Nat /\ q.base \in Nat /\ q.last \in Nat
      /\ q.batch \in Seq(Entry) /\ Len(q.batch) \in Nat
  BY DEF Request
<1> DEFINE r == [q EXCEPT !.pos = q.pos + 1]
<1>3. push' = [push EXCEPT ![i] = r] /\ r \in Request
  <2>1. push' = [push EXCEPT ![i] = r]
    BY <1>1
  <2>2. q.pos + 1 \in Nat
    BY <1>2
  <2> QED
    BY <2>1, <2>2, RequestUpdates
<1>4. CursorsOK'
  BY CursorsStay DEF PushInv
<1>5. RequestOK(q)'
  BY <1>1, RequestStays DEF PushInv
<1>6. /\ r.awaited = q.awaited /\ r.epoch = q.epoch /\ r.base = q.base
      /\ r.batch = q.batch /\ r.pos = q.pos + 1 /\ r.last = q.last
      /\ r.st = q.st /\ q.st = "applying"
      /\ q.pos < Len(q.batch) /\ q.base + q.pos + 1 <= q.last
  BY <1>1 DEF Request
<1>7. RequestOK(r)'
  BY <1>2, <1>5, <1>6 DEF RequestOK, Carries
<1> QED
  BY <1>3, <1>4, <1>7, OneRequest

LEMMA ApplyKeeps ==
  ASSUME TypeOK, PushInv, Grows, NEW i \in Slots, HandlerApplies(i)
  PROVE  PushInv'
<1>1. PICK q \in Request : q = push[i]
  BY DEF TypeOK
<1>2. /\ q.pos \in Nat /\ q.base \in Nat /\ q.last \in Nat
      /\ q.batch \in Seq(Entry) /\ Len(q.batch) \in Nat
  BY DEF Request
<1>3. PICK n \in Nat : n = q.base + q.pos + 1
  BY <1>2
<1>4. PICK r \in Request : r = [q EXCEPT !.pos = q.pos + 1, !.last = n]
  <2>1. q.pos + 1 \in Nat
    BY <1>2
  <2>2. [q EXCEPT !.pos = q.pos + 1, !.last = n] \in Request
    BY <2>1, RequestUpdates
  <2> QED
    BY <2>2
<1>5. /\ q.st = "applying" /\ q.pos < Len(q.batch)
      /\ Apply("cloud", q.batch[q.pos + 1])
      /\ push' = [push EXCEPT ![i] = r]
      /\ journal' = journal /\ epoch' = epoch
      /\ UNCHANGED <<outCur, pruned, cloudIn>>
  BY <1>1, <1>3, <1>4 DEF HandlerApplies, box, Fresh, AtSeq
<1>6. CursorsOK'
  BY <1>5, CursorsStay DEF PushInv
<1>7. RequestOK(q) /\ RequestOK(q)'
  BY <1>1, <1>5, RequestStays DEF PushInv
<1>8. /\ r.awaited = q.awaited /\ r.epoch = q.epoch /\ r.base = q.base
      /\ r.batch = q.batch /\ r.pos = q.pos + 1 /\ r.last = n /\ r.st = q.st
  BY <1>4 DEF Request
<1>9. ASSUME q.epoch = epoch PROVE Taken(n)'
  <2>1. PICK k \in 1 .. Len(q.batch) : k = q.pos + 1 /\ q.base + k = n
    BY <1>2, <1>3, <1>5
  <2>2. q.batch[k] \in Entry
    BY <1>2, <2>1
  <2>3. q.batch[k].uid \in Handled("cloud")'
    BY <1>5, <2>1, <2>2, ApplyHandles DEF Sites
  <2>4. n <= Len(journal["local"]) /\ q.batch[k] = journal["local"][n]
    BY <1>5, <1>7, <1>9, <2>1 DEF RequestOK, Carries
  <2> QED
    BY <1>5, <2>3, <2>4 DEF Taken
<1>10. RequestOK(r)'
  BY <1>2, <1>3, <1>5, <1>7, <1>8, <1>9 DEF RequestOK, Carries
<1> QED
  BY <1>5, <1>6, <1>10, OneRequest

LEMMA FinishKeeps ==
  ASSUME TypeOK, PushInv, Grows, NEW i \in Slots, HandlerFinishes(i)
  PROVE  PushInv'
<1> USE DEF HandlerFinishes, box, LastSeq
<1>1. PICK q \in Request : q = push[i]
  BY DEF TypeOK
<1>2. RequestOK(q)' /\ q.last \in Nat /\ q.st = "applying"
  BY <1>1, RequestStays DEF PushInv, Request
<1>3. CursorsOK'
  <2>1. \A n \in Nat \ {0} : Taken(n) => Taken(n)'
    BY TakenStays
  <2>2. /\ \A n \in 1 .. outCur' : Taken(n)'
        /\ \A n \in 1 .. pruned' : Taken(n)'
    <3>1. outCur' = outCur /\ pruned' = pruned /\ outCur \in Nat /\ pruned \in Nat
      BY DEF TypeOK
    <3> QED
      BY <2>1, <3>1 DEF PushInv, CursorsOK
  <2>3. cloudIn' = [last |-> q.last, epoch |-> q.epoch]
    BY <1>1
  <2> QED
    BY <1>2, <2>2, <2>3 DEF CursorsOK, RequestOK, Carries
<1>4. CASE q.awaited
  <2> DEFINE r == [q EXCEPT !.st = "done"]
  <2>1. push' = [push EXCEPT ![i] = r] /\ r \in Request
    BY <1>1, <1>4, RequestUpdates
  <2>2. /\ r.awaited = q.awaited /\ r.epoch = q.epoch /\ r.base = q.base
        /\ r.batch = q.batch /\ r.pos = q.pos /\ r.last = q.last /\ r.st = "done"
    BY DEF Request
  <2>3. RequestOK(r)'
    BY <1>2, <2>2 DEF RequestOK, Carries
  <2> QED
    BY <1>3, <2>1, <2>3, OneRequest
<1>5. CASE ~q.awaited
  <2>1. push' = [push EXCEPT ![i] = FreeSlot]
    BY <1>1, <1>5
  <2> QED
    BY <1>3, <2>1, RequestsFrame DEF TypeOK
<1> QED
  BY <1>4, <1>5

LEMMA SendKeeps ==
  ASSUME TypeOK, PushInv, Grows, NEW i \in Slots, PushSends(i)
  PROVE  PushInv'
<1>1. PICK since \in Nat : since = Larger(outCur, pruned)
  BY DEF Larger, TypeOK
<1>2. journal["local"] \in Seq(Entry) /\ since < Len(journal["local"]) /\ epoch \in Nat \ {0}
  BY <1>1 DEF PushSends, TypeOK, Sites
<1>3. PICK q \in Seq(Entry) : q = After(journal["local"], since)
  BY <1>1, <1>2, AfterProperties
<1>4. PICK e \in Nat : e = epoch
  BY <1>2
<1>5. PICK r \in Request : r = [FreeSlot EXCEPT !.st = "arrived", !.awaited = TRUE,
                                     !.epoch = e, !.base = since, !.batch = q]
  BY SentType
<1>6. /\ push' = [push EXCEPT ![i] = r] /\ journal' = journal /\ epoch' = epoch
      /\ UNCHANGED <<outCur, pruned, cloudIn>>
  BY <1>1, <1>3, <1>4, <1>5 DEF PushSends
<1>7. /\ r.awaited = TRUE /\ r.epoch = e /\ r.base = since /\ r.batch = q
      /\ r.pos = 0 /\ r.st = "arrived"
  BY <1>5 DEF FreeSlot
<1>8. CursorsOK'
  BY <1>6, CursorsStay DEF PushInv
<1>9. \A n \in 1 .. since : Taken(n)'
  BY <1>1, <1>6, <1>8 DEF Larger, CursorsOK
<1>10. /\ Len(q) \in Nat
       /\ \A k \in 1 .. Len(q) : /\ since + k <= Len(journal["local"])
                                /\ q[k] = journal["local"][since + k]
  <2>1. /\ since + Len(q) <= Len(journal["local"])
        /\ \A k \in 1 .. Len(q) : q[k] = journal["local"][since + k]
    BY <1>1, <1>2, <1>3, AfterProperties
  <2> QED
    BY <1>1, <1>2, <1>3, <2>1
<1>11. RequestOK(r)'
  <2>1. r.epoch <= epoch' /\ r.epoch = epoch' /\ r.epoch # 0
    BY <1>2, <1>4, <1>6, <1>7
  <2>2. \A n \in 1 .. r.base + r.pos : Taken(n)'
    BY <1>7, <1>9
  <2>3. /\ r.pos <= Len(r.batch)
        /\ \A k \in 1 .. Len(r.batch) : /\ r.base + k <= Len(journal'["local"])
                                       /\ r.batch[k] = journal'["local"][r.base + k]
    BY <1>6, <1>7, <1>10
  <2> QED
    BY <1>7, <2>1, <2>2, <2>3 DEF RequestOK, Carries
<1> QED
  BY <1>5, <1>6, <1>8, <1>11, OneRequest

LEMMA AckKeeps ==
  ASSUME TypeOK, PushInv, Grows, NEW i \in Slots, PushAcked(i)
  PROVE  PushInv'
<1>1. PICK q \in Request : q = push[i]
  BY DEF TypeOK
<1>2. /\ q.st = "done" /\ q.awaited /\ outCur' \in {q.last, outCur}
      /\ push' = [push EXCEPT ![i] = FreeSlot] /\ epoch' = epoch
      /\ UNCHANGED <<pruned, cloudIn>>
  BY <1>1 DEF PushAcked, Progress
<1>3. RequestOK(q)
  BY <1>1 DEF PushInv
<1>4. \A n \in 1 .. q.last : Taken(n)
  BY <1>2, <1>3 DEF RequestOK, Carries
<1>5. CursorsOK'
  <2>1. \A n \in Nat \ {0} : Taken(n) => Taken(n)'
    BY TakenStays
  <2>2. outCur \in Nat /\ pruned \in Nat /\ cloudIn.last \in Nat /\ q.last \in Nat
    BY DEF TypeOK, Request
  <2>3. \A n \in 1 .. outCur' : Taken(n)'
    BY <1>2, <1>4, <2>1, <2>2 DEF PushInv, CursorsOK
  <2>4. \A n \in 1 .. pruned' : Taken(n)'
    BY <1>2, <2>1, <2>2 DEF PushInv, CursorsOK
  <2>5. cloudIn'.epoch = epoch' => \A n \in 1 .. cloudIn'.last : Taken(n)'
    BY <1>2, <2>1, <2>2 DEF PushInv, CursorsOK
  <2> QED
    BY <1>2, <2>3, <2>4, <2>5 DEF PushInv, CursorsOK
<1> QED
  BY <1>2, <1>5, RequestsFrame DEF TypeOK

LEMMA PruneKeeps ==
  ASSUME TypeOK, PushInv, Grows, Prune
  PROVE  PushInv'
<1>1. PICK n \in pruned .. Larger(pruned, outCur) : pruned' = n
  BY DEF Prune, Prunable
<1>2. UNCHANGED <<epoch, outCur, cloudIn, push>>
  BY DEF Prune, Prunable
<1>3. outCur \in Nat /\ pruned \in Nat /\ cloudIn.last \in Nat
  BY DEF TypeOK
<1>4. \A k \in Nat \ {0} : Taken(k) => Taken(k)'
  BY TakenStays
<1>5. CursorsOK'
  <2>1. \A k \in 1 .. n : Taken(k)
    BY <1>1, <1>3 DEF PushInv, CursorsOK, Larger
  <2> QED
    BY <1>1, <1>2, <1>3, <1>4, <2>1 DEF PushInv, CursorsOK
<1> QED
  BY <1>2, <1>5, RequestsFrame

LEMMA ReimageKeeps ==
  ASSUME TypeOK, PushInv, Reimage
  PROVE  PushInv'
<1>1. /\ epoch' = epoch + 1 /\ outCur' = 0 /\ pruned' = 0 /\ push' = Abandoned
      /\ cloudIn' = cloudIn /\ epoch \in Nat /\ cloudIn.epoch \in Nat
  BY DEF Reimage, TypeOK
<1>2. CursorsOK'
  BY <1>1 DEF PushInv, CursorsOK
<1>3. ASSUME NEW i \in Slots
      PROVE  RequestOK(push[i])'
  <2>1. PICK q \in Request : q = push[i]
    BY DEF TypeOK
  <2>2. RequestOK(q) /\ q.epoch \in Nat
    BY <2>1 DEF PushInv, Request
  <2>3. CASE push'[i] = FreeSlot
    BY <1>1, <2>3 DEF RequestOK, Carries, FreeSlot
  <2>4. CASE push'[i] = [q EXCEPT !.awaited = FALSE]
    <3>1. push'[i].awaited = FALSE /\ push'[i].epoch = q.epoch /\ push'[i].st = q.st
      BY <2>4 DEF Request
    <3> QED
      BY <1>1, <2>2, <3>1 DEF RequestOK, Carries
  <2> QED
    BY <1>1, <2>1, <2>3, <2>4 DEF Abandoned
<1> QED
  BY <1>2, <1>3 DEF PushInv

LEMMA PushInvNext == TypeOK /\ PushInv /\ [Next]_vars => PushInv'
<1> SUFFICES ASSUME TypeOK, PushInv, [Next]_vars PROVE PushInv'
  OBVIOUS
<1>1. CASE Reimage
  BY <1>1, ReimageKeeps
<1>2. CASE ~Reimage
  <2>1. epoch' = epoch
    BY <1>2
    DEF vars, box, Next, Write, Journals, Fails, Loses, Daemon, Pushes, Pulls, Handler,
        Run, Batch, Capture, CaptureFails, HandlerStarts, HandlerSkips, HandlerApplies,
        HandlerFinishes, HandlerDies, Beat, PushHasNothing, PushSends, PushAcked,
        Timeout, PullFetches, PullHasNothing, PullApplies, PullAdvances, Prune, Crash
  <2>2. Grows
    BY <2>1, JournalsGrow
  <2>3. CASE UNCHANGED <<outCur, pruned, cloudIn>> /\ push' \in {push, Abandoned}
    <3>1. CursorsOK'
      BY <2>1, <2>2, <2>3, CursorsStay DEF PushInv
    <3> QED
      BY <2>1, <2>2, <2>3, <3>1, RequestsFrame DEF Abandoned
  <2>4. ASSUME NEW i \in Slots, HandlerDies(i) PROVE PushInv'
    <3>1. CursorsOK'
      BY <2>1, <2>2, <2>4, CursorsStay DEF PushInv, HandlerDies
    <3> QED
      BY <2>1, <2>2, <2>4, <3>1, RequestsFrame DEF HandlerDies, TypeOK
  <2>5. CASE \E i \in Slots : \/ Handler(i) \/ PushSends(i) \/ PushAcked(i)
    BY <2>2, <2>5, StartKeeps, SkipKeeps, ApplyKeeps, FinishKeeps, SendKeeps, AckKeeps
    DEF Handler
  <2>6. CASE Prune
    BY <2>2, <2>6, PruneKeeps
  <2>7. CASE Write \/ Journals \/ Loses
    BY <2>3, <2>7 DEF Write, Journals, Loses, Run, Batch, Capture, CaptureFails, box
  <2>8. CASE Beat \/ PushHasNothing \/ Pulls
    BY <2>3, <2>8 DEF Beat, PushHasNothing, Pulls, PullFetches, PullHasNothing,
                      PullApplies, PullAdvances
  <2>9. CASE Timeout \/ Crash
    BY <2>3, <2>9 DEF Timeout, Crash
  <2>10. CASE UNCHANGED vars
    BY <2>3, <2>10 DEF vars, box
  <2> QED
    BY <1>2, <2>4, <2>5, <2>6, <2>7, <2>8, <2>9, <2>10 DEF Next, Fails, Daemon, Pushes
<1> QED
  BY <1>1, <1>2

LEMMA PullInvInit == Init => PullInv
BY DEF Init, PullInv, CycleOK, Idle

\* Steps that leave the pull alone, or end it.
LEMMA PullInvFrame ==
  ASSUME TypeOK, PullInv, Grows, inCur' = inCur,
         daemon' = daemon \/ daemon'.pc # "applying"
  PROVE  PullInv'
<1>1. \A n \in Nat \ {0} : Collected(n) => Collected(n)'
  BY TakenStays
<1>2. \A n \in 1 .. inCur' : Collected(n)'
  BY <1>1 DEF PullInv, TypeOK
<1>3. CASE daemon'.pc # "applying"
  BY <1>2, <1>3 DEF PullInv, CycleOK
<1>4. CASE daemon' = daemon /\ daemon.pc = "applying"
  <2>1. PICK d \in Cycle : d = daemon
    BY DEF TypeOK
  <2>2. /\ d.pos \in Nat /\ d.base \in Nat /\ Len(d.fetched) \in Nat
        /\ Len(journal["cloud"]) \in Nat
    BY DEF Cycle, TypeOK, Sites
  <2>3. /\ d.pos <= Len(d.fetched)
        /\ \A k \in 1 .. Len(d.fetched) : /\ d.base + k <= Len(journal["cloud"])
                                         /\ d.fetched[k] = journal["cloud"][d.base + k]
        /\ \A n \in 1 .. d.base + d.pos : Collected(n)
    BY <1>4, <2>1 DEF PullInv, CycleOK
  <2>4. \A n \in 1 .. d.base + d.pos : Collected(n)'
    BY <1>1, <2>2, <2>3
  <2>5. ASSUME NEW k \in 1 .. Len(d.fetched)
        PROVE  /\ d.base + k <= Len(journal'["cloud"])
               /\ d.fetched[k] = journal'["cloud"][d.base + k]
    <3>1. d.base + k \in 1 .. Len(journal["cloud"])
      BY <2>2, <2>3
    <3> QED
      BY <2>3, <3>1 DEF Grows, Kept, Sites
  <2>6. daemon' = d
    BY <1>4, <2>1
  <2> QED
    BY <1>2, <2>3, <2>4, <2>5, <2>6 DEF PullInv, CycleOK
<1> QED
  BY <1>3, <1>4

LEMMA FetchKeeps ==
  ASSUME TypeOK, PullInv, Grows, PullFetches
  PROVE  PullInv'
<1>1. PICK since \in Nat : since = inCur
  BY DEF TypeOK
<1>2. journal["cloud"] \in Seq(Entry) /\ since < Len(journal["cloud"])
  BY <1>1 DEF PullFetches, TypeOK, Sites
<1>3. PICK q \in Seq(Entry) : q = After(journal["cloud"], since)
  BY <1>1, <1>2, AfterProperties
<1>4. /\ daemon'.pc = "applying" /\ daemon'.base = since /\ daemon'.pos = 0
      /\ daemon'.fetched = q /\ journal' = journal /\ inCur' = since
  BY <1>1, <1>3 DEF PullFetches, TypeOK, Cycle
<1>5. \A n \in 1 .. since : Collected(n)'
  <2>1. \A n \in Nat \ {0} : Collected(n) => Collected(n)'
    BY TakenStays
  <2> QED
    BY <1>1, <2>1 DEF PullInv
<1>6. /\ Len(q) \in Nat /\ since + Len(q) <= Len(journal["cloud"])
      /\ \A k \in 1 .. Len(q) : q[k] = journal["cloud"][since + k]
  BY <1>2, <1>3, AfterProperties
<1>7. \A k \in 1 .. Len(q) : /\ since + k <= Len(journal'["cloud"])
                            /\ q[k] = journal'["cloud"][since + k]
  BY <1>2, <1>4, <1>6
<1> QED
  BY <1>4, <1>5, <1>6, <1>7 DEF PullInv, CycleOK

LEMMA CollectKeeps ==
  ASSUME TypeOK, PullInv, Grows, PullApplies
  PROVE  PullInv'
<1>1. PICK d \in Cycle : d = daemon
  BY DEF TypeOK
<1>2. /\ d.pos \in Nat /\ d.base \in Nat /\ d.fetched \in Seq(Entry)
      /\ Len(d.fetched) \in Nat
  BY DEF Cycle
<1>3. /\ d.pc = "applying" /\ d.pos < Len(d.fetched)
      /\ Apply("local", d.fetched[d.pos + 1])
      /\ daemon' = [d EXCEPT !.pos = d.pos + 1]
      /\ journal' = journal /\ inCur' = inCur
  BY <1>1 DEF PullApplies
<1>4. /\ daemon'.pos = d.pos + 1 /\ daemon'.base = d.base
      /\ daemon'.fetched = d.fetched
  BY <1>3 DEF Cycle
<1>5. /\ \A k \in 1 .. Len(d.fetched) : /\ d.base + k <= Len(journal["cloud"])
                                       /\ d.fetched[k] = journal["cloud"][d.base + k]
      /\ \A n \in 1 .. d.base + d.pos : Collected(n)
  BY <1>1, <1>3 DEF PullInv, CycleOK
<1>6. \A n \in Nat \ {0} : Collected(n) => Collected(n)'
  BY TakenStays
<1>7. PICK k \in 1 .. Len(d.fetched) : k = d.pos + 1
  BY <1>2, <1>3
<1>8. Collected(d.base + k)'
  <2>1. d.fetched[k] \in Entry
    BY <1>2, <1>7
  <2>2. d.fetched[k].uid \in Handled("local")'
    BY <1>3, <1>7, <2>1, ApplyHandles DEF Sites
  <2> QED
    BY <1>3, <1>5, <2>2 DEF Collected
<1>9. \A n \in 1 .. d.base + (d.pos + 1) : Collected(n)'
  <2> SUFFICES ASSUME NEW n \in 1 .. d.base + (d.pos + 1) PROVE Collected(n)'
    OBVIOUS
  <2>1. n \in 1 .. d.base + d.pos \/ n = d.base + k
    BY <1>2, <1>7
  <2>2. n \in Nat \ {0}
    BY <1>2
  <2> QED
    BY <1>5, <1>6, <1>8, <2>1, <2>2
<1>10. \A n \in 1 .. inCur' : Collected(n)'
  <2>1. inCur \in Nat
    BY DEF TypeOK
  <2> QED
    BY <1>3, <1>6, <2>1 DEF PullInv
<1> QED
  BY <1>2, <1>3, <1>4, <1>5, <1>9, <1>10 DEF PullInv, CycleOK

LEMMA AdvanceKeeps ==
  ASSUME TypeOK, PullInv, Grows, PullAdvances
  PROVE  PullInv'
<1>1. PICK d \in Cycle : d = daemon
  BY DEF TypeOK
<1>2. d.pos \in Nat /\ d.base \in Nat
  BY DEF Cycle
<1>3. d.pc = "applying" /\ inCur' = d.base + d.pos /\ daemon'.pc # "applying"
  BY <1>1 DEF PullAdvances, Idle
<1>4. \A n \in 1 .. d.base + d.pos : Collected(n)
  BY <1>1, <1>3 DEF PullInv, CycleOK
<1>5. \A n \in Nat \ {0} : Collected(n) => Collected(n)'
  BY TakenStays
<1> QED
  BY <1>2, <1>3, <1>4, <1>5 DEF PullInv, CycleOK

LEMMA PullInvNext == TypeOK /\ PullInv /\ [Next]_vars => PullInv'
<1> SUFFICES ASSUME TypeOK, PullInv, [Next]_vars PROVE PullInv'
  OBVIOUS
<1>1. CASE Reimage
  BY <1>1 DEF Reimage, PullInv, CycleOK, Idle
<1>2. CASE ~Reimage
  <2>1. epoch' = epoch
    BY <1>2
    DEF vars, box, Next, Write, Journals, Fails, Loses, Daemon, Pushes, Pulls, Handler,
        Run, Batch, Capture, CaptureFails, HandlerStarts, HandlerSkips, HandlerApplies,
        HandlerFinishes, HandlerDies, Beat, PushHasNothing, PushSends, PushAcked,
        Timeout, PullFetches, PullHasNothing, PullApplies, PullAdvances, Prune, Crash
  <2>2. Grows
    BY <2>1, JournalsGrow
  <2>3. CASE UNCHANGED <<inCur, daemon>>
    BY <2>2, <2>3, PullInvFrame
  <2>4. CASE inCur' = inCur /\ daemon'.pc # "applying"
    BY <2>2, <2>4, PullInvFrame
  <2>5. CASE Write \/ Journals \/ Loses \/ \E i \in Slots : Handler(i)
    BY <2>3, <2>5 DEF Write, Journals, Loses, Run, Batch, Capture, CaptureFails, box,
       Handler, HandlerStarts, HandlerSkips, HandlerApplies, HandlerFinishes
  <2>6. CASE \E i \in Slots : HandlerDies(i)
    BY <2>3, <2>4, <2>6 DEF HandlerDies, Idle
  <2>7. CASE Beat \/ Prune \/ Timeout \/ Crash \/ PushHasNothing
    BY <2>4, <2>7 DEF Beat, Prune, Timeout, Crash, PushHasNothing, Idle, Prunable
  <2>8. CASE \E i \in Slots : PushSends(i) \/ PushAcked(i)
    <3> PICK i \in Slots : PushSends(i) \/ PushAcked(i)
      BY <2>8
    <3> DEFINE sent  == [daemon EXCEPT !.pc = "awaiting"]
               again == [daemon EXCEPT !.pc = "pushing", !.round = @ + 1]
               over  == [Idle EXCEPT !.pc = "pulling"]
    <3>a. sent.pc = "awaiting" /\ again.pc = "pushing" /\ over.pc = "pulling"
      BY DEF TypeOK, Cycle, Idle
    <3>b. daemon' \in {sent, again, over}
      BY DEF PushSends, PushAcked, Progress
    <3>1. daemon'.pc # "applying"
      BY <3>a, <3>b
    <3> QED
      BY <2>4, <2>8, <3>1 DEF PushSends, PushAcked, Progress
  <2>9. CASE PullFetches
    BY <2>2, <2>9, FetchKeeps
  <2>10. CASE PullHasNothing
    BY <2>4, <2>10 DEF PullHasNothing, Idle
  <2>11. CASE PullApplies
    BY <2>2, <2>11, CollectKeeps
  <2>12. CASE PullAdvances
    BY <2>2, <2>12, AdvanceKeeps
  <2>13. CASE UNCHANGED vars
    BY <2>3, <2>13 DEF vars, box
  <2> QED
    BY <1>2, <2>5, <2>6, <2>7, <2>8, <2>9, <2>10, <2>11, <2>12, <2>13
    DEF Next, Fails, Daemon, Pushes, Pulls
<1> QED
  BY <1>1, <1>2

\* A cursor of the box never passes an entry that was not gone through on the
\* other end of it, whatever times out, dies, restarts or overlaps (push, pull,
\* handlePush).
THEOREM CursorsLoseNothing == Spec => []NothingLost
<1>1. Init => TypeOK /\ PushInv /\ PullInv
  BY InitType, PushInvInit, PullInvInit
<1>2. TypeOK /\ PushInv /\ PullInv /\ [Next]_vars => TypeOK' /\ PushInv' /\ PullInv'
  BY NextType, PushInvNext, PullInvNext
<1>3. PushInv /\ PullInv => NothingLost
  BY DEF PushInv, CursorsOK, PullInv, NothingLost, Taken, Collected
<1> QED
  BY <1>1, <1>2, <1>3, PTL DEF Spec

\* What the box deletes from its journal, the cloud has taken (prune).
THEOREM PruningLosesNothing == Spec => []PrunedWasTaken
<1>1. Init => TypeOK /\ PushInv
  BY InitType, PushInvInit
<1>2. TypeOK /\ PushInv /\ [Next]_vars => TypeOK' /\ PushInv'
  BY NextType, PushInvNext
<1>3. PushInv => PrunedWasTaken
  BY DEF PushInv, CursorsOK, PrunedWasTaken, Taken
<1> QED
  BY <1>1, <1>2, <1>3, PTL DEF Spec

-----------------------------------------------------------------------------
(***************************************************************************)
(* Exactly once, in order.  The box's cursors and lastSeq are indices into *)
(* the other side's journal: while requests come one at a time, each stands*)
(* for the number of entries gone through whenever it is about to be used. *)
(***************************************************************************)

\* One request is served at a time, and neither the Worker nor the box dies in
\* the middle of one: answers may still be lost or late, and a write may still
\* go unjournalled.
OneAtATime   == \A i, j \in Slots : i = j
NothingDies  == \A f \in {"kill", "crash", "reimage"} : MaxFaults[f] = 0

\* Site s went through a first part of the other's journal.
Follows(s) ==
  /\ Len(applied[s]) <= Len(journal[Other(s)])
  /\ \A n \in 1 .. Len(applied[s]) : applied[s][n] = journal[Other(s)][n].uid

\* The entries are numbered by the writes.
Numbered(s) ==
  /\ \A e \in pending[s] : e.uid \in 1 .. MaxWrites[s]
  /\ \A n \in 1 .. Len(journal[s]) : journal[s][n].uid \in 1 .. MaxWrites[s]

\* A request never starts beyond what the cloud went through, and while it is
\* served its lastSeq is just that.
InLine(q) ==
  q.st # "free" => /\ q.base + q.pos <= Len(applied["cloud"])
                   /\ q.st # "arrived" => q.last = Len(applied["cloud"])

CloudInLine ==
  /\ epoch = 1
  /\ outCur <= Len(applied["cloud"]) /\ pruned <= Len(applied["cloud"])
  /\ (\A i \in Slots : push[i].st # "applying") => cloudIn.last = Len(applied["cloud"])
  /\ \A i \in Slots : InLine(push[i])

BoxInLine == Len(applied["local"]) = IF daemon.pc = "applying"
                                     THEN daemon.base + daemon.pos ELSE inCur

OnceInv == /\ \A s \in Sites : Follows(s) /\ Numbered(s)
           /\ CloudInLine /\ BoxInLine

LEMMA OnceInit == Init => OnceInv
<1> SUFFICES ASSUME Init PROVE OnceInv
  OBVIOUS
<1>1. /\ \A s \in Sites : /\ pending[s] = {} /\ journal[s] = <<>> /\ applied[s] = <<>>
      /\ Len(<<>>) = 0
  BY DEF Init
<1>2. \A s \in Sites : Other(s) \in Sites
  BY DEF Sites, Other
<1>3. \A s \in Sites : Follows(s) /\ Numbered(s)
  BY <1>1, <1>2 DEF Follows, Numbered
<1>4. CloudInLine /\ BoxInLine
  BY <1>1 DEF Init, CloudInLine, BoxInLine, InLine, FreeSlot, Idle, Sites
<1> QED
  BY <1>3, <1>4 DEF OnceInv

\* What was gone through, and the next entry of the other journal.
LEMMA TakesNext ==
  ASSUME TypeOK, NEW s \in Sites, NEW e \in Entry, Apply(s, e),
         \A t \in Sites : Follows(t) /\ Numbered(t), UNCHANGED <<pending, journal>>,
         Len(applied[s]) < Len(journal[Other(s)]),
         e = journal[Other(s)][Len(applied[s]) + 1]
  PROVE  /\ \A t \in Sites : Follows(t)' /\ Numbered(t)'
         /\ applied' = [applied EXCEPT ![s] = Append(@, e.uid)]
         /\ Len(applied'[s]) = Len(applied[s]) + 1
         /\ \A t \in Sites : t # s => applied'[t] = applied[t]
<1>1. applied[s] \in Seq(Nat) /\ e.uid \in Nat /\ Len(applied[s]) \in Nat
  BY DEF TypeOK, Entry
<1>2. /\ applied' = [applied EXCEPT ![s] = Append(@, e.uid)]
      /\ applied'[s] = Append(applied[s], e.uid)
      /\ \A t \in Sites : t # s => applied'[t] = applied[t]
  BY DEF Apply, TypeOK
<1>3. /\ Len(applied'[s]) = Len(applied[s]) + 1
      /\ applied'[s][Len(applied[s]) + 1] = e.uid
      /\ \A n \in 1 .. Len(applied[s]) : applied'[s][n] = applied[s][n]
  BY <1>1, <1>2, AppendProperties
<1>4. Other(s) \in Sites /\ Len(journal[Other(s)]) \in Nat
  BY DEF Sites, Other, TypeOK
<1>5. Follows(s)'
  <2> SUFFICES /\ Len(applied'[s]) <= Len(journal[Other(s)])
               /\ \A n \in 1 .. Len(applied'[s]) : applied'[s][n] = journal[Other(s)][n].uid
    BY DEF Follows
  <2>1. ASSUME NEW n \in 1 .. Len(applied'[s])
        PROVE  applied'[s][n] = journal[Other(s)][n].uid
    <3>1. n \in 1 .. Len(applied[s]) \/ n = Len(applied[s]) + 1
      BY <1>1, <1>3
    <3> QED
      BY <1>3, <3>1 DEF Follows
  <2> QED
    BY <1>1, <1>3, <1>4, <2>1
<1>6. \A t \in Sites : t # s => Follows(t)'
  BY <1>2 DEF Follows
<1> QED
  BY <1>2, <1>3, <1>5, <1>6 DEF Numbered

\* Writing and journalling.
LEMMA OnceWrites ==
  ASSUME TypeOK, OnceInv, Write \/ Journals \/ Loses
  PROVE  OnceInv'
<1>0. \A s \in Sites : /\ Other(s) \in Sites /\ journal[s] \in Seq(Entry)
                       /\ Len(journal[s]) \in Nat /\ Len(applied[s]) \in Nat
  BY DEF Sites, Other, TypeOK
<1>1. UNCHANGED <<box, cloudIn, push, applied>>
  BY DEF Write, Journals, Loses, Run, Batch, Capture, CaptureFails
<1>2. CloudInLine' /\ BoxInLine'
  BY <1>1 DEF OnceInv, CloudInLine, BoxInLine, InLine, box
<1>3. ASSUME NEW t \in Sites, NEW e \in Entry, e.uid \in 1 .. MaxWrites[t],
             journal' = [journal EXCEPT ![t] = Append(@, e)]
      PROVE  \A s \in Sites :
               /\ Follows(s)'
               /\ \A n \in 1 .. Len(journal'[s]) : journal'[s][n].uid \in 1 .. MaxWrites[s]
  <2>1. \A s \in Sites : Kept(s)
    BY <1>3, AppendKeeps
  <2>2. /\ Len(Append(journal[t], e)) = Len(journal[t]) + 1
        /\ \A n \in 1 .. Len(journal[t]) : Append(journal[t], e)[n] = journal[t][n]
        /\ Append(journal[t], e)[Len(journal[t]) + 1] = e
    BY <1>0, AppendProperties
  <2>3. /\ journal'[t] = Append(journal[t], e)
        /\ \A s \in Sites : s # t => journal'[s] = journal[s]
    BY <1>3 DEF TypeOK
  <2> TAKE s \in Sites
  <2>4. Follows(s)'
    <3> DEFINE o == Other(s)
    <3>1. Kept(o) /\ Follows(s) /\ Len(journal[o]) \in Nat /\ Len(applied[s]) \in Nat
      BY <1>0, <2>1 DEF OnceInv
    <3>2. Len(journal[o]) <= Len(journal'[o])
      BY <1>0, <2>2, <2>3
    <3>3. Len(journal'[o]) \in Nat
      BY <1>0, <2>2, <2>3
    <3> QED
      BY <1>1, <3>1, <3>2, <3>3 DEF Follows, Kept
  <2>5. ASSUME NEW n \in 1 .. Len(journal'[s])
        PROVE  journal'[s][n].uid \in 1 .. MaxWrites[s]
    <3>1. CASE s # t
      BY <2>3, <3>1 DEF OnceInv, Numbered
    <3>2. CASE s = t
      <4>1. n \in 1 .. Len(journal[t]) \/ n = Len(journal[t]) + 1
        BY <1>0, <2>2, <2>3, <3>2
      <4> QED
        BY <1>3, <2>2, <2>3, <3>2, <4>1 DEF OnceInv, Numbered
    <3> QED
      BY <3>1, <3>2
  <2> QED
    BY <2>4, <2>5
<1>4. ASSUME NEW s \in Sites, NEW r \in Rows, NEW k \in Kinds, NEW v \in Vals,
             Run(s, r, k, v) \/ Batch(s, r, k, v)
      PROVE  \A t \in Sites : Follows(t)' /\ Numbered(t)'
  <2> DEFINE e == NewEntry(s, r, k, v)
  <2>1. e \in Entry
    BY NewEntryType
  <2>2. e.uid \in 1 .. MaxWrites[s]
    BY <1>4, <2>1, BoundsAssumption DEF Run, Batch, Execute, TypeOK
  <2>3. CASE Run(s, r, k, v)
    BY <1>1, <2>2, <2>3 DEF Run, OnceInv, Follows, Numbered, TypeOK
  <2>4. CASE Batch(s, r, k, v)
    <3>1. journal' = [journal EXCEPT ![s] = Append(@, e)] /\ pending' = pending
      BY <2>4 DEF Batch
    <3> HIDE DEF e
    <3> QED
      BY <1>3, <2>1, <2>2, <3>1 DEF OnceInv, Numbered
  <2> QED
    BY <1>4, <2>3, <2>4
<1>5. ASSUME NEW s \in Sites, NEW e \in pending[s], Capture(s, e)
      PROVE  \A t \in Sites : Follows(t)' /\ Numbered(t)'
  <2>1. e \in Entry /\ e.uid \in 1 .. MaxWrites[s]
    BY DEF TypeOK, OnceInv, Numbered
  <2>2. \A t \in Sites : pending'[t] \subseteq pending[t]
    BY <1>5 DEF Capture, TypeOK
  <2> QED
    BY <1>3, <1>5, <2>1, <2>2 DEF Capture, OnceInv, Numbered
<1>6. ASSUME NEW s \in Sites, NEW e \in pending[s], CaptureFails(s, e)
      PROVE  \A t \in Sites : Follows(t)' /\ Numbered(t)'
  <2>1. \A t \in Sites : pending'[t] \subseteq pending[t]
    BY <1>6 DEF CaptureFails, TypeOK
  <2> QED
    BY <1>1, <1>6, <2>1 DEF CaptureFails, OnceInv, Numbered, Follows
<1> QED
  BY <1>2, <1>4, <1>5, <1>6 DEF OnceInv, Write, Journals, Loses

\* Steps that leave both journals and what was gone through alone.
LEMMA OnceFrame ==
  ASSUME OnceInv, UNCHANGED <<pending, journal, applied>>
  PROVE  \A s \in Sites : Follows(s)' /\ Numbered(s)'
BY DEF OnceInv, Follows, Numbered

\* The Worker's side of it: one step of the one request.
LEMMA OnceHandler ==
  ASSUME TypeOK, PushInv, OnceInv, OneAtATime, NEW i \in Slots, Handler(i)
  PROVE  OnceInv'
<1> DEFINE A == Len(applied["cloud"])
<1>1. PICK q \in Request : q = push[i]
  BY DEF TypeOK
<1>2. /\ q.pos \in Nat /\ q.base \in Nat /\ q.last \in Nat
      /\ q.batch \in Seq(Entry) /\ Len(q.batch) \in Nat
      /\ A \in Nat /\ Len(journal["local"]) \in Nat
  BY DEF Request, TypeOK, Sites
<1>3. /\ \A j \in Slots : j = i
      /\ q.st # "free" /\ epoch = 1 /\ UNCHANGED <<box, pending, journal>>
      /\ InLine(q) /\ RequestOK(q)
  BY <1>1 DEF OneAtATime, Handler, HandlerStarts, HandlerSkips, HandlerApplies,
              HandlerFinishes, OnceInv, CloudInLine, PushInv
<1>4. q.epoch = 1
  BY <1>1, <1>3 DEF RequestOK, Request
<1>5. q.base + q.pos <= A /\ (q.st # "arrived" => q.last = A)
  BY <1>3 DEF InLine
<1>6. outCur <= A /\ pruned <= A /\ (q.st # "applying" => cloudIn.last = A)
  BY <1>1, <1>3 DEF OnceInv, CloudInLine
<1>7. CASE HandlerStarts(i)
  <2>1. StartFrom(i) = A
    BY <1>1, <1>3, <1>4, <1>6, <1>7 DEF HandlerStarts, StartFrom, PushInv, CursorsOK,
       TypeOK
  <2>2. /\ push'[i].st = "applying" /\ push'[i].last = A
        /\ push'[i].base = q.base /\ push'[i].pos = q.pos
    BY <1>1, <1>7, <2>1 DEF HandlerStarts, TypeOK, Request
  <2>3. CloudInLine'
    BY <1>3, <1>5, <1>6, <1>7, <2>2 DEF HandlerStarts, CloudInLine, InLine, box
  <2> QED
    BY <1>3, <1>7, <2>3, OnceFrame DEF HandlerStarts, OnceInv, BoxInLine, box
<1>8. CASE HandlerSkips(i)
  <2>1. /\ push'[i].st = "applying" /\ push'[i].last = q.last /\ q.st = "applying"
        /\ push'[i].base = q.base /\ push'[i].pos = q.pos + 1
        /\ q.base + q.pos + 1 <= q.last
    BY <1>1, <1>2, <1>8 DEF HandlerSkips, TypeOK, Request, Fresh, AtSeq
  <2>2. q.base + (q.pos + 1) <= A
    BY <1>2, <1>5, <2>1
  <2>3. CloudInLine'
    BY <1>3, <1>5, <1>6, <1>8, <2>1, <2>2 DEF HandlerSkips, CloudInLine, InLine, box
  <2> QED
    BY <1>3, <1>8, <2>3, OnceFrame DEF HandlerSkips, OnceInv, BoxInLine, box
<1>9. CASE HandlerApplies(i)
  <2>1. /\ q.st = "applying" /\ q.pos < Len(q.batch) /\ q.base + q.pos + 1 > q.last
        /\ Apply("cloud", q.batch[q.pos + 1])
        /\ push' = [push EXCEPT ![i].pos = q.pos + 1, ![i].last = q.base + q.pos + 1]
    BY <1>1, <1>9 DEF HandlerApplies, Fresh, AtSeq
  <2>2. q.base + q.pos = A
    <3>1. PICK b \in Nat, p \in Nat, a \in Nat :
            b = q.base /\ p = q.pos /\ a = A /\ a = q.last
      BY <1>2, <1>5, <2>1
    <3>2. b + p <= a /\ b + p + 1 > a
      BY <1>5, <2>1, <3>1
    <3>3. b + p = a
      BY <3>2
    <3> QED
      BY <3>1, <3>3
  <2>3. PICK k \in 1 .. Len(q.batch) : k = q.pos + 1
    BY <1>2, <2>1
  <2>4. /\ q.batch[k] \in Entry
        /\ q.base + k <= Len(journal["local"]) /\ q.batch[k] = journal["local"][q.base + k]
    BY <1>2, <1>3, <1>4 DEF RequestOK, Carries
  <2>5. q.base + k = A + 1
    BY <1>2, <2>2, <2>3
  <2>6. /\ A < Len(journal["local"])
        /\ q.batch[k] = journal["local"][A + 1]
    BY <1>2, <2>4, <2>5
  <2>7. Other("cloud") = "local" /\ "cloud" \in Sites /\ "local" \in Sites
    BY DEF Other, Sites
  <2>8. /\ \A t \in Sites : Follows(t)' /\ Numbered(t)'
        /\ Len(applied'["cloud"]) = A + 1
        /\ applied'["local"] = applied["local"]
    BY <1>3, <2>1, <2>3, <2>4, <2>6, <2>7, TakesNext DEF OnceInv
  <2>9. /\ push'[i].st = "applying" /\ push'[i].last = q.base + q.pos + 1
        /\ push'[i].base = q.base /\ push'[i].pos = q.pos + 1
    BY <1>1, <2>1 DEF TypeOK, Request
  <2>10. q.base + (q.pos + 1) = A + 1 /\ q.base + q.pos + 1 = A + 1
    <3>1. q.base + (q.pos + 1) = q.base + q.pos + 1
      BY <1>2
    <3> QED
      BY <2>2, <3>1
  <2>11. outCur <= A + 1 /\ pruned <= A + 1
    BY <1>2, <1>6 DEF TypeOK
  <2>12. CloudInLine'
    BY <1>2, <1>3, <2>8, <2>9, <2>10, <2>11 DEF CloudInLine, InLine, box
  <2> QED
    BY <1>3, <2>8, <2>12 DEF OnceInv, BoxInLine, box
<1>10. CASE HandlerFinishes(i)
  <2>1. /\ q.st = "applying" /\ cloudIn'.last = q.last /\ applied' = applied
        /\ push' = [push EXCEPT ![i] = IF q.awaited THEN [q EXCEPT !.st = "done"]
                                                    ELSE FreeSlot]
    BY <1>1, <1>10 DEF HandlerFinishes, LastSeq
  <2>2. push'[i] = IF q.awaited THEN [q EXCEPT !.st = "done"] ELSE FreeSlot
    BY <2>1 DEF TypeOK
  <2>3. InLine(push'[i]) /\ push'[i].st # "applying"
    BY <1>2, <1>5, <2>1, <2>2 DEF InLine, FreeSlot, Request
  <2>4. CloudInLine'
    BY <1>3, <1>5, <1>6, <2>1, <2>3 DEF CloudInLine, InLine, box
  <2> QED
    BY <1>3, <2>1, <2>4, OnceFrame DEF OnceInv, BoxInLine, box
<1> QED
  BY <1>7, <1>8, <1>9, <1>10 DEF Handler

\* The box's side of it: one step of the cycle, or a lost answer.
LEMMA OnceDaemon ==
  ASSUME TypeOK, PullInv, OnceInv, OneAtATime, Daemon \/ Timeout
  PROVE  OnceInv'
<1> DEFINE A == Len(applied["cloud"])
           B == Len(applied["local"])
<1>1. PICK d \in Cycle : d = daemon
  BY DEF TypeOK
<1>2. /\ d.pos \in Nat /\ d.base \in Nat /\ d.fetched \in Seq(Entry)
      /\ Len(d.fetched) \in Nat /\ A \in Nat /\ B \in Nat
      /\ outCur \in Nat /\ pruned \in Nat /\ Len(journal["cloud"]) \in Nat
  BY DEF Cycle, TypeOK, Sites
<1>3. /\ epoch = 1 /\ outCur <= A /\ pruned <= A
      /\ \A i \in Slots : InLine(push[i])
      /\ (\A i \in Slots : push[i].st # "applying") => cloudIn.last = A
      /\ B = IF d.pc = "applying" THEN d.base + d.pos ELSE inCur
  BY <1>1 DEF OnceInv, CloudInLine, BoxInLine
<1>4. InLine(FreeSlot) /\ FreeSlot.st = "free" /\ Idle.pc = "idle"
      /\ \A c : [Idle EXCEPT !.pc = c].pc = c
  BY DEF InLine, FreeSlot, Idle
<1>5. CASE Beat \/ PushHasNothing \/ PullHasNothing
  <2>1. daemon'.pc \in DaemonPcs \ {"applying"} /\ d.pc # "applying"
        /\ UNCHANGED <<pruned, epoch, outCur, inCur, cloudIn, push, pending, journal, applied>>
    BY <1>1, <1>4, <1>5 DEF Beat, PushHasNothing, PullHasNothing, DaemonPcs
  <2> QED
    BY <1>3, <2>1, OnceFrame DEF OnceInv, CloudInLine, BoxInLine, InLine
<1>6. CASE PullFetches
  <2>1. /\ daemon'.pc = "applying" /\ daemon'.base = inCur /\ daemon'.pos = 0
        /\ d.pc = "pulling" /\ inCur \in Nat
        /\ UNCHANGED <<pruned, epoch, outCur, inCur, cloudIn, push, pending, journal, applied>>
    BY <1>1, <1>6 DEF PullFetches, TypeOK, Cycle
  <2>2. B = daemon'.base + daemon'.pos
    BY <1>3, <2>1
  <2> QED
    BY <1>3, <2>1, <2>2, OnceFrame DEF OnceInv, CloudInLine, BoxInLine, InLine
<1>7. CASE PullAdvances
  <2>1. /\ d.pc = "applying" /\ daemon'.pc # "applying" /\ inCur' = d.base + d.pos
        /\ UNCHANGED <<pruned, epoch, outCur, cloudIn, push, pending, journal, applied>>
    BY <1>1, <1>7 DEF PullAdvances, Idle
  <2> QED
    BY <1>3, <2>1, OnceFrame DEF OnceInv, CloudInLine, BoxInLine, InLine
<1>8. CASE Prune
  <2>1. PICK n \in pruned .. Larger(pruned, outCur) : pruned' = n
    BY <1>8 DEF Prune, Prunable
  <2>2. /\ d.pc = "pruning" /\ daemon'.pc = "idle"
        /\ UNCHANGED <<epoch, outCur, inCur, cloudIn, push, pending, journal, applied>>
    BY <1>1, <1>4, <1>8 DEF Prune
  <2>3. pruned' <= A
    BY <1>2, <1>3, <2>1 DEF Larger
  <2> QED
    BY <1>3, <2>2, <2>3, OnceFrame DEF OnceInv, CloudInLine, BoxInLine, InLine
<1>9. ASSUME NEW i \in Slots, PushSends(i)
      PROVE  OnceInv'
  <2>1. /\ daemon' = [daemon EXCEPT !.pc = "awaiting"] /\ d.pc = "pushing"
        /\ push[i].st = "free"
        /\ UNCHANGED <<pruned, epoch, outCur, inCur, cloudIn, pending, journal, applied>>
    BY <1>1, <1>9 DEF PushSends
  <2>2. daemon'.pc = "awaiting"
    BY <2>1 DEF TypeOK, Cycle
  <2>3. /\ push'[i].st = "arrived" /\ push'[i].pos = 0
        /\ push'[i].base = Larger(outCur, pruned)
    BY <1>9 DEF PushSends, FreeSlot, TypeOK
  <2>4. InLine(push'[i]) /\ push'[i].st # "applying" /\ push[i].st # "applying"
    BY <1>2, <1>3, <2>1, <2>3 DEF InLine, Larger
  <2>5. \A j \in Slots : j = i
    BY DEF OneAtATime
  <2>6. CloudInLine'
    BY <1>3, <2>1, <2>3, <2>4, <2>5 DEF CloudInLine, InLine
  <2> QED
    BY <1>3, <2>1, <2>2, <2>6, OnceFrame DEF OnceInv, BoxInLine
<1>10. ASSUME NEW i \in Slots, PushAcked(i)
       PROVE  OnceInv'
  <2>1. /\ push[i].st = "done" /\ d.pc = "awaiting"
        /\ outCur' \in {push[i].last, outCur}
        /\ push' = [push EXCEPT ![i] = FreeSlot]
        /\ UNCHANGED <<pruned, epoch, inCur, cloudIn, pending, journal, applied>>
    BY <1>1, <1>10 DEF PushAcked
  <2>2. push[i].last = A
    BY <1>3, <2>1 DEF InLine
  <2>3. daemon'.pc # "applying"
    <3>1. daemon' \in {[d EXCEPT !.pc = "pushing", !.round = @ + 1], [Idle EXCEPT !.pc = "pulling"]}
      BY <1>1, <1>10 DEF PushAcked
    <3> QED
      BY <1>4, <3>1 DEF Cycle
  <2>4. push'[i] = FreeSlot /\ \A j \in Slots : j = i
    BY <2>1 DEF OneAtATime, TypeOK
  <2>5. CloudInLine'
    BY <1>3, <1>4, <2>1, <2>2, <2>4 DEF CloudInLine, InLine
  <2> QED
    BY <1>3, <2>1, <2>3, <2>5, OnceFrame DEF OnceInv, BoxInLine
<1>11. CASE PullApplies
  <2>1. /\ d.pc = "applying" /\ d.pos < Len(d.fetched)
        /\ Apply("local", d.fetched[d.pos + 1])
        /\ daemon' = [d EXCEPT !.pos = d.pos + 1]
        /\ UNCHANGED <<pruned, epoch, outCur, inCur, cloudIn, push, pending, journal>>
    BY <1>1, <1>11 DEF PullApplies
  <2>2. PICK k \in 1 .. Len(d.fetched) : k = d.pos + 1
    BY <1>2, <2>1
  <2>3. /\ d.fetched[k] \in Entry /\ d.base + k <= Len(journal["cloud"])
        /\ d.fetched[k] = journal["cloud"][d.base + k]
    BY <1>1, <1>2, <2>1 DEF PullInv, CycleOK
  <2>4. B = d.base + d.pos /\ d.base + k = B + 1
    BY <1>2, <1>3, <2>1, <2>2
  <2>5. B < Len(journal["cloud"]) /\ d.fetched[k] = journal["cloud"][B + 1]
    BY <1>2, <2>3, <2>4
  <2>6. Other("local") = "cloud" /\ "cloud" \in Sites /\ "local" \in Sites
    BY DEF Other, Sites
  <2>7. /\ \A t \in Sites : Follows(t)' /\ Numbered(t)'
        /\ Len(applied'["local"]) = B + 1
        /\ applied'["cloud"] = applied["cloud"]
    BY <2>1, <2>2, <2>3, <2>5, <2>6, TakesNext DEF OnceInv
  <2>8. daemon'.pc = "applying" /\ daemon'.base = d.base /\ daemon'.pos = k
    BY <2>1, <2>2 DEF Cycle
  <2>9. CloudInLine'
    BY <1>3, <2>1, <2>7 DEF CloudInLine, InLine
  <2> QED
    BY <2>4, <2>7, <2>8, <2>9 DEF OnceInv, BoxInLine
<1>12. CASE Timeout
  <2>1. /\ d.pc # "applying" /\ daemon'.pc = "idle" /\ push' = Abandoned
        /\ UNCHANGED <<pruned, epoch, outCur, inCur, cloudIn, pending, journal, applied>>
    BY <1>1, <1>4, <1>12 DEF Timeout
  <2>2. ASSUME NEW i \in Slots
        PROVE  InLine(push'[i]) /\ (push'[i].st = "applying" <=> push[i].st = "applying")
    <3>1. PICK q \in Request : q = push[i]
      BY DEF TypeOK
    <3>2. push'[i] \in {FreeSlot, [q EXCEPT !.awaited = FALSE]}
          /\ (q.st = "applying" => push'[i] = [q EXCEPT !.awaited = FALSE])
      BY <2>1, <3>1 DEF Abandoned
    <3>3. InLine([q EXCEPT !.awaited = FALSE]) /\ [q EXCEPT !.awaited = FALSE].st = q.st
      BY <1>3, <3>1 DEF InLine, Request
    <3> QED
      BY <1>4, <3>1, <3>2, <3>3
  <2>3. CloudInLine'
    BY <1>3, <2>1, <2>2 DEF CloudInLine, InLine
  <2> QED
    BY <1>3, <2>1, <2>3, OnceFrame DEF OnceInv, BoxInLine
<1> QED
  BY <1>5, <1>6, <1>7, <1>8, <1>9, <1>10, <1>11, <1>12 DEF Daemon, Pushes, Pulls

\* A fault that has no budget does not strike.
LEMMA NobodyDies ==
  ASSUME TypeOK, NothingDies
  PROVE  ~Crash /\ ~Reimage /\ \A i \in Slots : ~HandlerDies(i)
<1>1. \A f \in {"kill", "crash", "reimage"} : ~(faults[f] < MaxFaults[f])
  BY DEF TypeOK, NothingDies, FaultKinds
<1> QED
  BY <1>1 DEF Crash, Reimage, HandlerDies, Strike

LEMMA OnceNext ==
  ASSUME TypeOK, PushInv, PullInv, OnceInv, OneAtATime, NothingDies, [Next]_vars
  PROVE  OnceInv'
<1>1. CASE UNCHANGED vars
  BY <1>1 DEF vars, box, OnceInv, Follows, Numbered, CloudInLine, BoxInLine, InLine
<1> QED
  BY <1>1, NobodyDies, OnceWrites, OnceHandler, OnceDaemon DEF Next, Fails

-----------------------------------------------------------------------------
(***************************************************************************)
(* The protocol implements Delivery: journalling an entry is a Send, going *)
(* through one is a Take, and everything else a stutter.                   *)
(***************************************************************************)
Uids(q) == [n \in 1 .. Len(q) |-> q[n].uid]

LEMMA UidsSeq ==
  ASSUME NEW q \in Seq(Entry)
  PROVE  Uids(q) \in Seq(Nat) /\ Len(Uids(q)) = Len(q)
<1>1. Len(q) \in Nat /\ \A n \in 1 .. Len(q) : q[n].uid \in Nat
  <2>1. Len(q) \in Nat /\ \A n \in 1 .. Len(q) : q[n] \in Entry
    BY LenProperties, ElementOfSeq
  <2> QED
    BY <2>1 DEF Entry
<1>2. Uids(q) \in [1 .. Len(q) -> Nat]
  BY <1>1 DEF Uids
<1>3. Uids(q) \in Seq(Nat)
  BY <1>1, <1>2, SeqDef
<1>4. DOMAIN Uids(q) = 1 .. Len(q) /\ DOMAIN Uids(q) = 1 .. Len(Uids(q)) /\ Len(Uids(q)) \in Nat
  BY <1>3, LenProperties DEF Uids
<1> QED
  BY <1>1, <1>3, <1>4

LEMMA UidsAppend ==
  ASSUME NEW q \in Seq(Entry), NEW e \in Entry
  PROVE  Uids(Append(q, e)) = Append(Uids(q), e.uid)
<1> DEFINE q2 == Append(q, e)
<1>1. /\ q2 \in Seq(Entry) /\ Len(q2) = Len(q) + 1 /\ Len(q) \in Nat /\ e.uid \in Nat
      /\ \A n \in 1 .. Len(q) : q2[n] = q[n]
      /\ q2[Len(q) + 1] = e
  BY AppendProperties DEF Entry
<1>2. /\ Uids(q) \in Seq(Nat) /\ Len(Uids(q)) = Len(q)
      /\ Uids(q2) \in Seq(Nat) /\ Len(Uids(q2)) = Len(q) + 1
  BY <1>1, UidsSeq
<1>3. /\ Append(Uids(q), e.uid) \in Seq(Nat)
      /\ Len(Append(Uids(q), e.uid)) = Len(q) + 1
      /\ \A n \in 1 .. Len(q) : Append(Uids(q), e.uid)[n] = Uids(q)[n]
      /\ Append(Uids(q), e.uid)[Len(q) + 1] = e.uid
  BY <1>1, <1>2, AppendProperties
<1>4. ASSUME NEW n \in 1 .. Len(q) + 1
      PROVE  Uids(q2)[n] = Append(Uids(q), e.uid)[n]
  <2>1. n \in 1 .. Len(q) \/ n = Len(q) + 1
    BY <1>1
  <2>2. Uids(q2)[n] = q2[n].uid
    BY <1>1 DEF Uids
  <2>3. n \in 1 .. Len(q) => Uids(q)[n] = q[n].uid
    BY DEF Uids
  <2> QED
    BY <1>1, <1>3, <2>1, <2>2, <2>3
<1> QED
  BY <1>2, <1>3, <1>4, SeqEqual

\* What Delivery calls sent and taken.
SentSoFar == [s \in Sites |-> Uids(journal[s])]
TakenSoFar == [s \in Sites |-> applied[Other(s)]]

LEMMA Sends ==
  ASSUME TypeOK, NEW s \in Sites, NEW e \in Entry, e.uid \in 1 .. MaxWrites[s],
         journal' = [journal EXCEPT ![s] = Append(@, e)], applied' = applied
  PROVE  DeliveryOf!Next
<1> DEFINE items == 1 .. Larger(MaxWrites["local"], MaxWrites["cloud"])
<1>1. e.uid \in items
  BY BoundsAssumption DEF Larger, Sites
<1>2. SentSoFar' = [SentSoFar EXCEPT ![s] = Append(@, e.uid)]
  <2>1. \A t \in Sites : journal'[t] = IF t = s THEN Append(journal[s], e) ELSE journal[t]
    BY DEF TypeOK
  <2>2. Uids(Append(journal[s], e)) = Append(Uids(journal[s]), e.uid)
    BY UidsAppend DEF TypeOK
  <2>3. /\ SentSoFar[s] = Uids(journal[s])
        /\ \A t \in Sites : SentSoFar'[t] = IF t = s THEN Append(SentSoFar[s], e.uid)
                                                  ELSE SentSoFar[t]
    <3>1. \A t \in Sites : SentSoFar[t] = Uids(journal[t]) /\ SentSoFar'[t] = Uids(journal'[t])
      BY DEF SentSoFar
    <3>2. ASSUME NEW t \in Sites
          PROVE  SentSoFar'[t] = IF t = s THEN Append(SentSoFar[s], e.uid) ELSE SentSoFar[t]
      <4>1. CASE t = s
        <5>1. journal'[s] = Append(journal[s], e)
          BY <2>1
        <5>2. SentSoFar'[s] = Uids(journal'[s]) /\ SentSoFar[s] = Uids(journal[s])
          BY <3>1
        <5> QED
          BY <2>2, <4>1, <5>1, <5>2
      <4>2. CASE t # s
        BY <2>1, <3>1, <4>2
      <4> QED
        BY <4>1, <4>2
    <3> QED
      BY <3>1, <3>2
  <2>4. SentSoFar \in [Sites -> Seq(Nat)] /\ SentSoFar' = [t \in Sites |-> SentSoFar'[t]]
    BY UidsSeq DEF SentSoFar, TypeOK
  <2> QED
    BY <2>3, <2>4
<1>3. TakenSoFar' = TakenSoFar
  BY DEF TakenSoFar
<1>4. DeliveryOf!Send(s)
  BY <1>1, <1>2, <1>3 DEF DeliveryOf!Send, SentSoFar, Uids, TakenSoFar
<1> QED
  BY <1>4 DEF DeliveryOf!Next

LEMMA Takes ==
  ASSUME TypeOK, NEW s \in Sites, NEW e \in Entry, journal' = journal,
         applied' = [applied EXCEPT ![Other(s)] = Append(@, e.uid)],
         Len(applied[Other(s)]) < Len(journal[s]),
         e = journal[s][Len(applied[Other(s)]) + 1]
  PROVE  DeliveryOf!Next
<1> DEFINE o == Other(s)
           n == Len(applied[o]) + 1
<1>0. /\ o \in Sites /\ \A t \in Sites : Other(t) = o <=> t = s
      /\ journal[s] \in Seq(Entry) /\ applied[o] \in Seq(Nat)
      /\ \A t \in Sites : Other(t) \in Sites
  BY DEF Sites, Other, TypeOK
<1>1. n \in 1 .. Len(journal[s])
  BY <1>0
<1>2. SentSoFar[s][n] = e.uid /\ Len(SentSoFar[s]) = Len(journal[s])
  BY <1>0, <1>1, UidsSeq DEF SentSoFar, Uids
<1>3. SentSoFar' = SentSoFar
  BY DEF SentSoFar
<1>4. TakenSoFar[s] = applied[o]
  BY DEF TakenSoFar
<1>5. TakenSoFar' = [TakenSoFar EXCEPT ![s] = Append(@, SentSoFar[s][Len(@) + 1])]
  <2>1. \A t \in Sites : applied'[t] = IF t = o THEN Append(applied[o], e.uid) ELSE applied[t]
    BY <1>0 DEF TypeOK
  <2>2. \A t \in Sites : TakenSoFar'[t] = IF t = s THEN Append(applied[o], e.uid)
                                                 ELSE TakenSoFar[t]
    BY <1>0, <2>1 DEF TakenSoFar
  <2>3. TakenSoFar' = [t \in Sites |-> TakenSoFar'[t]] /\ TakenSoFar = [t \in Sites |-> TakenSoFar[t]]
    BY DEF TakenSoFar
  <2> QED
    BY <1>2, <1>4, <2>2, <2>3
<1>6. DeliveryOf!Take(s)
  <2>1. Len(TakenSoFar[s]) < Len(SentSoFar[s])
    BY <1>2, <1>4
  <2> QED
    BY <1>3, <1>5, <2>1 DEF DeliveryOf!Take, SentSoFar, Uids, TakenSoFar
<1> QED
  BY <1>6 DEF DeliveryOf!Next

LEMMA DeliversStep ==
  ASSUME TypeOK, PushInv, PullInv, OnceInv, OneAtATime, NothingDies, [Next]_vars
  PROVE  DeliveryOf!Next \/ UNCHANGED DeliveryOf!vars
<1>0. "local" \in Sites /\ "cloud" \in Sites /\ Other("local") = "cloud" /\ Other("cloud") = "local"
  BY DEF Sites, Other
<1>1. CASE UNCHANGED <<journal, applied>>
  BY <1>1 DEF DeliveryOf!vars
<1>2. ASSUME NEW s \in Sites, NEW r \in Rows, NEW k \in Kinds, NEW v \in Vals,
             Run(s, r, k, v) \/ Batch(s, r, k, v)
      PROVE  DeliveryOf!Next \/ UNCHANGED <<journal, applied>>
  <2>1. PICK e \in Entry : e = NewEntry(s, r, k, v)
    BY NewEntryType
  <2>2. Execute(s, e) => e.uid \in 1 .. MaxWrites[s]
    BY BoundsAssumption DEF Execute, TypeOK
  <2> QED
    BY <1>2, <2>1, <2>2, Sends DEF Run, Batch
<1>3. ASSUME NEW s \in Sites, NEW e \in pending[s], Capture(s, e)
      PROVE  DeliveryOf!Next
  <2>1. e \in Entry /\ e.uid \in 1 .. MaxWrites[s]
    BY DEF TypeOK, OnceInv, Numbered
  <2> QED
    BY <1>3, <2>1, Sends DEF Capture
<1>4. ASSUME NEW i \in Slots, HandlerApplies(i)
      PROVE  DeliveryOf!Next
  <2> DEFINE A == Len(applied["cloud"])
  <2>1. PICK q \in Request : q = push[i]
    BY DEF TypeOK
  <2>2. /\ q.st = "applying" /\ q.pos < Len(q.batch) /\ q.base + q.pos + 1 > q.last
        /\ Apply("cloud", q.batch[q.pos + 1]) /\ journal' = journal
    BY <1>4, <2>1 DEF HandlerApplies, Fresh, AtSeq
  <2>3. PICK k \in 1 .. Len(q.batch) : /\ k = q.pos + 1 /\ q.batch[k] \in Entry
                                       /\ q.base + k = A + 1
    <3>1. PICK b \in Nat, p \in Nat, a \in Nat :
            b = q.base /\ p = q.pos /\ a = A /\ a = q.last
      BY <2>1, <2>2 DEF OnceInv, CloudInLine, InLine, Request
    <3>2. b + p <= a /\ b + p + 1 > a
      BY <2>1, <2>2, <3>1 DEF OnceInv, CloudInLine, InLine
    <3>3. b + (p + 1) = a + 1
      BY <3>2
    <3>4. q.pos + 1 \in 1 .. Len(q.batch) /\ q.batch \in Seq(Entry)
      BY <2>2 DEF Request
    <3>5. q.batch[q.pos + 1] \in Entry
      BY <3>4, ElementOfSeq
    <3> QED
      BY <3>1, <3>3, <3>4, <3>5
  <2>4. q.base + k <= Len(journal["local"]) /\ q.batch[k] = journal["local"][q.base + k]
    <3>1. q.epoch = epoch
      BY <2>1, <2>2 DEF PushInv, RequestOK, OnceInv, CloudInLine, Request
    <3> QED
      BY <2>1, <2>2, <3>1 DEF PushInv, RequestOK, Carries
  <2>5. A < Len(journal["local"]) /\ q.batch[k] = journal["local"][A + 1]
    BY <1>0, <2>3, <2>4 DEF TypeOK
  <2>6. applied' = [applied EXCEPT !["cloud"] = Append(@, q.batch[k].uid)]
    BY <2>2, <2>3 DEF Apply
  <2> QED
    BY <1>0, <2>2, <2>3, <2>5, <2>6, Takes
<1>5. CASE PullApplies
  <2> DEFINE B == Len(applied["local"])
  <2>1. PICK d \in Cycle : d = daemon
    BY DEF TypeOK
  <2>2. /\ d.pc = "applying" /\ d.pos < Len(d.fetched)
        /\ Apply("local", d.fetched[d.pos + 1]) /\ journal' = journal
    BY <1>5, <2>1 DEF PullApplies
  <2>3. PICK k \in 1 .. Len(d.fetched) : k = d.pos + 1 /\ d.fetched[k] \in Entry
    <3>1. d.pos + 1 \in 1 .. Len(d.fetched) /\ d.fetched \in Seq(Entry)
      BY <2>2 DEF Cycle
    <3> QED
      BY <3>1, ElementOfSeq
  <2>4. /\ d.base + k <= Len(journal["cloud"])
        /\ d.fetched[k] = journal["cloud"][d.base + k]
    BY <2>1, <2>2 DEF PullInv, CycleOK
  <2>5. d.base + k = B + 1
    BY <2>1, <2>2, <2>3 DEF OnceInv, BoxInLine, Cycle
  <2>6. B < Len(journal["cloud"]) /\ d.fetched[k] = journal["cloud"][B + 1]
    BY <1>0, <2>4, <2>5 DEF TypeOK
  <2>7. applied' = [applied EXCEPT !["local"] = Append(@, d.fetched[k].uid)]
    BY <2>2, <2>3 DEF Apply
  <2> QED
    BY <1>0, <2>2, <2>3, <2>6, <2>7, Takes
<1>6. ASSUME NEW i \in Slots, HandlerStarts(i) \/ HandlerSkips(i) \/ HandlerFinishes(i)
      PROVE  UNCHANGED <<journal, applied>>
  BY <1>6 DEF HandlerStarts, HandlerSkips, HandlerFinishes
<1>7. CASE Beat \/ Pushes \/ PullFetches \/ PullHasNothing \/ PullAdvances \/ Prune
  <2>1. UNCHANGED <<journal, applied>>
    BY <1>7 DEF Beat, Pushes, PushHasNothing, PushSends, PushAcked, PullFetches,
                PullHasNothing, PullAdvances, Prune
  <2> QED
    BY <1>1, <2>1
<1>8. CASE Loses \/ Timeout \/ UNCHANGED vars
  <2>1. UNCHANGED <<journal, applied>>
    BY <1>8 DEF Loses, CaptureFails, Timeout, vars
  <2> QED
    BY <1>1, <2>1
<1> QED
  BY <1>1, <1>2, <1>3, <1>4, <1>5, <1>6, <1>7, <1>8, NobodyDies
  DEF Next, Write, Journals, Fails, Daemon, Pulls, Handler

\* What either site journals, the other goes through at most once and in the
\* order it was journalled, as long as one push is served at a time and nobody
\* dies in one: whichever answers are lost or come too late (handlePush, push,
\* pull). Two overlapping pushes, or a death between applyEntry and setCursor,
\* do replay entries; both are outside these hypotheses.
THEOREM DeliversOnceInOrder ==
  ASSUME OneAtATime, NothingDies
  PROVE  Spec => DeliveryOf!Safety
<1>1. Init => TypeOK /\ PushInv /\ PullInv /\ OnceInv
  BY InitType, PushInvInit, PullInvInit, OnceInit
<1>2. TypeOK /\ PushInv /\ PullInv /\ OnceInv /\ [Next]_vars
        => TypeOK' /\ PushInv' /\ PullInv' /\ OnceInv'
  BY NextType, PushInvNext, PullInvNext, OnceNext
<1>3. Init => DeliveryOf!Init
  <2> SUFFICES ASSUME Init PROVE DeliveryOf!Init
    OBVIOUS
  <2>1. \A s \in Sites : Other(s) \in Sites
    BY DEF Sites, Other
  <2>2. Uids(<<>>) = <<>>
    <3>1. <<>> \in Seq(Entry) /\ Len(<<>>) = 0
      OBVIOUS
    <3>2. Uids(<<>>) \in Seq(Nat) /\ Len(Uids(<<>>)) = 0
      BY <3>1, UidsSeq
    <3> QED
      BY <3>2, EmptySeq
  <2>3. SentSoFar = [s \in Sites |-> <<>>] /\ TakenSoFar = [s \in Sites |-> <<>>]
    BY <2>1, <2>2 DEF Init, SentSoFar, TakenSoFar
  <2> QED
    BY <2>3 DEF DeliveryOf!Init, SentSoFar, TakenSoFar, Uids
<1>4. TypeOK /\ PushInv /\ PullInv /\ OnceInv /\ [Next]_vars
        => [DeliveryOf!Next]_(DeliveryOf!vars)
  BY DeliversStep
<1> QED
  BY <1>1, <1>2, <1>3, <1>4, PTL DEF Spec, DeliveryOf!Safety


-----------------------------------------------------------------------------
(***************************************************************************)
(* Two sides that differ know it.  The property speaks of the end of an     *)
(* exchange; the invariant says of every moment what each side holds of a  *)
(* row that only one side has written: there, what the whole journal left; *)
(* at the other side, what some point of the journal left that is not      *)
(* before the entries gone through.  After a death the last entries are    *)
(* gone through again, and the row is ahead of the cursor until they are   *)
(* through: an insert finds its row, an update of a row that is gone is    *)
(* listed.  A row that both sides write, or a table that its side may not  *)
(* write, is on a list because one of the two refuses.  A snapshot keeps   *)
(* all this as long as the box has written nothing since.                  *)
(***************************************************************************)

\* As the property's run has it: one request at a time, writes journalled with
\* their statement, and no statement that must not be run twice.
OneByOne == OneAtATime /\ MaxInFlight = 0 /\ "bump" \notin Kinds

\* c is the content of row r after the first k entries of a journal.
IsAfter(log, k, r, c) ==
  LET about == {n \in 1 .. k : log[n].row = r}
  IN \/ (\E n \in about : log[n].kind = "delete") /\ c = Absent
     \/ /\ \A n \in about : log[n].kind # "delete"
        /\ \E n \in about : (\A m \in about : m <= n) /\ c = log[n].val
     \/ about = {} /\ c = IF r \in Seeded THEN 0 ELSE Absent

Refused(s, e) == Decide(Entity[e.row], OpOf(e.kind), s) = "conflict"

Names(log, r) == \E n \in 1 .. Len(log) : log[n].row = r

\* Only site o has written row r, and the other side takes all of that.
Plain(logs, o, r) ==
  /\ ~Names(logs[Other(o)], r)
  /\ \A n \in 1 .. Len(logs[o]) : logs[o][n].row = r => ~Refused(Other(o), logs[o][n])

Listed(list, r) == \E e \in list : e.row = r

\* Content c is what some point of the journal left, from the p-th entry on, or
\* the row is listed.
Mirrors(log, p, list, r, c) ==
  Listed(list, r) \/ \E k \in p .. Len(log) : IsAfter(log, k, r, c)

\* What site s refused of the first p entries is on its list.
RefusalsListed(s, log, p, list) ==
  \A n \in 1 .. p : n <= Len(log) /\ Refused(s, log[n]) => log[n] \in list

\* Site s holds these rows and this list, and has gone through p entries.
InStep(logs, un, s, held, list, p) ==
  /\ \A r \in Rows \ un :
       /\ Plain(logs, s, r) => IsAfter(logs[s], Len(logs[s]), r, held[r])
       /\ Plain(logs, Other(s), r) => Mirrors(logs[Other(s)], p, list, r, held[r])
  /\ RefusalsListed(s, logs[Other(s)], p, list)

\* A row is inserted once, before anything else is done to it.
InsertedFirst(log) == \A n \in 1 .. Len(log) : log[n].kind = "insert" =>
  log[n].row \notin Seeded /\ \A m \in 1 .. n - 1 : log[m].row # log[n].row

Inserts(log, r) == \E n \in 1 .. Len(log) : log[n].row = r /\ log[n].kind = "insert"

Births(logs, rs) ==
  /\ Seeded \subseteq rs
  /\ \A s \in Sites :
       /\ InsertedFirst(logs[s])
       /\ \A n \in 1 .. Len(logs[s]) : logs[s][n].row \in rs
  /\ \A r \in rs : ~(Inserts(logs["local"], r) /\ Inserts(logs["cloud"], r))
  /\ \A r \in rs \ Seeded : \E s \in Sites : Inserts(logs[s], r)

\* An entry of the run's kinds.
LEMMA EntryIs ==
  ASSUME OneByOne, NEW e \in Entry
  PROVE  /\ e.kind \in {"insert", "set", "claim", "delete"} /\ e.val \in Nat
         /\ e.val # Absent /\ e.row \in Rows
<1>1. e.kind \in Kinds /\ e.val \in Vals /\ e.row \in Rows
  BY DEF Entry
<1>2. e.kind \in {"insert", "set", "claim", "delete"}
  BY <1>1, KindsAssumption DEF OneByOne, AllKinds
<1>3. e.val \in Nat
  BY <1>1, ValsAssumption
<1>4. e.val # Absent
  BY <1>3 DEF Absent
<1> QED
  BY <1>1, <1>2, <1>3, <1>4

\* What came later does not change what was left before.
LEMMA AfterStays ==
  ASSUME NEW log, NEW log2, NEW k, NEW r, NEW c,
         \A n \in 1 .. k : log2[n] = log[n], IsAfter(log, k, r, c)
  PROVE  IsAfter(log2, k, r, c)
BY DEF IsAfter

\* An entry about another row leaves the row as it is.
LEMMA AfterOther ==
  ASSUME NEW log, NEW k \in Nat, NEW r, NEW c, log[k + 1].row # r, IsAfter(log, k, r, c)
  PROVE  IsAfter(log, k + 1, r, c)
<1>1. {n \in 1 .. k + 1 : log[n].row = r} = {n \in 1 .. k : log[n].row = r}
  OBVIOUS
<1> QED
  BY <1>1 DEF IsAfter

\* A deletion leaves nothing.
LEMMA AfterDelete ==
  ASSUME NEW log, NEW k \in Nat, NEW r, log[k + 1].row = r, log[k + 1].kind = "delete"
  PROVE  IsAfter(log, k + 1, r, Absent)
<1>1. k + 1 \in {n \in 1 .. k + 1 : log[n].row = r}
  OBVIOUS
<1> QED
  BY <1>1 DEF IsAfter

\* A statement that is no deletion leaves what it writes, unless the row was
\* deleted before.
LEMMA AfterUpdate ==
  ASSUME NEW log, NEW k \in Nat, NEW r, log[k + 1].row = r,
         \A n \in 1 .. k + 1 : log[n].row = r => log[n].kind # "delete"
  PROVE  IsAfter(log, k + 1, r, log[k + 1].val)
<1> DEFINE about == {n \in 1 .. k + 1 : log[n].row = r}
<1>1. k + 1 \in about /\ \A m \in about : m <= k + 1
  OBVIOUS
<1> QED
  BY <1>1 DEF IsAfter

\* A row that is there has not been deleted.
LEMMA ThereNotDeleted ==
  ASSUME NEW log, NEW k \in Nat, NEW r, NEW c, c # Absent, IsAfter(log, k, r, c)
  PROVE  \A n \in 1 .. k : log[n].row = r => log[n].kind # "delete"
BY DEF IsAfter

\* Where no statement named the row, it is as it was at first.
LEMMA AfterNothing ==
  ASSUME NEW log, NEW k \in Nat, NEW r, NEW c, \A n \in 1 .. k : log[n].row # r,
         IsAfter(log, k, r, c)
  PROVE  c = IF r \in Seeded THEN 0 ELSE Absent
BY DEF IsAfter

\* After as many entries there is one content.
LEMMA AfterOne ==
  ASSUME NEW log, NEW k \in Nat, NEW r, NEW c, NEW d,
         IsAfter(log, k, r, c), IsAfter(log, k, r, d)
  PROVE  c = d
<1> DEFINE about == {n \in 1 .. k : log[n].row = r}
<1>1. CASE about = {}
  BY <1>1 DEF IsAfter
<1>2. CASE \E n \in about : log[n].kind = "delete"
  BY <1>2 DEF IsAfter
<1>3. CASE about # {} /\ \A n \in about : log[n].kind # "delete"
  <2>1. PICK m \in about : (\A n \in about : n <= m) /\ c = log[m].val
    BY <1>3 DEF IsAfter
  <2>2. PICK n \in about : (\A l \in about : l <= n) /\ d = log[n].val
    BY <1>3 DEF IsAfter
  <2>3. m = n
    BY <2>1, <2>2
  <2> QED
    BY <2>1, <2>2, <2>3
<1> QED
  BY <1>1, <1>2, <1>3

\* Going through the next entry, for the first time or again.
LEMMA ReplayStep ==
  ASSUME OneByOne, NEW log \in Seq(Entry), InsertedFirst(log),
         NEW p \in Nat, p < Len(log), NEW k \in p .. Len(log), NEW c,
         IsAfter(log, k, log[p + 1].row, c),
         OpOf(log[p + 1].kind) = "update" => Matches(log[p + 1].kind, log[p + 1].val, c)
  PROVE  \E j \in p + 1 .. Len(log) :
           IsAfter(log, j, log[p + 1].row, Effect(log[p + 1].kind, log[p + 1].val, c))
<1> DEFINE e == log[p + 1]
           r == e.row
<1>0. /\ e \in Entry /\ e.kind \in {"insert", "set", "claim", "delete"} /\ e.val # Absent
      /\ p + 1 \in p + 1 .. Len(log) /\ k \in Nat /\ Len(log) \in Nat
  <2>1. e \in Entry
    BY ElementOfSeq
  <2>2. Len(log) \in Nat
    BY LenProperties
  <2> QED
    BY <2>1, <2>2, EntryIs
<1>1. CASE e.kind = "insert"
  <2>1. r \notin Seeded /\ \A m \in 1 .. p : log[m].row # r
    BY <1>0, <1>1 DEF InsertedFirst
  <2>2. CASE c = Absent
    <3>1. \A n \in 1 .. p + 1 : log[n].row = r => log[n].kind # "delete"
      BY <1>0, <1>1, <2>1
    <3>2. IsAfter(log, p + 1, r, e.val)
      BY <3>1, AfterUpdate
    <3>3. Effect(e.kind, e.val, c) = e.val
      BY <1>1, <2>2 DEF Effect, Matches
    <3> QED
      BY <3>2, <3>3, <1>0
  <2>3. CASE c # Absent
    <3>1. k # p
      BY <2>1, <2>3, <1>0, AfterNothing
    <3>2. k \in p + 1 .. Len(log)
      BY <3>1, <1>0
    <3>3. Effect(e.kind, e.val, c) = c
      BY <1>1, <2>3 DEF Effect, Matches
    <3> QED
      BY <3>2, <3>3
  <2> QED
    BY <2>2, <2>3
<1>2. CASE e.kind \in {"set", "claim"}
  <2>1. Matches(e.kind, e.val, c)
    BY <1>2 DEF OpOf
  <2>2. c # Absent
    BY <1>2, <2>1 DEF Matches
  <2>3. \A n \in 1 .. k : log[n].row = r => log[n].kind # "delete"
    BY <2>2, <1>0, ThereNotDeleted
  <2>4. \A n \in 1 .. p + 1 : log[n].row = r => log[n].kind # "delete"
    BY <2>3, <1>2, <1>0
  <2>5. IsAfter(log, p + 1, r, e.val)
    BY <2>4, AfterUpdate
  <2>6. Effect(e.kind, e.val, c) = e.val
    BY <1>2, <2>1 DEF Effect
  <2> QED
    BY <2>5, <2>6, <1>0
<1>3. CASE e.kind = "delete"
  <2>1. Effect(e.kind, e.val, c) = Absent
    BY <1>3 DEF Effect, Matches
  <2>2. IsAfter(log, p + 1, r, Absent)
    BY <1>3, AfterDelete
  <2> QED
    BY <2>1, <2>2, <1>0
<1> QED
  BY <1>0, <1>1, <1>2, <1>3

\* The list and what is beyond the cursor only grow.
LEMMA MirrorsOther ==
  ASSUME NEW log \in Seq(Entry), NEW p \in Nat, p < Len(log), NEW r, NEW c, NEW list, NEW more,
         log[p + 1].row # r, list \subseteq more, Mirrors(log, p, list, r, c)
  PROVE  Mirrors(log, p + 1, more, r, c)
<1>1. CASE Listed(list, r)
  BY <1>1 DEF Mirrors, Listed
<1>2. ASSUME NEW k \in p .. Len(log), IsAfter(log, k, r, c) PROVE Mirrors(log, p + 1, more, r, c)
  <2>0. Len(log) \in Nat
    BY LenProperties
  <2>1. CASE k = p
    <3>1. IsAfter(log, p + 1, r, c)
      BY <1>2, <2>1, AfterOther
    <3> QED
      BY <3>1, <2>0 DEF Mirrors
  <2>2. CASE k # p
    BY <1>2, <2>2, <2>0 DEF Mirrors
  <2> QED
    BY <2>1, <2>2
<1> QED
  BY <1>1, <1>2 DEF Mirrors
\* Site s goes through the next entry.
LEMMA ApplyInStep ==
  ASSUME OneByOne, TypeOK, NEW s \in Sites, NEW p \in Nat, p < Len(journal[Other(s)]),
         Births(journal, born), InStep(journal, unsynced, s, db[s], recon[s], p),
         Apply(s, journal[Other(s)][p + 1])
  PROVE  InStep(journal, unsynced, s, db'[s], recon'[s], p + 1)
<1> DEFINE log == journal[Other(s)]
           e == log[p + 1]
<1>1. /\ Other(s) \in Sites /\ log \in Seq(Entry) /\ Len(log) \in Nat /\ InsertedFirst(log)
      /\ Other(Other(s)) = s
  <2>1. Other(s) \in Sites /\ Other(Other(s)) = s
    BY DEF Other, Sites
  <2> QED
    BY <2>1, LenProperties DEF TypeOK, Births
<1>2. e \in Entry
  BY <1>1, ElementOfSeq
<1>3. e.row \in Rows
  BY <1>2, EntryIs
<1>4. /\ recon[s] \subseteq recon'[s]
      /\ Refused(s, e) => e \in recon'[s]
      /\ \A r \in Rows : r # e.row => db'[s][r] = db[s][r]
  BY <1>3 DEF Apply, TypeOK, Refused
<1>5. \/ e \in recon'[s]
      \/ /\ OpOf(e.kind) = "update" => Matches(e.kind, e.val, db[s][e.row])
         /\ db'[s][e.row] = Effect(e.kind, e.val, db[s][e.row])
  BY <1>3 DEF Apply, TypeOK
<1>6. RefusalsListed(s, log, p + 1, recon'[s])
  <2> SUFFICES ASSUME NEW n \in 1 .. p + 1, n <= Len(log), Refused(s, log[n])
               PROVE  log[n] \in recon'[s]
    BY DEF RefusalsListed
  <2>1. CASE n = p + 1
    BY <2>1, <1>4
  <2>2. CASE n # p + 1
    <3>1. n \in 1 .. p
      BY <2>2
    <3>2. log[n] \in recon[s]
      BY <3>1 DEF InStep, RefusalsListed
    <3> QED
      BY <3>2, <1>4
  <2> QED
    BY <2>1, <2>2
<1>7. ASSUME NEW r \in Rows \ unsynced, Plain(journal, s, r)
      PROVE  IsAfter(journal[s], Len(journal[s]), r, db'[s][r])
  <2>1. r # e.row
    BY <1>7, <1>1 DEF Plain, Names
  <2> QED
    BY <2>1, <1>4, <1>7 DEF InStep
<1>8. ASSUME NEW r \in Rows \ unsynced, Plain(journal, Other(s), r)
      PROVE  Mirrors(log, p + 1, recon'[s], r, db'[s][r])
  <2>1. Mirrors(log, p, recon[s], r, db[s][r])
    BY <1>8 DEF InStep
  <2>2. CASE r # e.row
    <3>1. db'[s][r] = db[s][r]
      BY <2>2, <1>4
    <3> QED
      BY <3>1, <2>1, <2>2, <1>1, <1>4, MirrorsOther
  <2>3. CASE r = e.row
    <3>1. CASE e \in recon'[s]
      BY <3>1, <2>3 DEF Mirrors, Listed
    <3>2. CASE Listed(recon[s], r)
      BY <3>2, <1>4 DEF Mirrors, Listed
    <3>3. ASSUME e \notin recon'[s], NEW k \in p .. Len(log), IsAfter(log, k, r, db[s][r])
          PROVE  Mirrors(log, p + 1, recon'[s], r, db'[s][r])
      <4>1. \E j \in p + 1 .. Len(log) :
              IsAfter(log, j, e.row, Effect(e.kind, e.val, db[s][e.row]))
        BY <3>3, <2>3, <1>1, <1>5, ReplayStep
      <4> QED
        BY <4>1, <3>3, <1>5, <2>3 DEF Mirrors
    <3> QED
      BY <3>1, <3>2, <3>3, <2>1 DEF Mirrors
  <2> QED
    BY <2>2, <2>3
<1> QED
  BY <1>6, <1>7, <1>8 DEF InStep

\* Less gone through is less claimed; a row that is given up is not spoken of.
LEMMA LessInStep ==
  ASSUME NEW logs, NEW un, NEW more, un \subseteq more, NEW s \in Sites, NEW held, NEW list,
         NEW p \in Nat, NEW q \in Nat, q <= p, Len(logs[Other(s)]) \in Nat,
         InStep(logs, un, s, held, list, p)
  PROVE  InStep(logs, more, s, held, list, q)
<1>1. RefusalsListed(s, logs[Other(s)], q, list)
  BY DEF InStep, RefusalsListed
<1>2. ASSUME NEW r \in Rows \ more
      PROVE  /\ Plain(logs, s, r) => IsAfter(logs[s], Len(logs[s]), r, held[r])
             /\ Plain(logs, Other(s), r) => Mirrors(logs[Other(s)], q, list, r, held[r])
  <2>1. r \in Rows \ un
    OBVIOUS
  <2>2. Plain(logs, s, r) => IsAfter(logs[s], Len(logs[s]), r, held[r])
    BY <2>1 DEF InStep
  <2>3. Plain(logs, Other(s), r) => Mirrors(logs[Other(s)], p, list, r, held[r])
    BY <2>1 DEF InStep
  <2>4. Mirrors(logs[Other(s)], p, list, r, held[r]) => Mirrors(logs[Other(s)], q, list, r, held[r])
    BY DEF Mirrors
  <2> QED
    BY <2>2, <2>3, <2>4
<1> QED
  BY <1>1, <1>2 DEF InStep

\* What a journal says of a row, and of one more entry.
LEMMA AppendPlain ==
  ASSUME NEW logs \in [Sites -> Seq(Entry)], NEW w \in Sites, NEW e \in Entry, NEW o \in Sites, NEW r,
         Plain([logs EXCEPT ![w] = Append(@, e)], o, r)
  PROVE  /\ Plain(logs, o, r)
         /\ w # o => e.row # r
<1> DEFINE next == [logs EXCEPT ![w] = Append(@, e)]
<1>1. Other(o) \in Sites /\ Other(o) # o /\ (w # o => Other(o) = w)
  BY DEF Other, Sites
<1>2. \A s \in Sites : /\ Len(logs[s]) \in Nat /\ Len(next[s]) \in Nat /\ Len(logs[s]) <= Len(next[s])
                       /\ \A n \in 1 .. Len(logs[s]) : next[s][n] = logs[s][n]
  <2> TAKE s \in Sites
  <2>1. logs[s] \in Seq(Entry)
    OBVIOUS
  <2>2. CASE s = w
    <3>1. next[s] = Append(logs[s], e)
      BY <2>2
    <3> QED
      BY <3>1, <2>1, AppendProperties, LenProperties
  <2>3. CASE s # w
    BY <2>1, <2>3, LenProperties
  <2> QED
    BY <2>2, <2>3
<1>3. next[w] = Append(logs[w], e) /\ Len(next[w]) = Len(logs[w]) + 1
      /\ next[w][Len(logs[w]) + 1] = e
  BY AppendProperties
<1>4. Plain(logs, o, r)
  <2>1. ~Names(logs[Other(o)], r)
    <3> SUFFICES ASSUME NEW n \in 1 .. Len(logs[Other(o)]), logs[Other(o)][n].row = r PROVE FALSE
      BY DEF Names
    <3>1. n \in 1 .. Len(next[Other(o)]) /\ next[Other(o)][n].row = r
      BY <1>1, <1>2
    <3> QED
      BY <3>1 DEF Plain, Names
  <2>2. \A n \in 1 .. Len(logs[o]) : logs[o][n].row = r => ~Refused(Other(o), logs[o][n])
    <3> TAKE n \in 1 .. Len(logs[o])
    <3>1. n \in 1 .. Len(next[o]) /\ next[o][n] = logs[o][n]
      BY <1>2
    <3> QED
      BY <3>1 DEF Plain
  <2> QED
    BY <2>1, <2>2 DEF Plain
<1>5. ASSUME w # o PROVE e.row # r
  <2>1. Len(logs[w]) + 1 \in 1 .. Len(next[w])
    BY <1>2, <1>3
  <2>2. ~Names(next[w], r)
    BY <1>5, <1>1 DEF Plain
  <2> QED
    BY <2>1, <2>2, <1>3 DEF Names
<1> QED
  BY <1>4, <1>5

\* The other side writes: what this one holds mirrors a journal that is longer.
LEMMA OtherWrites ==
  ASSUME NEW logs \in [Sites -> Seq(Entry)], NEW w \in Sites, NEW e \in Entry, NEW un,
         NEW held, NEW list, NEW p \in Nat, p <= Len(logs[w]),
         InStep(logs, un, Other(w), held, list, p)
  PROVE  InStep([logs EXCEPT ![w] = Append(@, e)], un, Other(w), held, list, p)
<1> DEFINE s == Other(w)
           next == [logs EXCEPT ![w] = Append(@, e)]
<1>1. s \in Sites /\ Other(s) = w /\ s # w
  BY DEF Other, Sites
<1>2. /\ next[s] = logs[s] /\ next[w] = Append(logs[w], e)
      /\ Len(logs[w]) \in Nat /\ Len(next[w]) = Len(logs[w]) + 1
      /\ \A n \in 1 .. Len(logs[w]) : next[w][n] = logs[w][n]
  BY <1>1, AppendProperties, LenProperties
<1>3. RefusalsListed(s, next[w], p, list)
  <2>1. RefusalsListed(s, logs[w], p, list)
    BY <1>1 DEF InStep
  <2> QED
    BY <2>1, <1>2 DEF RefusalsListed
<1>4. ASSUME NEW r \in Rows \ un, Plain(next, s, r)
      PROVE  IsAfter(next[s], Len(next[s]), r, held[r])
  <2>1. Plain(logs, s, r)
    BY <1>1, <1>4, AppendPlain
  <2> QED
    BY <2>1, <1>2 DEF InStep
<1>5. ASSUME NEW r \in Rows \ un, Plain(next, w, r)
      PROVE  Mirrors(next[w], p, list, r, held[r])
  <2>1. Plain(logs, w, r)
    BY <1>5, AppendPlain
  <2>2. Mirrors(logs[w], p, list, r, held[r])
    BY <2>1, <1>1 DEF InStep
  <2>3. ASSUME NEW k \in p .. Len(logs[w]), IsAfter(logs[w], k, r, held[r])
        PROVE  Mirrors(next[w], p, list, r, held[r])
    <3>1. \A n \in 1 .. k : next[w][n] = logs[w][n]
      BY <1>2
    <3>2. IsAfter(next[w], k, r, held[r])
      BY <2>3, <3>1, AfterStays
    <3> QED
      BY <3>2, <1>2 DEF Mirrors
  <2> QED
    BY <2>2, <2>3 DEF Mirrors
<1> QED
  BY <1>1, <1>3, <1>4, <1>5 DEF InStep

\* A side writes: the row is what its own journal leaves.
LEMMA OwnWrites ==
  ASSUME OneByOne, NEW logs \in [Sites -> Seq(Entry)], NEW rs, Births(logs, rs),
         NEW w \in Sites, NEW e \in Entry, NEW un,
         (e.kind = "insert") <=> (e.row \notin rs),
         NEW held \in [Rows -> Contents], NEW list, NEW p \in Nat, p <= Len(logs[Other(w)]),
         InStep(logs, un, w, held, list, p)
  PROVE  InStep([logs EXCEPT ![w] = Append(@, e)], un, w,
                [held EXCEPT ![e.row] = Effect(e.kind, e.val, @)], list, p)
<1> DEFINE s == Other(w)
           next == [logs EXCEPT ![w] = Append(@, e)]
           now == [held EXCEPT ![e.row] = Effect(e.kind, e.val, @)]
           k == Len(logs[w])
<1>0. /\ e.kind \in {"insert", "set", "claim", "delete"} /\ e.val # Absent /\ e.row \in Rows
  BY EntryIs
<1>1. s \in Sites /\ Other(s) = w /\ s # w
  BY DEF Other, Sites
<1>2. /\ next[s] = logs[s] /\ next[w] = Append(logs[w], e)
      /\ k \in Nat /\ Len(next[w]) = k + 1 /\ next[w][k + 1] = e
      /\ \A n \in 1 .. k : next[w][n] = logs[w][n]
  BY <1>1, AppendProperties, LenProperties
<1>3. RefusalsListed(w, next[s], p, list)
  BY <1>1, <1>2 DEF InStep
<1>4. ASSUME NEW r \in Rows \ un, Plain(next, w, r)
      PROVE  IsAfter(next[w], k + 1, r, now[r])
  <2>0. next[w][k + 1].row = e.row /\ next[w][k + 1].kind = e.kind /\ next[w][k + 1].val = e.val
    BY <1>2
  <2>1. Plain(logs, w, r)
    BY <1>4, AppendPlain
  <2>2. IsAfter(logs[w], k, r, held[r])
    BY <2>1 DEF InStep
  <2>3. IsAfter(next[w], k, r, held[r])
    BY <2>2, <1>2, AfterStays
  <2>4. CASE r # e.row
    <3>1. now[r] = held[r]
      BY <2>4
    <3>2. IsAfter(next[w], k + 1, r, held[r])
      BY <2>0, <2>3, <2>4, <1>2, AfterOther
    <3> QED
      BY <3>1, <3>2
  <2>5. CASE r = e.row
    <3>1. now[r] = Effect(e.kind, e.val, held[r])
      BY <2>5
    <3>2. CASE e.kind = "delete"
      <4>1. now[r] = Absent
        BY <3>1, <3>2 DEF Effect, Matches
      <4> QED
        BY <4>1, <3>2, <2>0, <2>5, <1>2, AfterDelete
    <3>3. CASE e.kind = "insert"
      <4>1. r \notin rs
        BY <3>3, <2>5
      <4>2. (\A n \in 1 .. k : logs[w][n].row # r) /\ r \notin Seeded
        BY <4>1 DEF Births
      <4>3. held[r] = Absent
        BY <4>2, <2>2, <1>2, AfterNothing
      <4>4. now[r] = e.val
        BY <4>3, <3>1, <3>3 DEF Effect, Matches
      <4>5. \A n \in 1 .. k + 1 : next[w][n].row = r => next[w][n].kind # "delete"
        BY <4>2, <1>2, <3>3
      <4>9. IsAfter(next[w], k + 1, r, next[w][k + 1].val)
        BY <4>5, <2>0, <2>5, <1>2, AfterUpdate
      <4> QED
        BY <4>9, <4>4, <2>0
    <3>4. CASE e.kind \in {"set", "claim"}
      <4>1. r \in rs
        BY <3>4, <2>5
      <4>2. CASE held[r] = Absent
        <5>1. now[r] = Absent
          BY <4>2, <3>1, <3>4 DEF Effect, Matches
        <5>2. r \in Seeded \/ \E n \in 1 .. k : logs[w][n].row = r
          <6>1. ~Inserts(logs[s], r)
            BY <2>1 DEF Plain, Names, Inserts
          <6> QED
            BY <6>1, <4>1, <1>1 DEF Births, Inserts, Sites
        <5>3. \E n \in 1 .. k : logs[w][n].row = r /\ logs[w][n].kind = "delete"
          <6>1. \A n \in 1 .. k : logs[w][n].val # Absent
            <7> TAKE n \in 1 .. k
            <7>1. logs[w][n] \in Entry
              BY <1>2, ElementOfSeq
            <7> QED
              BY <7>1, EntryIs
          <6>2. Absent # 0
            BY DEF Absent
          <6> QED
            BY <6>1, <6>2, <5>2, <4>2, <2>2 DEF IsAfter
        <5>4. IsAfter(next[w], k + 1, r, Absent)
          <6>1. PICK n \in 1 .. k : logs[w][n].row = r /\ logs[w][n].kind = "delete"
            BY <5>3
          <6>2. n \in {m \in 1 .. k + 1 : next[w][m].row = r} /\ next[w][n].kind = "delete"
            BY <6>1, <1>2
          <6> QED
            BY <6>2 DEF IsAfter
        <5> QED
          BY <5>1, <5>4
      <4>3. CASE held[r] # Absent
        <5>1. now[r] = e.val
          BY <4>3, <3>1, <3>4 DEF Effect, Matches
        <5>2. \A n \in 1 .. k : logs[w][n].row = r => logs[w][n].kind # "delete"
          BY <4>3, <2>2, <1>2, ThereNotDeleted
        <5>3. \A n \in 1 .. k + 1 : next[w][n].row = r => next[w][n].kind # "delete"
          BY <5>2, <1>2, <3>4
        <5>9. IsAfter(next[w], k + 1, r, next[w][k + 1].val)
          BY <5>3, <2>0, <2>5, <1>2, AfterUpdate
        <5> QED
          BY <5>9, <5>1, <2>0
      <4> QED
        BY <4>2, <4>3
    <3> QED
      BY <1>0, <3>2, <3>3, <3>4
  <2> QED
    BY <2>4, <2>5
<1>5. ASSUME NEW r \in Rows \ un, Plain(next, s, r)
      PROVE  Mirrors(next[s], p, list, r, now[r])
  <2>1. Plain(logs, s, r) /\ e.row # r
    BY <1>1, <1>5, AppendPlain
  <2>2. now[r] = held[r]
    BY <2>1
  <2> QED
    BY <2>1, <2>2, <1>2 DEF InStep
<1>6. ASSUME NEW r \in Rows \ un, Plain(next, w, r)
      PROVE  IsAfter(next[w], Len(next[w]), r, now[r])
  BY <1>2, <1>4, <1>6
<1> QED
  BY <1>3, <1>5, <1>6 DEF InStep

\* One more entry keeps the births in order.
LEMMA BirthsWritten ==
  ASSUME NEW logs \in [Sites -> Seq(Entry)], NEW rs, Births(logs, rs), NEW w \in Sites,
         NEW e \in Entry, (e.kind = "insert") <=> (e.row \notin rs)
  PROVE  Births([logs EXCEPT ![w] = Append(@, e)], rs \cup {e.row})
<1> DEFINE next == [logs EXCEPT ![w] = Append(@, e)]
           k == Len(logs[w])
<1>1. /\ k \in Nat /\ next[w] = Append(logs[w], e) /\ Len(next[w]) = k + 1
      /\ next[w][k + 1] = e /\ \A n \in 1 .. k : next[w][n] = logs[w][n]
  BY AppendProperties, LenProperties
<1>2. \A s \in Sites \ {w} : next[s] = logs[s]
  OBVIOUS
<1>3. InsertedFirst(next[w])
  BY <1>1 DEF InsertedFirst, Births
<1>4. \A n \in 1 .. Len(next[w]) : next[w][n].row \in rs \cup {e.row}
  BY <1>1 DEF Births
<1>5. \A r : Inserts(next[w], r) <=> Inserts(logs[w], r) \/ (r = e.row /\ e.kind = "insert")
  <2>1. \A n : n \in 1 .. k + 1 <=> n \in 1 .. k \/ n = k + 1
    BY <1>1
  <2> QED
    BY <2>1, <1>1 DEF Inserts
<1>6. \A s \in Sites : Inserts(logs[s], e.row) => e.row \in rs
  BY DEF Births, Inserts
<1>7. \A r \in rs \cup {e.row} : ~(Inserts(next["local"], r) /\ Inserts(next["cloud"], r))
  BY <1>2, <1>5, <1>6 DEF Births, Sites
<1>8. \A r \in (rs \cup {e.row}) \ Seeded : \E s \in Sites : Inserts(next[s], r)
  BY <1>2, <1>5 DEF Births
<1>9. \A s \in Sites : /\ InsertedFirst(next[s])
                       /\ \A n \in 1 .. Len(next[s]) : next[s][n].row \in rs \cup {e.row}
  BY <1>2, <1>3, <1>4 DEF Births
<1> QED
  BY <1>7, <1>8, <1>9 DEF Births
\* A request or a cycle carries a stretch of a journal.
Slice(batch, base, log) ==
  /\ base + Len(batch) <= Len(log)
  /\ \A k \in 1 .. Len(batch) : batch[k] = log[base + k]

\* A request goes on from the cloud's cursor: what it skips is before it.
GoesOn(q, log, last) ==
  /\ q.st # "free" => q.epoch = 1 /\ Slice(q.batch, q.base, log) /\ q.base <= last
  /\ q.st = "arrived" => q.pos = 0
  /\ q.st = "applying" => /\ q.pos <= Len(q.batch) /\ q.base + q.pos <= q.last
                          /\ last <= q.last /\ q.last <= Len(log)
  /\ q.st = "done" => q.last <= last

Positions ==
  /\ epoch = 1 /\ cloudIn.epoch \in {0, 1}
  /\ cloudIn.last <= Len(journal["local"])
  /\ outCur <= cloudIn.last /\ pruned <= cloudIn.last
  /\ inCur <= Len(journal["cloud"])
  /\ \A i \in Slots : GoesOn(push[i], journal["local"], cloudIn.last)
  /\ daemon.pc = "applying" =>
       /\ daemon.base = inCur /\ daemon.pos <= Len(daemon.fetched)
       /\ Slice(daemon.fetched, daemon.base, journal["cloud"])

\* How far a side is in the other's journal: by its cursor, and by what it is at.
Reached(s) ==
  IF s = "local"
  THEN {inCur} \cup {n \in {daemon.base + daemon.pos} : daemon.pc = "applying"}
  ELSE {cloudIn.last} \cup {push[i].last : i \in {j \in Slots : push[j].st = "applying"}}

\* A snapshot of the journal as it is now could be copied back at any time.
Snapshot ==
  /\ Len(backup.journal) <= Len(journal["local"])
  /\ backup.journal = journal["local"] =>
       /\ backup.epoch = 1 /\ backup.outCur <= cloudIn.last /\ backup.pruned <= cloudIn.last
       /\ backup.inCur <= Len(journal["cloud"])
       /\ InStep(journal, unsynced, "local", backup.db, backup.recon, backup.inCur)

SnapshotType ==
  backup \in [db : [Rows -> Contents], journal : Seq(Entry), recon : SUBSET Entry,
              applied : Seq(Nat), pruned : Nat, epoch : Nat \ {0}, outCur : Nat, inCur : Nat]

\* What holds while there is a row to speak of.
InTouch ==
  /\ Positions /\ Births(journal, born) /\ Snapshot
  /\ \A s \in Sites : \A p \in Reached(s) :
       InStep(journal, unsynced, s, db[s], recon[s], p)

SplitInv ==
  /\ TypeOK /\ SnapshotType
  /\ \A s \in Sites : pending[s] = {}
  /\ unsynced # Rows => InTouch

\* A cursor is within the journal it is about.
LEMMA ReachedType ==
  ASSUME TypeOK, Positions, NEW s \in Sites, NEW p \in Reached(s)
  PROVE  p \in Nat /\ p <= Len(journal[Other(s)]) /\ Len(journal[Other(s)]) \in Nat
<1>0. /\ journal["local"] \in Seq(Entry) /\ journal["cloud"] \in Seq(Entry)
      /\ Len(journal["local"]) \in Nat /\ Len(journal["cloud"]) \in Nat
  BY LenProperties DEF TypeOK, Sites
<1>1. CASE s = "local"
  <2>1. daemon.base \in Nat /\ daemon.pos \in Nat /\ inCur \in Nat /\ Len(daemon.fetched) \in Nat
    BY LenProperties DEF TypeOK, Cycle
  <2> QED
    BY <1>0, <1>1, <2>1 DEF Reached, Positions, Slice, Other
<1>2. CASE s = "cloud"
  <2>1. cloudIn.last \in Nat /\ \A i \in Slots : push[i].last \in Nat
    BY DEF TypeOK, Request
  <2> QED
    BY <1>0, <1>2, <2>1 DEF Reached, Positions, GoesOn, Other
<1> QED
  BY <1>1, <1>2 DEF Sites

LEMMA ReachedNat == TypeOK => \A s \in Sites : Reached(s) \subseteq Nat
BY DEF TypeOK, Reached, Cycle, Request, Sites

LEMMA ReachedNatNext == TypeOK' => \A s \in Sites : Reached(s)' \subseteq Nat
<1>1. (TypeOK => \A s \in Sites : Reached(s) \subseteq Nat)'
  BY ReachedNat, PTL
<1> QED
  BY <1>1

\* A step that changes neither rows nor journals, and takes no side further in a
\* journal than it was.
LEMMA QuietStep ==
  ASSUME TypeOK, TypeOK', InTouch, Positions',
         UNCHANGED <<db, journal, recon, born, unsynced, backup>>,
         cloudIn.last <= cloudIn'.last, SnapshotType,
         \A s \in Sites : \A p \in Reached(s)' : \E q \in Reached(s) : p <= q
  PROVE  InTouch'
<1>0. \A s \in Sites : Reached(s)' \subseteq Nat
  BY ReachedNatNext
<1>1. Births(journal, born)'
  BY DEF InTouch
<1>2. Snapshot'
  <2>1. /\ backup.outCur \in Nat /\ backup.pruned \in Nat
        /\ cloudIn.last \in Nat /\ cloudIn'.last \in Nat
    BY DEF TypeOK, SnapshotType
  <2> QED
    BY <2>1 DEF InTouch, Snapshot
<1>3. ASSUME NEW s \in Sites, NEW p \in Reached(s)'
      PROVE  InStep(journal, unsynced, s, db[s], recon[s], p)
  <2>1. PICK q \in Reached(s) : p <= q
    BY <1>3
  <2>2. q \in Nat /\ Len(journal[Other(s)]) \in Nat
    BY <2>1, ReachedType DEF InTouch
  <2>3. p \in Nat
    BY <1>0, <1>3
  <2>4. InStep(journal, unsynced, s, db[s], recon[s], q)
    BY DEF InTouch
  <2> QED
    BY <2>1, <2>2, <2>3, <2>4, LessInStep
<1> QED
  BY <1>1, <1>2, <1>3 DEF InTouch
\* The box stops listening: requests that are served go on unawaited.
LEMMA AbandonedGoesOn ==
  ASSUME TypeOK, NEW log, NEW last, NEW i \in Slots, GoesOn(push[i], log, last)
  PROVE  /\ GoesOn(Abandoned[i], log, last)
         /\ Abandoned[i].st = "applying" => push[i].st = "applying" /\ Abandoned[i].last = push[i].last
<1>1. CASE push[i].st \in {"free", "done"}
  <2>1. Abandoned[i] = FreeSlot
    BY <1>1 DEF Abandoned
  <2> QED
    BY <2>1 DEF GoesOn, FreeSlot
<1>2. CASE push[i].st \notin {"free", "done"}
  <2>1. Abandoned[i] = [push[i] EXCEPT !.awaited = FALSE]
    BY <1>2 DEF Abandoned
  <2>2. push[i] \in Request
    BY DEF TypeOK
  <2>3. /\ Abandoned[i].st = push[i].st /\ Abandoned[i].epoch = push[i].epoch
        /\ Abandoned[i].base = push[i].base /\ Abandoned[i].batch = push[i].batch
        /\ Abandoned[i].pos = push[i].pos /\ Abandoned[i].last = push[i].last
    BY <2>1, <2>2 DEF Request
  <2> QED
    BY <2>3 DEF GoesOn
<1> QED
  BY <1>1, <1>2

\* A cursor of the same side as before.
LEMMA ReachedLocal ==
  ASSUME UNCHANGED inCur, daemon'.pc # "applying" \/ UNCHANGED daemon
  PROVE  Reached("local")' \subseteq Reached("local")
BY DEF Reached

LEMMA ReachedCloud ==
  ASSUME UNCHANGED cloudIn,
         \A i \in Slots : push'[i].st = "applying" =>
           push[i].st = "applying" /\ push'[i].last = push[i].last
  PROVE  Reached("cloud")' \subseteq Reached("cloud")
BY DEF Reached

\* The cycle of the box that neither sends nor fetches nor applies.
LEMMA CyclePositions ==
  ASSUME TypeOK, TypeOK', InTouch, SnapshotType,
         UNCHANGED <<db, journal, recon, born, unsynced, backup, epoch, cloudIn, inCur>>,
         daemon'.pc # "applying",
         outCur' <= cloudIn.last, pruned' <= cloudIn.last,
         \A i \in Slots : \/ push'[i] = push[i] \/ push'[i] = Abandoned[i] \/ push'[i] = FreeSlot
  PROVE  InTouch'
<1>1. \A i \in Slots : /\ GoesOn(push'[i], journal["local"], cloudIn.last)
                       /\ push'[i].st = "applying" =>
                            push[i].st = "applying" /\ push'[i].last = push[i].last
  <2> TAKE i \in Slots
  <2>1. GoesOn(push[i], journal["local"], cloudIn.last)
    BY DEF InTouch, Positions
  <2>2. GoesOn(FreeSlot, journal["local"], cloudIn.last) /\ FreeSlot.st # "applying"
    BY DEF GoesOn, FreeSlot
  <2> QED
    BY <2>1, <2>2, AbandonedGoesOn
<1>2. Positions'
  BY <1>1 DEF InTouch, Positions
<1>3. \A s \in Sites : Reached(s)' \subseteq Reached(s)
  BY <1>1, ReachedLocal, ReachedCloud DEF Sites
<1>4. \A s \in Sites : \A p \in Reached(s) : p <= p
  BY ReachedNat
<1>5. cloudIn.last <= cloudIn'.last
  BY DEF TypeOK
<1> QED
  BY <1>2, <1>3, <1>4, <1>5, QuietStep

LEMMA DaemonInTouch ==
  ASSUME TypeOK, TypeOK', InTouch, SnapshotType, UNCHANGED backup, OneAtATime,
         \/ Beat \/ PushHasNothing \/ PullHasNothing \/ Prune \/ Timeout
         \/ \E i \in Slots : PushAcked(i) \/ HandlerDies(i)
  PROVE  InTouch'
<1>0. /\ outCur \in Nat /\ pruned \in Nat /\ cloudIn.last \in Nat
      /\ outCur <= cloudIn.last /\ pruned <= cloudIn.last
  BY DEF TypeOK, InTouch, Positions
<1>1. CASE Beat
  BY <1>0, <1>1, CyclePositions DEF Beat, Idle, hist
<1>2. CASE PushHasNothing
  BY <1>0, <1>2, CyclePositions DEF PushHasNothing, Idle, hist
<1>3. CASE PullHasNothing
  BY <1>0, <1>3, CyclePositions DEF PullHasNothing, Idle, hist
<1>4. CASE Prune
  <2>1. pruned' \in pruned .. Larger(pruned, outCur)
    BY <1>4 DEF Prune, Prunable
  <2>2. pruned' <= cloudIn.last
    BY <2>1, <1>0 DEF Larger
  <2> QED
    BY <1>0, <1>4, <2>2, CyclePositions DEF Prune, Idle, hist
<1>5. CASE Timeout
  BY <1>0, <1>5, CyclePositions DEF Timeout, Idle, hist
<1>6. ASSUME NEW i \in Slots, PushAcked(i) PROVE InTouch'
  <2>1. push[i].last <= cloudIn.last
    BY <1>6 DEF PushAcked, InTouch, Positions, GoesOn
  <2>2. outCur' <= cloudIn.last
    BY <1>0, <1>6, <2>1 DEF PushAcked
  <2>3. daemon'.pc # "applying"
    BY <1>6 DEF PushAcked, Idle, TypeOK, Cycle
  <2>4. \A j \in Slots : push'[j] = push[j] \/ push'[j] = FreeSlot
    BY <1>6 DEF PushAcked, TypeOK
  <2> QED
    BY <1>0, <1>6, <2>2, <2>3, <2>4, CyclePositions DEF PushAcked, hist
<1>7. ASSUME NEW i \in Slots, HandlerDies(i) PROVE InTouch'
  <2>1. \A j \in Slots : push'[j] = push[j] \/ push'[j] = FreeSlot
    BY <1>7 DEF HandlerDies, TypeOK
  <2>2. CASE daemon'.pc # "applying"
    BY <1>0, <1>7, <2>1, <2>2, CyclePositions DEF HandlerDies, hist
  <2>3. CASE daemon' = daemon
    <3>1. \A j \in Slots : /\ GoesOn(push'[j], journal["local"], cloudIn.last)
                           /\ push'[j].st = "applying" => push'[j] = push[j]
      <4> TAKE j \in Slots
      <4>1. GoesOn(push[j], journal["local"], cloudIn.last)
        BY DEF InTouch, Positions
      <4> QED
        BY <2>1, <4>1 DEF GoesOn, FreeSlot
    <3>2. Positions'
      BY <1>7, <2>3, <3>1 DEF HandlerDies, InTouch, Positions
    <3>3. \A s \in Sites : Reached(s)' \subseteq Reached(s)
      BY <1>7, <2>3, <3>1, ReachedLocal, ReachedCloud DEF Sites, HandlerDies
    <3>4. \A s \in Sites : \A p \in Reached(s) : p <= p
      BY ReachedNat
    <3> QED
      BY <1>0, <1>7, <3>2, <3>3, <3>4, QuietStep DEF HandlerDies, hist
  <2> QED
    BY <1>7, <2>2, <2>3 DEF HandlerDies, Idle
<1> QED
  BY <1>1, <1>2, <1>3, <1>4, <1>5, <1>6, <1>7
\* A batch is a stretch of the journal that follows the cursor.
LEMMA AfterSlice ==
  ASSUME NEW log \in Seq(Entry), NEW since \in Nat, since < Len(log)
  PROVE  Slice(After(log, since), since, log)
BY AfterProperties DEF Slice

LEMMA SendsInTouch ==
  ASSUME TypeOK, TypeOK', InTouch, SnapshotType, UNCHANGED backup,
         NEW i \in Slots, PushSends(i)
  PROVE  InTouch'
<1> DEFINE since == Larger(outCur, pruned)
           log == journal["local"]
           q == [FreeSlot EXCEPT !.st = "arrived", !.awaited = TRUE, !.epoch = epoch,
                                 !.base = since, !.batch = After(log, since)]
<1>1. /\ since \in Nat /\ since < Len(log) /\ since <= cloudIn.last /\ log \in Seq(Entry)
      /\ epoch = 1 /\ cloudIn.last \in Nat
  BY DEF PushSends, Larger, TypeOK, InTouch, Positions, Sites
<1>2. Slice(After(log, since), since, log)
  BY <1>1, AfterSlice
<1>3. GoesOn(q, log, cloudIn.last) /\ q.st # "applying"
  <2>1. /\ q.st = "arrived" /\ q.epoch = epoch /\ q.pos = 0
        /\ q.base = since /\ q.batch = After(log, since)
    BY DEF FreeSlot
  <2> QED
    BY <1>1, <1>2, <2>1 DEF GoesOn
<1>4. push'[i] = q /\ \A j \in Slots \ {i} : push'[j] = push[j]
  BY DEF PushSends, TypeOK
<1>5. \A j \in Slots : /\ GoesOn(push'[j], log, cloudIn.last)
                       /\ push'[j].st = "applying" => push'[j] = push[j]
  <2> TAKE j \in Slots
  <2>1. CASE j = i
    BY <1>3, <1>4, <2>1
  <2>2. CASE j # i
    BY <1>4, <2>2 DEF InTouch, Positions
  <2> QED
    BY <2>1, <2>2
<1>6. daemon'.pc = "awaiting"
  BY DEF PushSends, TypeOK, Cycle
<1>7. Positions'
  BY <1>5, <1>6 DEF PushSends, InTouch, Positions
<1>8. \A s \in Sites : Reached(s)' \subseteq Reached(s)
  BY <1>5, <1>6, ReachedLocal, ReachedCloud DEF Sites, PushSends
<1>9. \A s \in Sites : \A p \in Reached(s) : p <= p
  BY ReachedNat
<1> QED
  BY <1>1, <1>7, <1>8, <1>9, QuietStep DEF PushSends, hist

LEMMA FetchesInTouch ==
  ASSUME TypeOK, TypeOK', InTouch, SnapshotType, UNCHANGED backup, PullFetches
  PROVE  InTouch'
<1> DEFINE log == journal["cloud"]
<1>1. /\ inCur \in Nat /\ inCur < Len(log) /\ log \in Seq(Entry) /\ cloudIn.last \in Nat
  BY DEF PullFetches, TypeOK, Sites
<1>2. Slice(After(log, inCur), inCur, log)
  BY <1>1, AfterSlice
<1>3. /\ daemon'.base = inCur /\ daemon'.pos = 0 /\ daemon'.fetched = After(log, inCur)
  BY DEF PullFetches, TypeOK, Cycle
<1>4. Len(daemon'.fetched) \in Nat
  BY LenProperties DEF TypeOK, Cycle
<1>5. Positions'
  BY <1>2, <1>3, <1>4 DEF PullFetches, InTouch, Positions
<1>6. Reached("local")' = {inCur} /\ inCur \in Reached("local")
  BY <1>1, <1>3 DEF Reached, PullFetches
<1>7. Reached("cloud")' = Reached("cloud")
  BY DEF Reached, PullFetches
<1>8. \A s \in Sites : Reached(s)' \subseteq Reached(s)
  BY <1>6, <1>7 DEF Sites
<1>9. \A s \in Sites : \A p \in Reached(s) : p <= p
  BY ReachedNat
<1> QED
  BY <1>1, <1>5, <1>8, <1>9, QuietStep DEF PullFetches, hist

LEMMA AdvancesInTouch ==
  ASSUME TypeOK, TypeOK', InTouch, SnapshotType, UNCHANGED backup, PullAdvances
  PROVE  InTouch'
<1>1. /\ daemon.pc = "applying" /\ inCur' = daemon.base + daemon.pos /\ daemon'.pc # "applying"
      /\ daemon.pos = Len(daemon.fetched) /\ cloudIn.last \in Nat
  BY DEF PullAdvances, Idle, TypeOK
<1>2. inCur' <= Len(journal["cloud"])
  BY <1>1 DEF InTouch, Positions, Slice
<1>3. Positions'
  BY <1>1, <1>2 DEF PullAdvances, InTouch, Positions
<1>4. Reached("local")' = {inCur'} /\ inCur' \in Reached("local")
  BY <1>1 DEF Reached
<1>5. Reached("cloud")' = Reached("cloud")
  BY DEF Reached, PullAdvances
<1>6. \A s \in Sites : Reached(s)' \subseteq Reached(s)
  BY <1>4, <1>5 DEF Sites
<1>7. \A s \in Sites : \A p \in Reached(s) : p <= p
  BY ReachedNat
<1> QED
  BY <1>1, <1>3, <1>6, <1>7, QuietStep DEF PullAdvances, hist

\* The request that is served, of the only slot.
LEMMA HandlerInTouch ==
  ASSUME TypeOK, TypeOK', InTouch, SnapshotType, UNCHANGED backup, OneAtATime,
         NEW i \in Slots, HandlerStarts(i) \/ HandlerSkips(i) \/ HandlerFinishes(i)
  PROVE  InTouch'
<1> DEFINE log == journal["local"]
<1>0. /\ GoesOn(push[i], log, cloudIn.last) /\ push[i] \in Request /\ push'[i] \in Request
      /\ cloudIn.last \in Nat /\ cloudIn.last <= Len(log) /\ cloudIn.epoch \in {0, 1}
      /\ Len(log) \in Nat /\ Len(push[i].batch) \in Nat
  BY LenProperties DEF TypeOK, InTouch, Positions, Request, Sites
<1>1. \A j \in Slots : j = i
  BY DEF OneAtATime
<1>2. CASE HandlerStarts(i)
  <2>1. StartFrom(i) = cloudIn.last
    BY <1>0, <1>2 DEF HandlerStarts, StartFrom, GoesOn
  <2>2. push'[i] = [push[i] EXCEPT !.st = "applying", !.last = cloudIn.last]
    BY <1>2, <2>1 DEF HandlerStarts, TypeOK
  <2>3. GoesOn(push'[i], log, cloudIn.last) /\ push'[i].last = cloudIn.last
    <3>1. push[i].pos = 0
      BY <1>0, <1>2 DEF HandlerStarts, GoesOn
    <3>2. /\ push'[i].st = "applying" /\ push'[i].last = cloudIn.last /\ push'[i].pos = 0
          /\ push'[i].epoch = push[i].epoch /\ push'[i].base = push[i].base
          /\ push'[i].batch = push[i].batch
      BY <1>0, <2>2, <3>1 DEF Request
    <3>3. push[i].st = "arrived" /\ push[i].base \in Nat
      BY <1>0, <1>2 DEF HandlerStarts, Request
    <3> QED
      BY <1>0, <3>2, <3>3 DEF GoesOn
  <2>4. Positions'
    BY <1>1, <1>2, <2>3 DEF HandlerStarts, InTouch, Positions, box
  <2>5. Reached("cloud")' \subseteq Reached("cloud")
    BY <1>1, <1>2, <2>3 DEF HandlerStarts, Reached
  <2>6. Reached("local")' \subseteq Reached("local")
    BY <1>2, ReachedLocal DEF HandlerStarts, box
  <2>7. \A s \in Sites : \A p \in Reached(s)' : p \in Reached(s) /\ p <= p
    BY <2>5, <2>6, ReachedNat DEF Sites
  <2> QED
    BY <1>0, <1>2, <2>4, <2>7, QuietStep DEF HandlerStarts, hist
<1>3. CASE HandlerSkips(i)
  <2>1. push'[i] = [push[i] EXCEPT !.pos = push[i].pos + 1]
    BY <1>3 DEF HandlerSkips, TypeOK
  <2>2. GoesOn(push'[i], log, cloudIn.last) /\ push'[i].last = push[i].last
    BY <1>0, <1>3, <2>1 DEF GoesOn, HandlerSkips, Fresh, AtSeq, Request
  <2>4. Positions'
    BY <1>1, <1>3, <2>2 DEF HandlerSkips, InTouch, Positions, box
  <2>5. Reached("cloud")' \subseteq Reached("cloud")
    BY <1>1, <1>3, <2>2 DEF HandlerSkips, Reached
  <2>6. Reached("local")' \subseteq Reached("local")
    BY <1>3, ReachedLocal DEF HandlerSkips, box
  <2>7. \A s \in Sites : \A p \in Reached(s)' : p \in Reached(s) /\ p <= p
    BY <2>5, <2>6, ReachedNat DEF Sites
  <2> QED
    BY <1>0, <1>3, <2>4, <2>7, QuietStep DEF HandlerSkips, hist
<1>4. CASE HandlerFinishes(i)
  <2>1. /\ push[i].st = "applying" /\ cloudIn' = [last |-> push[i].last, epoch |-> push[i].epoch]
        /\ push'[i] = IF push[i].awaited THEN [push[i] EXCEPT !.st = "done"] ELSE FreeSlot
    BY <1>4 DEF HandlerFinishes, TypeOK, LastSeq
  <2>2. /\ cloudIn.last <= cloudIn'.last /\ cloudIn'.last <= Len(log)
        /\ cloudIn'.epoch \in {0, 1} /\ push[i].base <= cloudIn'.last
    BY <1>0, <2>1 DEF GoesOn, Request
  <2>3. GoesOn(push'[i], log, cloudIn'.last) /\ push'[i].st # "applying"
    BY <1>0, <2>1, <2>2 DEF GoesOn, Request, FreeSlot
  <2>4. outCur \in Nat /\ pruned \in Nat /\ cloudIn'.last \in Nat
    BY DEF TypeOK
  <2>5. Positions'
    BY <1>0, <1>1, <1>4, <2>2, <2>3, <2>4 DEF HandlerFinishes, InTouch, Positions, box
  <2>6. Reached("cloud")' = {cloudIn'.last} /\ cloudIn'.last \in Reached("cloud")
    BY <1>1, <2>1, <2>3 DEF Reached
  <2>7. Reached("local")' \subseteq Reached("local")
    BY <1>4, ReachedLocal DEF HandlerFinishes, box
  <2>8. \A s \in Sites : \A p \in Reached(s)' : p \in Reached(s) /\ p <= p
    BY <2>6, <2>7, ReachedNat DEF Sites
  <2> QED
    BY <1>4, <2>2, <2>5, <2>8, QuietStep DEF HandlerFinishes, hist
<1> QED
  BY <1>2, <1>3, <1>4
\* An entry is gone through at one of the two sides.
LEMMA ApplyInTouch ==
  ASSUME OneByOne, TypeOK, TypeOK', InTouch, SnapshotType,
         UNCHANGED <<journal, born, unsynced, backup, cloudIn>>, Positions',
         NEW s \in Sites, NEW p \in Reached(s), p < Len(journal[Other(s)]),
         Apply(s, journal[Other(s)][p + 1]),
         \A q \in Reached(s)' : q <= p + 1, Reached(Other(s))' = Reached(Other(s))
  PROVE  InTouch'
<1> DEFINE t == Other(s)
<1>0. /\ t \in Sites /\ t # s /\ Other(t) = s
      /\ journal[t] \in Seq(Entry) /\ p + 1 \in 1 .. Len(journal[t])
      /\ p \in Nat /\ Len(journal[t]) \in Nat
  <2>1. t \in Sites /\ t # s /\ Other(t) = s
    BY DEF Other, Sites
  <2>2. p \in Nat /\ Len(journal[t]) \in Nat
    BY ReachedType DEF InTouch
  <2>3. journal[t] \in Seq(Entry)
    BY <2>1 DEF TypeOK
  <2> QED
    BY <2>1, <2>2, <2>3
<1>1. InStep(journal, unsynced, s, db'[s], recon'[s], p + 1)
  <2>1. InStep(journal, unsynced, s, db[s], recon[s], p) /\ Births(journal, born)
    BY DEF InTouch
  <2> QED
    BY <1>0, <2>1, ApplyInStep
<1>2. db'[t] = db[t] /\ recon'[t] = recon[t]
  BY <1>0 DEF Apply, TypeOK
<1>3. Births(journal, born)'
  BY DEF InTouch
<1>4. Snapshot'
  BY DEF InTouch, Snapshot
<1>5. \A u \in Sites : Reached(u)' \subseteq Nat
  BY ReachedNatNext
<1>6. ASSUME NEW q \in Reached(s)' PROVE InStep(journal, unsynced, s, db'[s], recon'[s], q)
  BY <1>0, <1>1, <1>5, <1>6, LessInStep
<1>7. ASSUME NEW q \in Reached(t)' PROVE InStep(journal, unsynced, t, db'[t], recon'[t], q)
  BY <1>0, <1>2, <1>7 DEF InTouch
<1>8. \A u \in Sites : u = s \/ u = t
  BY DEF Other, Sites
<1> QED
  BY <1>3, <1>4, <1>6, <1>7, <1>8 DEF InTouch

LEMMA PullAppliesInTouch ==
  ASSUME OneByOne, TypeOK, TypeOK', InTouch, SnapshotType, UNCHANGED backup, PullApplies
  PROVE  InTouch'
<1> DEFINE p == daemon.base + daemon.pos
           log == journal["cloud"]
<1>0. /\ daemon.pc = "applying" /\ daemon.pos < Len(daemon.fetched) /\ daemon.base \in Nat
      /\ daemon.pos \in Nat /\ Len(daemon.fetched) \in Nat /\ Other("local") = "cloud"
      /\ Slice(daemon.fetched, daemon.base, log) /\ daemon.base = inCur
      /\ daemon' = [daemon EXCEPT !.pos = daemon.pos + 1] /\ daemon \in Cycle
      /\ Len(log) \in Nat
  BY LenProperties DEF PullApplies, TypeOK, Cycle, InTouch, Positions, Other, Sites
<1>1. daemon.pos + 1 \in 1 .. Len(daemon.fetched)
  BY <1>0
<1>2. daemon.fetched[daemon.pos + 1] = log[p + 1] /\ p < Len(log)
  <2>1. daemon.fetched[daemon.pos + 1] = log[daemon.base + (daemon.pos + 1)]
    BY <1>0, <1>1 DEF Slice
  <2>2. daemon.base + (daemon.pos + 1) = p + 1
    BY <1>0
  <2>3. p < Len(log)
    BY <1>0 DEF Slice
  <2> QED
    BY <2>1, <2>2, <2>3
<1>3. Apply("local", journal[Other("local")][p + 1])
  BY <1>0, <1>2 DEF PullApplies
<1>4. p \in Reached("local")
  BY <1>0 DEF Reached
<1>5. /\ daemon'.pc = "applying" /\ daemon'.base = daemon.base
      /\ daemon'.pos = daemon.pos + 1 /\ daemon'.fetched = daemon.fetched
  BY <1>0 DEF Cycle
<1>6. Positions'
  BY <1>0, <1>5 DEF PullApplies, InTouch, Positions
<1>7. \A q \in Reached("local")' : q <= p + 1
  <2>1. inCur' = inCur
    BY DEF PullApplies
  <2>2. Reached("local")' \subseteq {inCur, daemon.base + (daemon.pos + 1)}
    BY <1>5, <2>1 DEF Reached
  <2> QED
    BY <1>0, <2>2
<1>8. Reached("cloud")' = Reached("cloud")
  BY DEF Reached, PullApplies
<1> QED
  BY <1>0, <1>2, <1>3, <1>4, <1>6, <1>7, <1>8, ApplyInTouch DEF PullApplies, hist, Sites

LEMMA HandlerAppliesInTouch ==
  ASSUME OneByOne, TypeOK, TypeOK', InTouch, SnapshotType, UNCHANGED backup,
         NEW i \in Slots, HandlerApplies(i)
  PROVE  InTouch'
<1> DEFINE q == push[i]
           p == q.last
           log == journal["local"]
<1>0. /\ q.st = "applying" /\ q.pos < Len(q.batch) /\ q.base \in Nat /\ q.pos \in Nat
      /\ q.last \in Nat /\ Len(q.batch) \in Nat /\ Other("cloud") = "local"
      /\ GoesOn(q, log, cloudIn.last) /\ q.base + q.pos + 1 > q.last /\ cloudIn.last \in Nat
      /\ Len(log) \in Nat
  BY LenProperties DEF HandlerApplies, TypeOK, Request, InTouch, Positions, Other, Sites,
                       Fresh, AtSeq
<1>a. q \in Request
  BY DEF TypeOK
<1>b. /\ q.base \in Nat /\ q.pos \in Nat /\ q.last \in Nat /\ cloudIn.last \in Nat
      /\ Len(q.batch) \in Nat /\ Len(log) \in Nat /\ q.pos < Len(q.batch)
  BY <1>0
<1>1. \A j \in Slots : j = i
  BY DEF OneByOne, OneAtATime
<1>2. p = q.base + q.pos /\ cloudIn.last <= p
  BY <1>0 DEF GoesOn
<1>3. q.batch[q.pos + 1] = log[p + 1] /\ p < Len(log)
  <2>1. q.pos + 1 \in 1 .. Len(q.batch) /\ Slice(q.batch, q.base, log)
    BY <1>0 DEF GoesOn
  <2>2. q.batch[q.pos + 1] = log[q.base + (q.pos + 1)]
    BY <2>1 DEF Slice
  <2>3. q.base + (q.pos + 1) = p + 1
    BY <1>0, <1>2
  <2>4. p < Len(log)
    <3>1. q.base + Len(q.batch) <= Len(log)
      BY <2>1 DEF Slice
    <3> QED
      BY <1>b, <1>2, <3>1
  <2> QED
    BY <2>2, <2>3, <2>4
<1>4. Apply("cloud", journal[Other("cloud")][p + 1])
  BY <1>0, <1>3 DEF HandlerApplies
<1>5. push'[i] = [q EXCEPT !.pos = q.pos + 1, !.last = p + 1]
  BY <1>0, <1>2 DEF HandlerApplies, TypeOK, AtSeq
<1>6. /\ push'[i].st = "applying" /\ push'[i].epoch = q.epoch /\ push'[i].base = q.base
      /\ push'[i].batch = q.batch /\ push'[i].pos = q.pos + 1 /\ push'[i].last = p + 1
  BY <1>0, <1>a, <1>5 DEF Request
<1>7. GoesOn(push'[i], log, cloudIn.last)
  <2>1. q.epoch = 1 /\ Slice(q.batch, q.base, log) /\ q.base <= cloudIn.last
    BY <1>0 DEF GoesOn
  <2>2. q.pos + 1 <= Len(q.batch) /\ q.base + (q.pos + 1) <= p + 1 /\ cloudIn.last <= p + 1
    BY <1>b, <1>2
  <2>3. p + 1 <= Len(log)
    <3>1. p < Len(log)
      BY <1>3
    <3> QED
      BY <1>b, <3>1
  <2> QED
    BY <1>6, <2>1, <2>2, <2>3 DEF GoesOn
<1>8. Positions'
  BY <1>1, <1>7 DEF HandlerApplies, InTouch, Positions, box
<1>9. p \in Reached("cloud")
  BY <1>0 DEF Reached
<1>10. \A n \in Reached("cloud")' : n <= p + 1
  <2>1. Reached("cloud")' \subseteq {cloudIn.last, p + 1}
    BY <1>1, <1>6 DEF Reached, HandlerApplies
  <2> QED
    BY <1>0, <1>2, <2>1
<1>11. Reached("local")' = Reached("local")
  BY DEF Reached, HandlerApplies, box
<1> QED
  BY <1>0, <1>3, <1>4, <1>8, <1>9, <1>10, <1>11, ApplyInTouch DEF HandlerApplies, hist, Sites

\* A handler writes and journals.
LEMMA BatchInTouch ==
  ASSUME OneByOne, TypeOK, TypeOK', InTouch, SnapshotType, UNCHANGED backup,
         NEW w \in Sites, NEW r \in Rows, NEW k \in Kinds, NEW v \in Vals, Batch(w, r, k, v)
  PROVE  InTouch'
<1> DEFINE e == NewEntry(w, r, k, v)
           t == Other(w)
<1>0. /\ t \in Sites /\ t # w /\ Other(t) = w /\ \A u \in Sites : u = w \/ u = t
      /\ journal \in [Sites -> Seq(Entry)] /\ db[w] \in [Rows -> Contents]
      /\ \A u \in Sites : Len(journal[u]) \in Nat
  BY LenProperties DEF Other, Sites, TypeOK
<1>1. e \in Entry
  <2>1. writes[w] + 1 \in Nat
    BY DEF TypeOK
  <2> QED
    BY <2>1 DEF NewEntry, Entry
<1>2. /\ (e.kind = "insert") <=> (e.row \notin born)
      /\ journal' = [journal EXCEPT ![w] = Append(@, e)] /\ born' = born \cup {e.row}
      /\ db' = [db EXCEPT ![w] = [db[w] EXCEPT ![e.row] = Effect(e.kind, e.val, @)]]
  BY DEF Batch, Execute
<1>3. /\ db'[w] = [db[w] EXCEPT ![e.row] = Effect(e.kind, e.val, @)] /\ db'[t] = db[t]
      /\ journal'[w] = Append(journal[w], e) /\ journal'[t] = journal[t]
      /\ Len(journal'[w]) = Len(journal[w]) + 1
      /\ \A n \in 1 .. Len(journal[w]) : journal'[w][n] = journal[w][n]
  BY <1>0, <1>1, <1>2, AppendProperties DEF TypeOK
<1>4. Births(journal, born)'
  BY <1>0, <1>1, <1>2, BirthsWritten DEF InTouch
<1>5. \A u \in Sites : Reached(u)' = Reached(u)
  BY DEF Reached, Batch, box, Sites
<1>6. ASSUME NEW p \in Reached(w) PROVE InStep(journal', unsynced, w, db'[w], recon[w], p)
  <2>1. InStep(journal, unsynced, w, db[w], recon[w], p) /\ Births(journal, born)
    BY <1>6 DEF InTouch
  <2>2. p \in Nat /\ p <= Len(journal[t])
    BY <1>6, ReachedType DEF InTouch
  <2>3. InStep([journal EXCEPT ![w] = Append(@, e)], unsynced, w,
               [db[w] EXCEPT ![e.row] = Effect(e.kind, e.val, @)], recon[w], p)
    BY <1>0, <1>1, <1>2, <2>1, <2>2, OwnWrites
  <2> QED
    BY <1>2, <1>3, <2>3
<1>7. ASSUME NEW p \in Reached(t) PROVE InStep(journal', unsynced, t, db'[t], recon[t], p)
  <2>1. InStep(journal, unsynced, t, db[t], recon[t], p)
    BY <1>0, <1>7 DEF InTouch
  <2>2. p \in Nat /\ p <= Len(journal[w])
    BY <1>0, <1>7, ReachedType DEF InTouch
  <2> QED
    BY <1>0, <1>1, <1>2, <1>3, <2>1, <2>2, OtherWrites
<1>8. Positions'
  <2>1. \A u \in Sites : /\ Len(journal[u]) <= Len(journal'[u])
                         /\ \A n \in 1 .. Len(journal[u]) : journal'[u][n] = journal[u][n]
                         /\ Len(journal[u]) \in Nat /\ Len(journal'[u]) \in Nat
    <3> TAKE u \in Sites
    <3>1. CASE u = w
      <4>1. Len(journal[w]) \in Nat /\ Len(journal'[w]) = Len(journal[w]) + 1
        BY <1>0, <1>3
      <4> QED
        BY <1>3, <3>1, <4>1
    <3>2. CASE u = t
      BY <1>0, <1>3, <3>2
    <3> QED
      BY <1>0, <3>1, <3>2
  <2>2. ASSUME NEW u \in Sites, NEW batch \in Seq(Entry), NEW base \in Nat, Slice(batch, base, journal[u])
        PROVE  Slice(batch, base, journal'[u])
    <3>1. Len(batch) \in Nat /\ Len(journal[u]) \in Nat /\ Len(journal'[u]) \in Nat
      BY <2>1, LenProperties
    <3>2. base + Len(batch) <= Len(journal'[u])
      BY <2>1, <2>2, <3>1 DEF Slice
    <3>3. ASSUME NEW n \in 1 .. Len(batch) PROVE batch[n] = journal'[u][base + n]
      <4>1. batch[n] = journal[u][base + n] /\ base + Len(batch) <= Len(journal[u])
        BY <2>2 DEF Slice
      <4>2. base + n \in 1 .. Len(journal[u])
        BY <3>1, <4>1
      <4> QED
        BY <2>1, <4>1, <4>2
    <3> QED
      BY <3>2, <3>3 DEF Slice
  <2>3. ASSUME NEW i \in Slots PROVE GoesOn(push[i], journal'["local"], cloudIn.last)
    <3>1. push[i] \in Request /\ GoesOn(push[i], journal["local"], cloudIn.last)
      BY DEF TypeOK, InTouch, Positions
    <3>2. /\ push[i].batch \in Seq(Entry) /\ push[i].base \in Nat /\ push[i].last \in Nat
          /\ "local" \in Sites
      BY <3>1 DEF Request, Sites
    <3> QED
      BY <2>1, <2>2, <3>1, <3>2 DEF GoesOn
  <2>4. daemon.pc = "applying" => Slice(daemon.fetched, daemon.base, journal'["cloud"])
    BY <2>2 DEF TypeOK, Cycle, InTouch, Positions, Sites
  <2>5. /\ cloudIn.last \in Nat /\ inCur \in Nat
    BY DEF TypeOK
  <2> QED
    BY <2>1, <2>3, <2>4, <2>5 DEF Batch, InTouch, Positions, box, Sites
<1>9. Snapshot'
  <2>1. Len(backup.journal) <= Len(journal["local"]) /\ Len(backup.journal) \in Nat
    BY LenProperties DEF InTouch, Snapshot, SnapshotType
  <2>2. CASE w = "local"
    <3>1. Len(backup.journal) < Len(journal'["local"])
      BY <1>0, <1>3, <2>1, <2>2
    <3>2. Len(journal'["local"]) \in Nat
      BY <1>0, <1>3, <2>2
    <3>3. backup.journal # journal'["local"]
      BY <3>1, <3>2, <2>1
    <3>4. Len(backup.journal) <= Len(journal'["local"])
      BY <3>1, <3>2, <2>1
    <3> QED
      BY <3>3, <3>4 DEF Snapshot
  <2>3. CASE w = "cloud"
    <3>1. t = "local" /\ journal'["local"] = journal["local"]
      BY <1>3, <2>3 DEF Other
    <3>2. ASSUME backup.journal = journal["local"]
          PROVE  /\ backup.inCur <= Len(journal'["cloud"])
                 /\ InStep(journal', unsynced, "local", backup.db, backup.recon, backup.inCur)
      <4>1. /\ backup.inCur <= Len(journal["cloud"]) /\ backup.inCur \in Nat
            /\ InStep(journal, unsynced, "local", backup.db, backup.recon, backup.inCur)
        BY <3>2 DEF InTouch, Snapshot, SnapshotType
      <4>2. InStep(journal', unsynced, "local", backup.db, backup.recon, backup.inCur)
        <5>1. /\ InStep(journal, unsynced, Other(w), backup.db, backup.recon, backup.inCur)
              /\ backup.inCur <= Len(journal[w])
          BY <2>3, <3>1, <4>1
        <5>2. InStep([journal EXCEPT ![w] = Append(@, e)], unsynced, Other(w), backup.db,
                     backup.recon, backup.inCur)
          BY <1>0, <1>1, <4>1, <5>1, OtherWrites
        <5> QED
          BY <1>2, <3>1, <5>2
      <4> QED
        BY <4>1, <4>2, <1>0, <1>3, <2>3
    <3> QED
      BY <3>1, <3>2, <2>1 DEF Snapshot, Batch, InTouch
  <2> QED
    BY <2>2, <2>3 DEF Sites
<1> QED
  BY <1>0, <1>4, <1>5, <1>6, <1>7, <1>8, <1>9 DEF InTouch, Batch
-----------------------------------------------------------------------------
(* The snapshot and its return.                                            *)

LEMMA TakesInTouch ==
  ASSUME TypeOK, InTouch, TakeBackup
  PROVE  InTouch'
<1>1. backup' = Disk /\ UNCHANGED vars
  BY DEF TakeBackup
<1>2. /\ backup'.journal = journal["local"] /\ backup'.epoch = epoch /\ backup'.outCur = outCur
      /\ backup'.pruned = pruned /\ backup'.inCur = inCur
      /\ backup'.db = db["local"] /\ backup'.recon = recon["local"]
  BY <1>1 DEF Disk
<1>3. inCur \in Reached("local") /\ "local" \in Sites
  BY DEF Reached, Sites
<1>4. InStep(journal, unsynced, "local", backup'.db, backup'.recon, backup'.inCur)
  BY <1>2, <1>3 DEF InTouch
<1>5. Len(journal["local"]) \in Nat
  BY <1>3, LenProperties DEF TypeOK
<1>6. /\ journal' = journal /\ unsynced' = unsynced /\ cloudIn' = cloudIn /\ born' = born
      /\ db' = db /\ recon' = recon /\ epoch' = epoch /\ outCur' = outCur /\ pruned' = pruned
      /\ inCur' = inCur /\ push' = push /\ daemon' = daemon
  BY <1>1 DEF vars, box, hist
<1>7. Snapshot'
  BY <1>2, <1>4, <1>5, <1>6 DEF Snapshot, InTouch, Positions
<1>8. Positions' /\ \A s \in Sites : Reached(s)' = Reached(s)
  BY <1>6 DEF InTouch, Positions, Reached
<1> QED
  BY <1>6, <1>7, <1>8 DEF InTouch

LEMMA RestoresInTouch ==
  ASSUME TypeOK, TypeOK', InTouch, SnapshotType, Restore, unsynced' # Rows
  PROVE  InTouch'
<1>1. journal["local"] = backup.journal /\ unsynced' = unsynced
  BY DEF Restore
<1>2. /\ journal' = journal /\ db'["local"] = backup.db /\ db'["cloud"] = db["cloud"]
      /\ recon'["local"] = backup.recon /\ recon'["cloud"] = recon["cloud"]
  BY <1>1 DEF Restore, TypeOK, Sites
<1>3. /\ cloudIn' = cloudIn /\ born' = born /\ backup' = backup /\ push' = Abandoned
      /\ daemon'.pc # "applying" /\ inCur' = backup.inCur /\ outCur' = backup.outCur
      /\ pruned' = backup.pruned /\ epoch' = backup.epoch
  BY DEF Restore, hist, Idle
<1>4. \A i \in Slots : /\ GoesOn(push'[i], journal["local"], cloudIn.last)
                       /\ push'[i].st = "applying" =>
                            push[i].st = "applying" /\ push'[i].last = push[i].last
  <2> TAKE i \in Slots
  <2>1. GoesOn(push[i], journal["local"], cloudIn.last)
    BY DEF InTouch, Positions
  <2> QED
    BY <1>3, <2>1, AbandonedGoesOn
<1>5. /\ backup.epoch = 1 /\ backup.outCur <= cloudIn.last /\ backup.pruned <= cloudIn.last
      /\ backup.inCur <= Len(journal["cloud"])
      /\ InStep(journal, unsynced, "local", backup.db, backup.recon, backup.inCur)
  BY <1>1 DEF InTouch, Snapshot
<1>6. Positions'
  BY <1>2, <1>3, <1>4, <1>5 DEF InTouch, Positions
<1>7. Snapshot'
  BY <1>1, <1>2, <1>3 DEF InTouch, Snapshot
<1>8. Births(journal, born)'
  BY <1>2, <1>3 DEF InTouch
<1>9. Reached("local")' = {backup.inCur} /\ Reached("cloud")' \subseteq Reached("cloud")
  BY <1>3, <1>4, ReachedCloud DEF Reached
<1>10. ASSUME NEW s \in Sites, NEW p \in Reached(s)'
       PROVE  InStep(journal', unsynced', s, db'[s], recon'[s], p)
  <2>1. CASE s = "local"
    BY <1>1, <1>2, <1>5, <1>9, <1>10, <2>1
  <2>2. CASE s = "cloud"
    BY <1>1, <1>2, <1>9, <1>10, <2>2 DEF InTouch
  <2> QED
    BY <2>1, <2>2 DEF Sites
<1> QED
  BY <1>6, <1>7, <1>8, <1>10 DEF InTouch

LEMMA TypeNextR == TypeOK /\ SnapshotType /\ [NextR]_varsR => TypeOK' /\ SnapshotType'
<1> SUFFICES ASSUME TypeOK, SnapshotType, [NextR]_varsR PROVE TypeOK' /\ SnapshotType'
  OBVIOUS
<1>1. CASE Next /\ UNCHANGED backup
  BY <1>1, NextType DEF SnapshotType
<1>2. CASE UNCHANGED varsR
  <2>1. UNCHANGED vars /\ UNCHANGED backup
    BY <1>2 DEF varsR
  <2> QED
    BY <2>1, NextType DEF SnapshotType
<1>3. CASE TakeBackup
  <2>1. UNCHANGED vars /\ backup' = Disk
    BY <1>3 DEF TakeBackup
  <2>2. Disk \in [db : [Rows -> Contents], journal : Seq(Entry), recon : SUBSET Entry,
                  applied : Seq(Nat), pruned : Nat, epoch : Nat \ {0}, outCur : Nat, inCur : Nat]
    BY DEF Disk, TypeOK, Sites
  <2> QED
    BY <2>1, <2>2, NextType DEF SnapshotType
<1>4. CASE Restore
  <2>1. /\ backup.db \in [Rows -> Contents] /\ backup.journal \in Seq(Entry)
        /\ backup.recon \in SUBSET Entry /\ backup.applied \in Seq(Nat) /\ backup.pruned \in Nat
        /\ backup.epoch \in Nat \ {0} /\ backup.outCur \in Nat /\ backup.inCur \in Nat
    BY DEF SnapshotType
  <2>2. push' \in [Slots -> Request]
    BY <1>4, AbandonedType DEF Restore
  <2>3. daemon' \in Cycle
    BY <1>4, IdleType DEF Restore
  <2>4. unsynced' \subseteq Rows
    BY <1>4 DEF Restore, TypeOK
  <2> QED
    BY <1>4, <2>1, <2>2, <2>3, <2>4 DEF Restore, TypeOK, SnapshotType, hist
<1> QED
  BY <1>1, <1>2, <1>3, <1>4 DEF NextR

LEMMA SplitNext ==
  ASSUME OneByOne
  PROVE  SplitInv /\ [NextR]_varsR => SplitInv'
<1> SUFFICES ASSUME SplitInv, [NextR]_varsR PROVE SplitInv'
  OBVIOUS
<1>0. /\ TypeOK /\ SnapshotType /\ TypeOK' /\ SnapshotType' /\ OneAtATime
      /\ \A s \in Sites : pending[s] = {}
      /\ unsynced \subseteq Rows
  BY TypeNextR DEF SplitInv, OneByOne, TypeOK
<1>1. unsynced # Rows => InTouch
  BY DEF SplitInv
<1>2. ~Journals /\ ~Loses /\ \A s \in Sites, r \in Rows, k \in Kinds, v \in Vals : ~Run(s, r, k, v)
  <2>1. ~Journals /\ ~Loses
    BY <1>0 DEF Journals, Loses
  <2>2. ASSUME NEW s \in Sites, NEW r \in Rows, NEW k \in Kinds, NEW v \in Vals, Run(s, r, k, v)
        PROVE  FALSE
    BY <1>0, <2>2, FS_EmptySet DEF Run, OneByOne
  <2> QED
    BY <2>1, <2>2
<1>3. CASE UNCHANGED varsR
  BY <1>0, <1>1, <1>3 DEF varsR, vars, box, hist, SplitInv, InTouch, Positions, Snapshot, Reached
<1>4. ASSUME NEW w \in Sites, NEW r \in Rows, NEW k \in Kinds, NEW v \in Vals,
             Batch(w, r, k, v), UNCHANGED backup
      PROVE  SplitInv'
  <2>1. pending' = pending /\ unsynced' = unsynced
    BY <1>4 DEF Batch
  <2> QED
    BY <1>0, <1>1, <1>4, <2>1, BatchInTouch DEF SplitInv
<1>5. CASE Daemon /\ UNCHANGED backup
  <2>1. pending' = pending /\ unsynced' = unsynced
    BY <1>5 DEF Daemon, Beat, Pushes, PushHasNothing, PushSends, PushAcked, Pulls, PullFetches,
                PullHasNothing, PullApplies, PullAdvances, Prune
  <2>2. ASSUME unsynced # Rows PROVE InTouch'
    BY <1>0, <1>1, <1>5, <2>2, DaemonInTouch, SendsInTouch, FetchesInTouch, AdvancesInTouch,
       PullAppliesInTouch DEF Daemon, Pushes, Pulls
  <2> QED
    BY <1>0, <2>1, <2>2 DEF SplitInv
<1>6. ASSUME NEW i \in Slots, Handler(i), UNCHANGED backup PROVE SplitInv'
  <2>1. pending' = pending /\ unsynced' = unsynced
    BY <1>6 DEF Handler, HandlerStarts, HandlerSkips, HandlerApplies, HandlerFinishes
  <2>2. ASSUME unsynced # Rows PROVE InTouch'
    BY <1>0, <1>1, <1>6, <2>2, HandlerInTouch, HandlerAppliesInTouch DEF Handler
  <2> QED
    BY <1>0, <2>1, <2>2 DEF SplitInv
<1>7. CASE Timeout /\ UNCHANGED backup
  BY <1>0, <1>1, <1>7, DaemonInTouch DEF SplitInv, Timeout
<1>8. ASSUME NEW i \in Slots, HandlerDies(i), UNCHANGED backup PROVE SplitInv'
  BY <1>0, <1>1, <1>8, DaemonInTouch DEF SplitInv, HandlerDies
<1>9. CASE Crash /\ UNCHANGED backup
  <2>1. \A s \in Sites : pending'[s] = {}
    BY <1>0, <1>9 DEF Crash, TypeOK
  <2>2. unsynced' = unsynced
    BY <1>0, <1>9 DEF Crash, Sites
  <2>3. ASSUME unsynced # Rows PROVE InTouch'
    <3>1. /\ outCur \in Nat /\ outCur <= cloudIn.last /\ pruned <= cloudIn.last
      BY <1>0, <1>1, <2>3 DEF TypeOK, InTouch, Positions
    <3> QED
      BY <1>0, <1>1, <1>9, <2>2, <2>3, <3>1, CyclePositions DEF Crash, Idle, hist
  <2> QED
    BY <1>0, <2>1, <2>2, <2>3 DEF SplitInv
<1>10. CASE Reimage /\ UNCHANGED backup
  <2>1. \A s \in Sites : pending'[s] = {}
    BY <1>0, <1>10 DEF Reimage, TypeOK
  <2>2. unsynced' = Rows
    BY <1>10 DEF Reimage
  <2> QED
    BY <1>0, <2>1, <2>2 DEF SplitInv
<1>11. CASE TakeBackup
  <2>1. pending' = pending /\ unsynced' = unsynced
    BY <1>11 DEF TakeBackup, vars
  <2> QED
    BY <1>0, <1>1, <1>11, <2>1, TakesInTouch DEF SplitInv
<1>12. CASE Restore
  <2>1. pending' = pending /\ (unsynced' # Rows => unsynced # Rows)
    BY <1>12 DEF Restore
  <2> QED
    BY <1>0, <1>1, <1>12, <2>1, RestoresInTouch DEF SplitInv
<1> QED
  BY <1>2, <1>3, <1>4, <1>5, <1>6, <1>7, <1>8, <1>9, <1>10, <1>11, <1>12
     DEF NextR, Next, Write, Fails
LEMMA SplitInit == InitR => SplitInv
<1> SUFFICES ASSUME InitR PROVE SplitInv
  OBVIOUS
<1>0. Init /\ TypeOK /\ backup = Disk
  BY InitType DEF InitR
<1>1. SnapshotType /\ \A s \in Sites : pending[s] = {}
  <2>1. Disk \in [db : [Rows -> Contents], journal : Seq(Entry), recon : SUBSET Entry,
                  applied : Seq(Nat), pruned : Nat, epoch : Nat \ {0}, outCur : Nat, inCur : Nat]
    BY <1>0 DEF Disk, TypeOK, Sites
  <2> QED
    BY <1>0, <2>1 DEF SnapshotType, Init
<1>2. /\ \A s \in Sites : journal[s] = <<>> /\ Other(s) \in Sites
      /\ epoch = 1 /\ outCur = 0 /\ pruned = 0 /\ inCur = 0 /\ cloudIn = [last |-> 0, epoch |-> 0]
      /\ daemon = Idle /\ push = [i \in Slots |-> FreeSlot] /\ unsynced = {} /\ born = Seeded
      /\ db = [s \in Sites |-> [r \in Rows |-> IF r \in Seeded THEN 0 ELSE Absent]]
      /\ recon = [s \in Sites |-> {}]
  BY <1>0 DEF Init, Other, Sites
<1>3. Positions
  <2>1. \A i \in Slots : GoesOn(push[i], journal["local"], cloudIn.last)
    BY <1>2 DEF GoesOn, FreeSlot
  <2> QED
    BY <1>2, <2>1 DEF Positions, Idle, Sites
<1>4. Births(journal, born)
  BY <1>2 DEF Births, InsertedFirst, Inserts, Sites
<1>5. ASSUME NEW s \in Sites PROVE InStep(journal, unsynced, s, db[s], recon[s], 0)
  <2>1. \A r \in Rows : IsAfter(<<>>, 0, r, db[s][r])
    BY <1>2 DEF IsAfter
  <2>2. \A r \in Rows : Mirrors(<<>>, 0, recon[s], r, db[s][r])
    BY <2>1 DEF Mirrors
  <2>3. RefusalsListed(s, <<>>, 0, recon[s])
    BY DEF RefusalsListed
  <2> QED
    BY <1>2, <2>1, <2>2, <2>3 DEF InStep
<1>6. \A s \in Sites : Reached(s) = {0}
  BY <1>2 DEF Reached, Idle, FreeSlot, Sites
<1>7. Snapshot
  <2>1. /\ backup.journal = journal["local"] /\ backup.epoch = 1 /\ backup.outCur = 0
        /\ backup.pruned = 0 /\ backup.inCur = 0 /\ backup.db = db["local"]
        /\ backup.recon = recon["local"]
    BY <1>0, <1>2 DEF Disk
  <2> QED
    BY <1>2, <1>5, <2>1 DEF Snapshot, Sites
<1> QED
  BY <1>0, <1>1, <1>3, <1>4, <1>5, <1>6, <1>7 DEF SplitInv, InTouch

\* A table has an owner of one of four kinds.
LEMMA OwnerIs == \A t : OwnerOf(t) \in {"local", "cloud", "append", "creator"}
BY DEF OwnerOf, OWNERSHIP, DEFAULT_OWNER

\* Whose row it is that neither side refused a thing of.
LEMMA SomeonesRow ==
  ASSUME OneByOne, TypeOK, Births(journal, born), NEW r \in Rows, OwnerOf(Entity[r]) # "creator",
         \A s \in Sites : \A n \in 1 .. Len(journal[s]) :
           journal[s][n].row = r => ~Refused(Other(s), journal[s][n])
  PROVE  \E o \in Sites : Plain(journal, o, r)
<1>1. ASSUME NEW o \in Sites, OwnerOf(Entity[r]) = o PROVE Plain(journal, o, r)
  <2>1. \A n \in 1 .. Len(journal[Other(o)]) : journal[Other(o)][n].row # r
    BY <1>1 DEF Refused, Decide, Other, Sites
  <2> QED
    BY <2>1 DEF Plain, Names
<1>2. CASE OwnerOf(Entity[r]) = "append"
  <2>1. \A s \in Sites : \A n \in 1 .. Len(journal[s]) :
          journal[s][n].row = r => journal[s][n].kind = "insert"
    <3> SUFFICES ASSUME NEW s \in Sites, NEW n \in 1 .. Len(journal[s]), journal[s][n].row = r
                 PROVE  journal[s][n].kind = "insert"
      OBVIOUS
    <3>1. journal[s] \in Seq(Entry)
      BY DEF TypeOK
    <3>2. journal[s][n].kind \in {"insert", "set", "claim", "delete"}
      BY <3>1, ElementOfSeq, EntryIs
    <3> QED
      BY <1>2, <3>2 DEF Refused, Decide, OpOf
  <2>2. \A s \in Sites : Names(journal[s], r) => Inserts(journal[s], r)
    BY <2>1 DEF Names, Inserts
  <2>3. \A s \in Sites : Inserts(journal[s], r) => r \in born
    BY DEF Births, Inserts
  <2>4. ~(Names(journal["local"], r) /\ Names(journal["cloud"], r))
    BY <2>2, <2>3 DEF Births, Sites
  <2> QED
    BY <2>4 DEF Plain, Other, Sites
<1> QED
  BY <1>1, <1>2, OwnerIs DEF Sites

\* Of /push requests served one at a time, of writes that are one transaction with
\* their journal entry (d1Batch, and not d1Run's two statements) and of no statement
\* that counts (SET v = v + 1): whatever dies, is lost, is applied again or is restored,
\* when the exchange has come to rest, a row that the two sides disagree about is on the
\* list of one of them (applyEntry in handlers/sync.js, and ownership.js: "never
\* silently drop").  Without these it is false of the code.
THEOREM DifferencesAreListed ==
  ASSUME OneByOne
  PROVE  SpecR => []NoSilentDivergence
<1>1. SplitInv => NoSilentDivergence
  <2> SUFFICES ASSUME SplitInv, Drained, NEW r \in Rows, OwnerOf(Entity[r]) # "creator",
                      r \notin unsynced, ~Recorded(r)
               PROVE  db["local"][r] = db["cloud"][r]
    BY DEF NoSilentDivergence
  <2>1. TypeOK /\ InTouch
    BY DEF SplitInv
  <2>2. \A s \in Sites : /\ journal[s] \in Seq(Entry) /\ Len(journal[s]) \in Nat
                         /\ Other(s) \in Sites /\ Other(Other(s)) = s
    BY <2>1, LenProperties DEF TypeOK, Other, Sites
  <2>3. ASSUME NEW s \in Sites
        PROVE  InStep(journal, unsynced, s, db[s], recon[s], Len(journal[Other(s)]))
    <3>1. CASE s = "local"
      BY <2>1, <3>1 DEF InTouch, Drained, Reached, Other
    <3>2. CASE s = "cloud"
      <4>1. cloudIn.last = Len(journal["local"])
        BY <2>1, <2>2 DEF InTouch, Positions, Drained, TypeOK, Sites
      <4> QED
        BY <2>1, <3>2, <4>1 DEF InTouch, Reached, Other
    <3> QED
      BY <3>1, <3>2 DEF Sites
  <2>4. \A s \in Sites : ~Listed(recon[s], r)
    BY DEF Recorded, Listed
  <2>5. ASSUME NEW s \in Sites, NEW n \in 1 .. Len(journal[s]), journal[s][n].row = r
        PROVE  ~Refused(Other(s), journal[s][n])
    <3>1. RefusalsListed(Other(s), journal[s], Len(journal[s]), recon[Other(s)])
      BY <2>2, <2>3 DEF InStep
    <3> QED
      BY <2>2, <2>4, <2>5, <3>1 DEF RefusalsListed, Listed
  <2>6. PICK o \in Sites : Plain(journal, o, r)
    BY <2>1, <2>5, SomeonesRow DEF InTouch
  <2>7. IsAfter(journal[o], Len(journal[o]), r, db[o][r])
    BY <2>3, <2>6 DEF InStep
  <2>8. Mirrors(journal[o], Len(journal[o]), recon[Other(o)], r, db[Other(o)][r])
    BY <2>2, <2>3, <2>6 DEF InStep
  <2>9. IsAfter(journal[o], Len(journal[o]), r, db[Other(o)][r])
    BY <2>2, <2>4, <2>8 DEF Mirrors
  <2>10. db[o][r] = db[Other(o)][r]
    BY <2>2, <2>7, <2>9, AfterOne
  <2> QED
    BY <2>10 DEF Other, Sites
<1> QED
  BY <1>1, SplitInit, SplitNext, PTL DEF SpecR


-----------------------------------------------------------------------------
(***************************************************************************)
(* The alerts.  A sweep finds, reads the live rows and writes the          *)
(* differences one by one; what it knows of each key is enough, as long as *)
(* nobody else may raise that key meanwhile.                               *)
(***************************************************************************)
Severities == {"warning", "critical"}
Stations   == {"", "bar", "kitchen", "mixed"}
Anyone     == STRING \cup {Nobody}

Breach == [rule : Rules, thing : Things, severity : Severities, station : Stations,
           target : Anyone]
Alert  == [rule : Rules, thing : Things, severity : Severities,
           status : {"open", "acknowledged", "resolved"}, station : Stations,
           target : Anyone]
Work   == [op : {"none", "sweep", "ping", "ack"}, pc : Pcs, todo : SUBSET Queries,
           wanted : SUBSET Breach, fresh : SUBSET [id : Nat, v : Breach],
           ids : SUBSET Nat, off : SUBSET Keys]

\* Rows of alerts, by numbers, finitely many.
AlertRows(A) == /\ A = [n \in DOMAIN A |-> A[n]]
                /\ IsFiniteSet(DOMAIN A) /\ DOMAIN A \subseteq Nat
                /\ \A n \in DOMAIN A : A[n] \in Alert

AlertsType ==
  /\ rows \in [Things -> Row] /\ \A t \in Things : rows[t] \in RowsOf[t]
  /\ AlertRows(alerts)
  /\ req \in [Lanes -> Work]

\* A request is at a step of its own handler; a sweep writes as long as there is
\* something to write, and a ping is about one violation.
InItsWork(r) ==
  \/ r = FreeLane
  \/ r.op = "sweep" /\ r.pc = "load"
  \/ r.op = "sweep" /\ r.pc = "live" /\ r.todo = {}
  \/ r.op = "sweep" /\ r.pc = "write" /\ Rest(r) # FreeLane
  \/ r.op = "ping" /\ r.pc \in {"look", "aim", "insert"} /\ \E v \in Breach : r.wanted = {v}
  \/ r.op = "ack" /\ r.pc = "sign"

\* The one query that finds what a rule speaks of.
QueryOf == [r \in Rules |->
  CASE r \in {"newUnaccepted", "preparing", "readyNow", "readyUnserved"} -> "stage"
    [] r = "servedUnpaid" -> "unpaid"
    [] r \in {"unassigned", "transit"} -> "delivery"
    [] r = "noShow" -> "reservation"
    [] r = "seated" -> "table"
    [] r = "forgot" -> "timeclock"
    [] r = "low"    -> "inventory"
    [] OTHER        -> "menu"]

Sweeping(r) == r.op = "sweep" /\ r.pc \in {"load", "live"}

\* What sweep r has found: one violation for a key, of queries that have answered.
FoundOnce(r) ==
  r.op = "sweep" =>
    /\ \A v, w \in r.wanted : DedupeKey(v) = DedupeKey(w) => v = w
    /\ \A v \in r.wanted : Sweeping(r) => QueryOf[v.rule] \notin r.todo

\* A key that was in breach ever since sweep r began is found or still looked for;
\* and what r is to resolve was off.
FoundAll(A, r) ==
  /\ r.op = "sweep" => Keys \ Breaches \subseteq r.off
  /\ Sweeping(r) => \A k \in Keys \ r.off : \/ QueryOf[k.rule] \in r.todo
                                            \/ \E v \in r.wanted : DedupeKey(v) = k
  /\ r.op = "sweep" => \A n \in r.ids : n \in DOMAIN A /\ DedupeKey(A[n]) \in r.off

\* The keys request r may raise, and those it will raise whatever it finds.
RaisedBy(r) == CASE r.op = "sweep" -> Keys
                 [] r.op = "ping"  -> {DedupeKey(v) : v \in r.wanted}
                 [] OTHER -> {}

Inserting(r, k) == /\ \/ r.op = "sweep" /\ r.pc = "write"
                      \/ r.op = "ping" /\ r.pc = "insert"
                   /\ \E v \in r.wanted : DedupeKey(v) = k

LiveIn(A, k) == {n \in DOMAIN A : DedupeKey(A[n]) = k /\ A[n].status # "resolved"}

\* Key k has one live row at most and one request that may raise it; and none where
\* a request is about to.
Once(k) ==
  /\ \A m, n \in LiveIn(alerts, k) : m = n
  /\ \A i, j \in Lanes : i # j => k \notin RaisedBy(req[i]) \cap RaisedBy(req[j])
  /\ \A i \in Lanes : Inserting(req[i], k) => LiveIn(alerts, k) = {}

AlertsInv ==
  /\ AlertsType
  /\ \A i \in Lanes : InItsWork(req[i]) /\ FoundOnce(req[i]) /\ FoundAll(alerts, req[i])
  /\ \A k \in Keys \ torn : Once(k)

-----------------------------------------------------------------------------
(* The rules.                                                              *)

\* Whatever is raised of a row speaks of a thing and is found by one query.
LEMMA StageRuleIs ==
  ASSUME NEW r \in Row, r.kind = "order", StageRule(r) # ""
  PROVE  /\ StageRule(r) \in Rules \ {"readyNow"}
         /\ \A q \in Queries : Loaded(q, r) <=> q = QueryOf[StageRule(r)]
<1>1. \/ StageRule(r) = "newUnaccepted" /\ r.status = "new"
      \/ StageRule(r) = "preparing" /\ r.status = "preparing"
      \/ StageRule(r) = "readyUnserved" /\ r.status = "ready"
      \/ StageRule(r) = "servedUnpaid" /\ r.status \in {"served", "fulfilled"} /\ r.unpaid
  BY DEF StageRule
<1>2. StageRule(r) \in Rules \ {"readyNow"}
  BY <1>1 DEF Rules
<1>3. /\ QueryOf["newUnaccepted"] = "stage" /\ QueryOf["preparing"] = "stage"
      /\ QueryOf["readyUnserved"] = "stage" /\ QueryOf["servedUnpaid"] = "unpaid"
  BY DEF QueryOf, Rules
<1>4. ASSUME NEW q \in Queries PROVE Loaded(q, r) <=> q = QueryOf[StageRule(r)]
  <2>1. CASE q = "stage"
    BY <1>1, <1>3, <2>1 DEF Loaded
  <2>2. CASE q = "unpaid"
    BY <1>1, <1>3, <2>2 DEF Loaded
  <2>3. CASE q \notin {"stage", "unpaid"}
    <3>1. q # "order"
      BY <2>3 DEF Queries, RowKinds
    <3>2. ~Loaded(q, r)
      BY <2>3, <3>1 DEF Loaded
    <3> QED
      BY <1>1, <1>3, <2>3, <3>2
  <2> QED
    BY <2>1, <2>2, <2>3
<1> QED
  BY <1>2, <1>4

LEMMA OtherRuleIs ==
  ASSUME NEW r \in Row, r.kind # "order", OtherRule(r) # ""
  PROVE  /\ OtherRule(r) \in Rules
         /\ QueryOf[OtherRule(r)] = r.kind
         /\ \A q \in Queries : Loaded(q, r) <=> q = QueryOf[OtherRule(r)]
<1>1. \/ OtherRule(r) = "unassigned" /\ r.kind = "delivery"
      \/ OtherRule(r) = "transit" /\ r.kind = "delivery"
      \/ OtherRule(r) = "noShow" /\ r.kind = "reservation"
      \/ OtherRule(r) = "seated" /\ r.kind = "table"
      \/ OtherRule(r) = "forgot" /\ r.kind = "timeclock"
      \/ OtherRule(r) = "low" /\ r.kind = "inventory"
      \/ OtherRule(r) = "86ed" /\ r.kind = "menu"
  BY DEF OtherRule
<1>2. /\ QueryOf["unassigned"] = "delivery" /\ QueryOf["transit"] = "delivery"
      /\ QueryOf["noShow"] = "reservation" /\ QueryOf["seated"] = "table"
      /\ QueryOf["forgot"] = "timeclock" /\ QueryOf["low"] = "inventory"
      /\ QueryOf["86ed"] = "menu"
  BY DEF QueryOf, Rules
<1>3. OtherRule(r) \in Rules
  BY <1>1 DEF Rules
<1>4. QueryOf[OtherRule(r)] = r.kind
  BY <1>1, <1>2
<1>5. ASSUME NEW q \in Queries PROVE Loaded(q, r) <=> q = r.kind
  <2>1. CASE q \in {"stage", "unpaid"}
    <3>1. ~Loaded(q, r) /\ r.kind # q
      BY <2>1, <1>1 DEF Loaded
    <3> QED
      BY <3>1
  <2>2. CASE q \notin {"stage", "unpaid"}
    BY <2>2 DEF Loaded
  <2> QED
    BY <2>1, <2>2
<1> QED
  BY <1>3, <1>4, <1>5

LEMMA EvaluateIs ==
  ASSUME NEW t \in Things, NEW r \in Row, NEW v \in Evaluate(t, r)
  PROVE  /\ v \in Breach /\ v.thing = t
         /\ \A q \in Queries : Loaded(q, r) <=> q = QueryOf[v.rule]
         /\ QueryOf[v.rule] \in {"inventory", "menu"} => r.kind = QueryOf[v.rule]
<1>1. CASE r.kind = "order" /\ v \in EvaluateOrder(t, r)
  <2>1. StageRule(r) # "" /\ v = Violation(StageRule(r), StageSeverity(r), t, r.station, Nobody)
    BY <1>1 DEF EvaluateOrder
  <2>2. StageSeverity(r) \in Severities /\ r.station \in Stations
    BY DEF StageSeverity, Severities, Stations, Row
  <2>3. /\ StageRule(r) \in Rules
        /\ \A q \in Queries : Loaded(q, r) <=> q = QueryOf[StageRule(r)]
    BY <1>1, <2>1, StageRuleIs
  <2>4. v \in Breach /\ v.thing = t /\ v.rule = StageRule(r)
    BY <2>1, <2>2, <2>3 DEF Violation, Breach, Anyone
  <2>5. "inventory" \in Queries /\ "menu" \in Queries /\ ~Loaded("inventory", r) /\ ~Loaded("menu", r)
    BY <1>1 DEF Loaded, Queries, RowKinds
  <2> QED
    BY <2>3, <2>4, <2>5
<1>2. CASE r.kind = "order" /\ v \in EvaluateOrderReadyNow(t, r)
  <2>1. r.status = "ready" /\ v = Violation("readyNow", "warning", t, r.station, r.waiter)
    BY <1>2 DEF EvaluateOrderReadyNow
  <2>2. r.station \in Stations /\ r.waiter \in Anyone
    BY DEF Stations, Row, Anyone
  <2>3. v \in Breach /\ v.thing = t /\ v.rule = "readyNow"
    BY <2>1, <2>2 DEF Violation, Breach, Rules, Severities
  <2>4. QueryOf["readyNow"] = "stage"
    BY DEF QueryOf, Rules
  <2>5. ASSUME NEW q \in Queries PROVE Loaded(q, r) <=> q = "stage"
    <3>1. q # "order"
      BY DEF Queries, RowKinds
    <3> QED
      BY <3>1, <1>2, <2>1 DEF Loaded
  <2> QED
    BY <2>3, <2>4, <2>5
<1>3. CASE r.kind # "order" /\ v \in EvaluateOther(t, r)
  <2>1. OtherRule(r) # "" /\ v = Violation(OtherRule(r), OtherSeverity(r), t, "", Nobody)
    BY <1>3 DEF EvaluateOther
  <2>2. OtherSeverity(r) \in Severities /\ "" \in Stations
    BY DEF OtherSeverity, Severities, Stations
  <2>3. /\ OtherRule(r) \in Rules /\ QueryOf[OtherRule(r)] = r.kind
        /\ \A q \in Queries : Loaded(q, r) <=> q = QueryOf[OtherRule(r)]
    BY <1>3, <2>1, OtherRuleIs
  <2>4. v \in Breach /\ v.thing = t /\ v.rule = OtherRule(r)
    BY <2>1, <2>2, <2>3 DEF Violation, Breach, Anyone
  <2> QED
    BY <2>3, <2>4
<1> QED
  BY <1>1, <1>2, <1>3 DEF Evaluate

\* A rule raises a thing once.
LEMMA EvaluateOnce ==
  ASSUME NEW t \in Things, NEW r \in Row,
         NEW v \in Evaluate(t, r), NEW w \in Evaluate(t, r), v.rule = w.rule
  PROVE  v = w
<1>1. CASE r.kind = "order"
  <2>1. ASSUME NEW x \in EvaluateOrder(t, r)
        PROVE  x = Violation(StageRule(r), StageSeverity(r), t, r.station, Nobody)
               /\ x.rule # "readyNow"
    <3>1. StageRule(r) # "" /\ x = Violation(StageRule(r), StageSeverity(r), t, r.station, Nobody)
      BY <2>1 DEF EvaluateOrder
    <3> QED
      BY <3>1, <1>1, StageRuleIs DEF Violation
  <2>2. ASSUME NEW x \in EvaluateOrderReadyNow(t, r)
        PROVE  x = Violation("readyNow", "warning", t, r.station, r.waiter) /\ x.rule = "readyNow"
    BY DEF EvaluateOrderReadyNow, Violation
  <2> QED
    BY <2>1, <2>2, <1>1 DEF Evaluate
<1>2. CASE r.kind # "order"
  BY <1>2 DEF Evaluate, EvaluateOther
<1> QED
  BY <1>1, <1>2

\* What a query finds of the things S.
LEMMA FoundIs ==
  ASSUME AlertsType, NEW S \in SUBSET Things, NEW v \in EvaluateAll(S)
  PROVE  v \in Breach /\ v.thing \in S /\ v \in Evaluate(v.thing, rows[v.thing])
<1>1. PICK t \in S : v \in Evaluate(t, rows[t])
  BY DEF EvaluateAll
<1>2. t \in Things /\ rows[t] \in Row
  BY <1>1 DEF AlertsType
<1> QED
  BY <1>1, <1>2, EvaluateIs

LEMMA KeysAre == \A v \in Breach \cup Alert : DedupeKey(v) \in Keys
BY DEF Breach, Alert, DedupeKey, Keys

LEMMA QueriesFind ==
  ASSUME AlertsType, NEW k \in Breaches
  PROVE  /\ k \in Keys /\ QueryOf[k.rule] \in Queries
         /\ \E v \in Evaluate(k.thing, rows[k.thing]) :
              v \in Breach /\ DedupeKey(v) = k /\ Loaded(QueryOf[k.rule], rows[k.thing])
         /\ QueryOf[k.rule] \in {"inventory", "menu"} =>
              rows[k.thing].kind = QueryOf[k.rule]
<1>1. PICK v \in EvaluateAll(Things) : k = DedupeKey(v)
  BY DEF Breaches
<1>2. v \in Breach /\ v.thing \in Things /\ v \in Evaluate(v.thing, rows[v.thing])
  BY <1>1, FoundIs
<1>3. k.rule = v.rule /\ k.thing = v.thing /\ k \in Keys
  BY <1>1, <1>2, KeysAre DEF DedupeKey
<1>4. rows[v.thing] \in Row
  BY <1>2 DEF AlertsType
<1>5. QueryOf[v.rule] \in Queries
  <2>1. v.rule \in Rules
    BY <1>2 DEF Breach
  <2>2. QueryOf[v.rule] \in {"stage", "unpaid", "delivery", "reservation", "table",
                             "timeclock", "inventory", "menu"}
    BY <2>1 DEF QueryOf
  <2> QED
    BY <2>2 DEF Queries, RowKinds
<1> QED
  BY <1>1, <1>2, <1>3, <1>4, <1>5, EvaluateIs

-----------------------------------------------------------------------------
(* What a step of one request leaves.                                      *)

\* The rows that stay are what the step made of them: all live ones, and those that
\* somebody is to write.
LEMMA LeavesIs ==
  ASSUME NEW i \in Lanes, NEW r, NEW A, AlertRows(A), Leaves(i, r, A)
  PROVE  /\ AlertRows(alerts') /\ DOMAIN alerts' \subseteq DOMAIN A
         /\ \A n \in DOMAIN alerts' : alerts'[n] = A[n]
         /\ \A n \in DOMAIN A : A[n].status # "resolved" \/ n \in Pending(req') =>
              n \in DOMAIN alerts'
         /\ \A k : LiveIn(alerts', k) = LiveIn(A, k)
<1> DEFINE D == {n \in DOMAIN A : A[n].status # "resolved" \/ n \in Pending(req')}
<1>1. alerts' = [n \in D |-> A[n]]
  BY DEF Leaves, Restrict
<1> HIDE DEF D
<1>2. DOMAIN alerts' = D /\ D \subseteq DOMAIN A
  BY <1>1 DEF D
<1>3. \A n \in D : alerts'[n] = A[n]
  BY <1>1
<1>4. IsFiniteSet(D)
  BY <1>2, FS_Subset DEF AlertRows
<1>5. alerts' = [n \in DOMAIN alerts' |-> alerts'[n]]
  BY <1>1, <1>2
<1>6. AlertRows(alerts')
  BY <1>2, <1>3, <1>4, <1>5 DEF AlertRows
<1>7. \A n \in DOMAIN A : A[n].status # "resolved" \/ n \in Pending(req') => n \in D
  BY DEF D
<1>8. ASSUME NEW k PROVE LiveIn(alerts', k) = LiveIn(A, k)
  BY <1>2, <1>3, <1>7 DEF LiveIn
<1> QED
  BY <1>2, <1>3, <1>6, <1>7, <1>8

LEMMA FreeIs == FreeLane \in Work /\ FreeLane.op = "none" /\ RaisedBy(FreeLane) = {}
BY DEF FreeLane, Work, Pcs, RaisedBy

\* Who inserts a violation may raise it.
LEMMA InsertingRaises ==
  ASSUME NEW r, NEW k \in Keys, Inserting(r, k)
  PROVE  k \in RaisedBy(r)
BY DEF Inserting, RaisedBy

\* A request's ids are pending.
LEMMA IdsPend ==
  ASSUME NEW R, NEW i \in Lanes, NEW n \in R[i].ids
  PROVE  n \in Pending(R)
BY DEF Pending

\* Request i goes on as r and makes A of the rows: what is to be shown of r and A, for
\* the others to be as right as they were.
LEMMA Writes ==
  ASSUME AlertsInv, NEW i \in Lanes, NEW r \in Work, NEW A, AlertRows(A), Leaves(i, r, A),
         UNCHANGED rows, torn \subseteq torn',
         InItsWork(r), FoundOnce(r), FoundAll(A, r),
         \A n \in DOMAIN alerts : n \in DOMAIN A /\ DedupeKey(A[n]) = DedupeKey(alerts[n]),
         \A k \in Keys \ torn' :
           /\ \A m, n \in LiveIn(A, k) : m = n
           /\ Inserting(r, k) => LiveIn(A, k) = {}
           /\ \A j \in Lanes \ {i} : k \in RaisedBy(req[j]) =>
                LiveIn(A, k) \subseteq LiveIn(alerts, k) /\ k \notin RaisedBy(r)
  PROVE  AlertsInv'
<1>1. /\ AlertRows(alerts') /\ DOMAIN alerts' \subseteq DOMAIN A
      /\ \A n \in DOMAIN alerts' : alerts'[n] = A[n]
      /\ \A n \in DOMAIN A : A[n].status # "resolved" \/ n \in Pending(req') =>
              n \in DOMAIN alerts'
      /\ \A k : LiveIn(alerts', k) = LiveIn(A, k)
  BY LeavesIs
<1>2. req' = [req EXCEPT ![i] = r] /\ req \in [Lanes -> Work]
  BY DEF Leaves, AlertsInv, AlertsType
<1>3. req' \in [Lanes -> Work] /\ req'[i] = r /\ \A j \in Lanes \ {i} : req'[j] = req[j]
  BY <1>2
<1>4. AlertsType'
  BY <1>1, <1>3 DEF AlertsInv, AlertsType
<1>5. Breaches' = Breaches
  BY DEF Breaches, EvaluateAll
<1>6. ASSUME NEW j \in Lanes
      PROVE  (InItsWork(req[j]) /\ FoundOnce(req[j]) /\ FoundAll(alerts, req[j]))'
  <2>1. InItsWork(req'[j]) /\ FoundOnce(req'[j]) /\ FoundAll(A, req'[j])
    <3>1. CASE j = i
      BY <3>1, <1>3
    <3>2. CASE j # i
      <4>1. InItsWork(req[j]) /\ FoundOnce(req[j]) /\ FoundAll(alerts, req[j])
        BY DEF AlertsInv
      <4>2. FoundAll(A, req[j])
        BY <4>1 DEF FoundAll
      <4> QED
        BY <1>3, <3>2, <4>1, <4>2
    <3> QED
      BY <3>1, <3>2
  <2>2. ASSUME NEW n \in req'[j].ids, n \in DOMAIN A
        PROVE  n \in DOMAIN alerts' /\ alerts'[n] = A[n]
    <3>1. n \in Pending(req')
      BY <2>2, IdsPend
    <3> QED
      BY <1>1, <2>2, <3>1
  <2>3. /\ req'[j].op = "sweep" => Keys \ Breaches' \subseteq req'[j].off
        /\ Sweeping(req'[j]) => \A k \in Keys \ req'[j].off :
                                  \/ QueryOf[k.rule] \in req'[j].todo
                                  \/ \E v \in req'[j].wanted : DedupeKey(v) = k
    BY <2>1, <1>5 DEF FoundAll
  <2>4. req'[j].op = "sweep" => \A n \in req'[j].ids :
          n \in DOMAIN alerts' /\ DedupeKey(alerts'[n]) \in req'[j].off
    BY <2>1, <2>2 DEF FoundAll
  <2>5. FoundAll(alerts, req[j])'
    BY <2>3, <2>4 DEF FoundAll
  <2> QED
    BY <2>1, <2>5
<1>7. ASSUME NEW k \in Keys \ torn' PROVE Once(k)'
  <2>1. /\ \A m, n \in LiveIn(A, k) : m = n
        /\ Inserting(r, k) => LiveIn(A, k) = {}
        /\ \A j \in Lanes \ {i} : k \in RaisedBy(req[j]) =>
             LiveIn(A, k) \subseteq LiveIn(alerts, k) /\ k \notin RaisedBy(r)
    BY <1>7
  <2>2. Once(k)
    BY <1>7 DEF AlertsInv
  <2>3. \A m, n \in LiveIn(alerts', k) : m = n
    BY <1>1, <2>1
  <2>4. ASSUME NEW j \in Lanes, NEW l \in Lanes, j # l
        PROVE  k \notin RaisedBy(req'[j]) \cap RaisedBy(req'[l])
    <3>1. k \notin RaisedBy(req[j]) \cap RaisedBy(req[l])
      BY <2>2, <2>4 DEF Once
    <3> QED
      BY <3>1, <2>1, <2>4, <1>3
  <2>5. ASSUME NEW j \in Lanes, Inserting(req'[j], k) PROVE LiveIn(alerts', k) = {}
    <3>1. CASE j = i
      BY <3>1, <1>3, <1>1, <2>1, <2>5
    <3>2. CASE j # i
      <4>1. Inserting(req[j], k)
        BY <3>2, <1>3, <2>5
      <4>2. LiveIn(alerts, k) = {} /\ k \in RaisedBy(req[j])
        BY <4>1, <2>2, <1>7, InsertingRaises DEF Once
      <4>3. LiveIn(A, k) = {}
        BY <4>2, <3>2, <2>1
      <4> QED
        BY <4>3, <1>1
    <3> QED
      BY <3>1, <3>2
  <2> QED
    BY <2>3, <2>4, <2>5 DEF Once
<1> QED
  BY <1>4, <1>6, <1>7 DEF AlertsInv

\* A step that writes no row, for a request that goes on to raise what it may anyway.
LEMMA KeepsOn ==
  ASSUME AlertsInv, NEW i \in Lanes, NEW r \in Work, Goes(i, r),
         UNCHANGED rows, torn \subseteq torn',
         InItsWork(r), FoundOnce(r), FoundAll(alerts, r),
         \A k \in Keys \ torn' : Inserting(r, k) => LiveIn(alerts, k) = {},
         \A k \in Keys \ torn' : \A j \in Lanes \ {i} :
           k \in RaisedBy(req[j]) => k \notin RaisedBy(r)
  PROVE  AlertsInv'
<1>1. Leaves(i, r, alerts) /\ AlertRows(alerts)
  BY DEF Goes, AlertsInv, AlertsType
<1>2. \A k \in Keys \ torn' : \A m, n \in LiveIn(alerts, k) : m = n
  BY DEF AlertsInv, Once
<1> QED
  BY <1>1, <1>2, Writes

\* Nobody else may raise what request i may, unless it is torn.
LEMMA OnlyOne ==
  ASSUME AlertsInv, NEW i \in Lanes, NEW j \in Lanes \ {i}, NEW k \in Keys \ torn,
         k \in RaisedBy(req[j])
  PROVE  k \notin RaisedBy(req[i])
BY DEF AlertsInv, Once

\* A request that is answered leaves all as it is.
LEMMA AnswersAny ==
  ASSUME AlertsInv, NEW i \in Lanes, Answers(i), UNCHANGED <<rows, torn>>
  PROVE  AlertsInv'
<1>1. InItsWork(FreeLane) /\ FoundOnce(FreeLane) /\ FoundAll(alerts, FreeLane)
  BY FreeIs DEF InItsWork, FoundOnce, FoundAll, Sweeping
<1>2. \A k : ~Inserting(FreeLane, k)
  BY DEF Inserting, FreeLane
<1> QED
  BY <1>1, <1>2, FreeIs, KeepsOn DEF Answers

-----------------------------------------------------------------------------
(* The steps.                                                              *)

LEMMA SweepBeginsStep ==
  ASSUME AlertsInv, NEW i \in Lanes, SweepBegins(i)
  PROVE  AlertsInv'
<1> DEFINE todo == {q \in Queries : \E t \in Things : MayLoad(q, t)}
           r == [FreeLane EXCEPT !.op = "sweep", !.pc = "load",
                                 !.off = Keys \ Breaches, !.todo = todo]
<1>1. /\ Goes(i, r) /\ UNCHANGED rows
      /\ torn' = torn \cup UNION {Keys \cap Raises(j) : j \in Lanes \ {i}}
  BY DEF SweepBegins, Begins
<1>2. /\ r \in Work /\ r.op = "sweep" /\ r.pc = "load" /\ r.wanted = {} /\ r.ids = {}
      /\ r.off = Keys \ Breaches /\ r.todo = todo
  BY FreeIs DEF FreeLane, Work, Pcs
<1> HIDE DEF r
<1>3. ASSUME NEW k \in Keys \ r.off PROVE QueryOf[k.rule] \in todo
  <2>1. k \in Breaches
    BY <1>2, <1>3
  <2>2. QueryOf[k.rule] \in Queries /\ Loaded(QueryOf[k.rule], rows[k.thing])
    BY <2>1, QueriesFind DEF AlertsInv
  <2>3. k.thing \in Things /\ rows[k.thing] \in RowsOf[k.thing]
    BY DEF Keys, AlertsInv, AlertsType
  <2> QED
    BY <2>2, <2>3 DEF MayLoad
<1>4. InItsWork(r) /\ FoundOnce(r)
  BY <1>2 DEF InItsWork, FoundOnce
<1>5. FoundAll(alerts, r)
  BY <1>2, <1>3 DEF FoundAll
<1>6. \A k \in Keys : ~Inserting(r, k)
  BY <1>2 DEF Inserting
<1>7. ASSUME NEW k \in Keys \ torn', NEW j \in Lanes \ {i} PROVE k \notin RaisedBy(req[j])
  BY <1>1, <1>7 DEF Raises, RaisedBy
<1> QED
  BY <1>1, <1>2, <1>4, <1>5, <1>6, <1>7, KeepsOn

LEMMA SweepLoadsStep ==
  ASSUME AlertsInv, NEW i \in Lanes, NEW q \in Queries, SweepLoads(i, q)
  PROVE  AlertsInv'
<1> DEFINE left  == req[i].todo \ {q}
           found == EvaluateAll({t \in Things : Loaded(q, rows[t])})
           r == [req[i] EXCEPT !.pc = IF left = {} THEN "live" ELSE "load", !.todo = left,
                               !.wanted = @ \cup found]
<1>1. /\ req[i].pc = "load" /\ q \in req[i].todo /\ Goes(i, r) /\ UNCHANGED <<rows, torn>>
  BY DEF SweepLoads, At
<1>2. req[i] \in Work /\ req[i].op = "sweep" /\ FoundOnce(req[i]) /\ FoundAll(alerts, req[i])
  BY <1>1 DEF AlertsInv, AlertsType, InItsWork, FreeLane
<1>3. AlertsType
  BY DEF AlertsInv
<1>4. ASSUME NEW v \in found
      PROVE  v \in Breach /\ v.thing \in Things /\ v \in Evaluate(v.thing, rows[v.thing])
             /\ QueryOf[v.rule] = q
  <2>1. /\ v \in Breach /\ v.thing \in Things /\ Loaded(q, rows[v.thing])
        /\ v \in Evaluate(v.thing, rows[v.thing])
    BY <1>3, FoundIs
  <2>2. rows[v.thing] \in Row
    BY <1>3, <2>1 DEF AlertsType
  <2>3. QueryOf[v.rule] = q
    BY <2>1, <2>2, EvaluateIs
  <2> QED
    BY <2>1, <2>3
<1>5. ASSUME NEW t \in Things, Loaded(q, rows[t]), NEW v \in Evaluate(t, rows[t])
      PROVE  v \in found
  BY <1>5 DEF EvaluateAll
<1> HIDE DEF found
<1>6. /\ r \in Work /\ r.op = "sweep" /\ r.todo = left /\ r.wanted = req[i].wanted \cup found
      /\ r.off = req[i].off /\ r.ids = req[i].ids
      /\ r.pc \in {"live", "load"} /\ (r.pc = "live" => left = {})
  BY <1>2, <1>4 DEF Work, Pcs
<1> HIDE DEF r
<1>7. InItsWork(r)
  BY <1>6 DEF InItsWork
<1>8. FoundOnce(r)
  <2>1. ASSUME NEW v \in r.wanted, NEW w \in r.wanted, DedupeKey(v) = DedupeKey(w)
        PROVE  v = w
    <3>1. v.rule = w.rule /\ v.thing = w.thing
      BY <2>1 DEF DedupeKey
    <3>2. Sweeping(req[i])
      BY <1>1, <1>2 DEF Sweeping
    <3>3. \A x \in req[i].wanted : QueryOf[x.rule] # q
      BY <1>1, <1>2, <3>2 DEF FoundOnce
    <3>4. CASE v \in req[i].wanted /\ w \in req[i].wanted
      BY <3>4, <2>1, <1>2 DEF FoundOnce
    <3>5. CASE v \in found /\ w \in found
      <4>1. v \in Evaluate(v.thing, rows[v.thing]) /\ w \in Evaluate(v.thing, rows[v.thing])
            /\ v.thing \in Things
        BY <3>1, <3>5, <1>4
      <4>2. rows[v.thing] \in Row
        BY <1>3, <4>1 DEF AlertsType
      <4> QED
        BY <3>1, <4>1, <4>2, EvaluateOnce
    <3> QED
      BY <3>1, <3>3, <3>4, <3>5, <1>4, <1>6
  <2>2. \A v \in r.wanted : QueryOf[v.rule] \notin r.todo
    BY <1>1, <1>2, <1>4, <1>6 DEF FoundOnce, Sweeping
  <2> QED
    BY <2>1, <2>2 DEF FoundOnce
<1>9. FoundAll(alerts, r)
  <2>1. Keys \ Breaches \subseteq r.off
    BY <1>2, <1>6 DEF FoundAll
  <2>2. ASSUME NEW k \in Keys \ r.off
        PROVE  QueryOf[k.rule] \in r.todo \/ \E v \in r.wanted : DedupeKey(v) = k
    <3>1. QueryOf[k.rule] \in req[i].todo \/ \E v \in req[i].wanted : DedupeKey(v) = k
      BY <1>1, <1>2, <1>6 DEF FoundAll, Sweeping
    <3>2. CASE QueryOf[k.rule] = q
      <4>1. k \in Breaches /\ k.thing \in Things
        BY <2>1 DEF Keys
      <4>2. PICK v \in Evaluate(k.thing, rows[k.thing]) :
                   DedupeKey(v) = k /\ Loaded(q, rows[k.thing])
        BY <4>1, <3>2, <1>3, QueriesFind
      <4>3. v \in found
        BY <4>1, <4>2, <1>5
      <4> QED
        BY <4>2, <4>3, <1>6
    <3> QED
      BY <3>1, <3>2, <1>6
  <2> QED
    BY <2>1, <2>2, <1>2, <1>6 DEF FoundAll
<1>10. \A k \in Keys : ~Inserting(r, k)
  BY <1>6 DEF Inserting
<1>11. \A k : k \in RaisedBy(r) => k \in RaisedBy(req[i])
  BY <1>2, <1>6 DEF RaisedBy
<1>12. ASSUME NEW k \in Keys \ torn', NEW j \in Lanes \ {i}, k \in RaisedBy(req[j])
       PROVE  k \notin RaisedBy(r)
  BY <1>1, <1>11, <1>12, OnlyOne
<1> QED
  BY <1>1, <1>6, <1>7, <1>8, <1>9, <1>10, <1>12, KeepsOn

LEMMA SweepLoadFailsStep ==
  ASSUME AlertsInv, NEW i \in Lanes, NEW q \in Queries, SweepLoadFails(i, q)
  PROVE  AlertsInv'
<1> DEFINE left == req[i].todo \ {q}
           failed == {k \in Keys : rows[k.thing].kind = q}
           r == [req[i] EXCEPT !.pc = IF left = {} THEN "live" ELSE "load", !.todo = left,
                               !.off = @ \cup failed]
<1>1. /\ req[i].pc = "load" /\ q \in req[i].todo /\ q \in {"inventory", "menu"}
      /\ Goes(i, r) /\ UNCHANGED <<rows, torn>>
  BY DEF SweepLoadFails, At
<1>2. req[i] \in Work /\ req[i].op = "sweep" /\ FoundOnce(req[i]) /\ FoundAll(alerts, req[i])
  BY <1>1 DEF AlertsInv, AlertsType, InItsWork, FreeLane
<1>3. AlertsType
  BY DEF AlertsInv
<1>4. /\ r \in Work /\ r.op = "sweep" /\ r.todo = left /\ r.wanted = req[i].wanted
      /\ r.off = req[i].off \cup failed /\ r.ids = req[i].ids
      /\ r.pc \in {"live", "load"} /\ (r.pc = "live" => left = {})
  BY <1>2 DEF Work, Pcs
<1> HIDE DEF r
<1>5. InItsWork(r)
  BY <1>4 DEF InItsWork
<1>6. FoundOnce(r)
  BY <1>1, <1>2, <1>4 DEF FoundOnce, Sweeping
<1>7. FoundAll(alerts, r)
  <2>1. Keys \ Breaches \subseteq r.off
    BY <1>2, <1>4 DEF FoundAll
  <2>2. ASSUME NEW k \in Keys \ r.off
        PROVE  QueryOf[k.rule] \in r.todo \/ \E v \in r.wanted : DedupeKey(v) = k
    <3>1. QueryOf[k.rule] \in req[i].todo \/ \E v \in req[i].wanted : DedupeKey(v) = k
      BY <1>1, <1>2, <1>4 DEF FoundAll, Sweeping
    <3>2. k \in Breaches
      BY <2>1
    <3>3. QueryOf[k.rule] # q
      BY <3>2, <1>1, <1>3, <1>4, QueriesFind
    <3> QED
      BY <3>1, <3>3, <1>4
  <2> QED
    BY <2>1, <2>2, <1>2, <1>4 DEF FoundAll
<1>8. \A k \in Keys : ~Inserting(r, k)
  BY <1>4 DEF Inserting
<1>9. \A k : k \in RaisedBy(r) => k \in RaisedBy(req[i])
  BY <1>2, <1>4 DEF RaisedBy
<1>10. ASSUME NEW k \in Keys \ torn', NEW j \in Lanes \ {i}, k \in RaisedBy(req[j])
       PROVE  k \notin RaisedBy(r)
  BY <1>1, <1>9, <1>10, OnlyOne
<1> QED
  BY <1>1, <1>4, <1>5, <1>6, <1>7, <1>8, <1>10, KeepsOn

\* A row that stands for the live ones of its key, and what speaks of it.
LEMMA TellingIs ==
  ASSUME NEW S \in Existing, S \subseteq DOMAIN alerts
  PROVE  /\ \A n \in S : alerts[n].status # "resolved"
         /\ \A k : LiveIn(alerts, k) # {} => \E n \in S : DedupeKey(alerts[n]) = k
<1>1. \A n \in S : alerts[n].status # "resolved"
  BY DEF Existing
<1>2. ASSUME NEW k, NEW m \in LiveIn(alerts, k) PROVE \E n \in S : DedupeKey(alerts[n]) = k
  <2>1. Cardinality(Telling(S, alerts[m])) = 1 /\ DedupeKey(alerts[m]) = k
    BY DEF Existing, LiveIn
  <2>2. Telling(S, alerts[m]) # {}
    BY <2>1, FS_EmptySet
  <2> QED
    BY <2>1, <2>2 DEF Telling
<1> QED
  BY <1>1, <1>2

LEMMA SweepReadsLiveStep ==
  ASSUME AlertsInv, NEW i \in Lanes, SweepReadsLive(i)
  PROVE  AlertsInv'
<1> DEFINE wanted == req[i].wanted
<1>1. /\ req[i].pc = "live" /\ UNCHANGED <<rows, torn>>
      /\ \E S \in Existing :
          Goes(i, Rest([req[i] EXCEPT !.pc = "write",
            !.wanted = {v \in wanted : Telling(S, v) = {}},
            !.fresh  = {f \in [id : S, v : wanted] :
                          f.id \in Telling(S, f.v) /\ Outdated(alerts[f.id], f.v)},
            !.ids    = Unwanted(S, wanted)]))
  BY DEF SweepReadsLive, At
<1>2. PICK S \in Existing :
        Goes(i, Rest([req[i] EXCEPT !.pc = "write",
            !.wanted = {v \in wanted : Telling(S, v) = {}},
            !.fresh  = {f \in [id : S, v : wanted] :
                          f.id \in Telling(S, f.v) /\ Outdated(alerts[f.id], f.v)},
            !.ids    = Unwanted(S, wanted)]))
  BY <1>1
<1> DEFINE fresh == {f \in [id : S, v : wanted] :
                       f.id \in Telling(S, f.v) /\ Outdated(alerts[f.id], f.v)}
           r == [req[i] EXCEPT !.pc = "write", !.wanted = {v \in wanted : Telling(S, v) = {}},
                               !.fresh = fresh, !.ids = Unwanted(S, wanted)]
<1>3. /\ req[i] \in Work /\ req[i].op = "sweep" /\ req[i].todo = {}
      /\ FoundOnce(req[i]) /\ FoundAll(alerts, req[i])
  BY <1>1 DEF AlertsInv, AlertsType, InItsWork, FreeLane
<1>4. S \subseteq DOMAIN alerts /\ DOMAIN alerts \subseteq Nat
  BY DEF Existing, AlertsInv, AlertsType, AlertRows
<1>5. fresh \subseteq [id : Nat, v : Breach]
  BY <1>3, <1>4 DEF Work
<1> HIDE DEF fresh
<1>6. /\ r \in Work /\ r.op = "sweep" /\ r.pc = "write" /\ r.off = req[i].off
      /\ r.wanted = {v \in wanted : Telling(S, v) = {}} /\ r.ids = Unwanted(S, wanted)
  BY <1>3, <1>4, <1>5 DEF Work, Pcs, Unwanted
<1>7. Goes(i, Rest(r))
  BY <1>2 DEF fresh
<1> HIDE DEF r
<1>8. CASE Rest(r) = FreeLane
  BY <1>1, <1>7, <1>8, AnswersAny DEF Answers
<1>9. CASE Rest(r) # FreeLane
  <2>1. Rest(r) = r /\ InItsWork(r)
    BY <1>6, <1>9 DEF Rest, InItsWork
  <2>2. FoundOnce(r)
    BY <1>3, <1>6 DEF FoundOnce, Sweeping
  <2>3. FoundAll(alerts, r)
    <3>1. ASSUME NEW n \in r.ids PROVE n \in DOMAIN alerts /\ DedupeKey(alerts[n]) \in r.off
      <4>1. n \in S /\ \A v \in wanted : n \notin Telling(S, v)
        BY <1>6 DEF Unwanted
      <4>2. n \in DOMAIN alerts /\ DedupeKey(alerts[n]) \in Keys
        BY <4>1, <1>4, KeysAre DEF AlertsInv, AlertsType, AlertRows
      <4>3. \A v \in wanted : DedupeKey(v) # DedupeKey(alerts[n])
        BY <4>1 DEF Telling
      <4>4. DedupeKey(alerts[n]) \in req[i].off
        BY <4>2, <4>3, <1>1, <1>3 DEF FoundAll, Sweeping
      <4> QED
        BY <4>2, <4>4, <1>6
    <3> QED
      BY <3>1, <1>3, <1>6 DEF FoundAll, Sweeping
  <2>4. ASSUME NEW k \in Keys, Inserting(r, k) PROVE LiveIn(alerts, k) = {}
    <3>1. PICK v \in r.wanted : DedupeKey(v) = k
      BY <2>4 DEF Inserting
    <3>2. Telling(S, v) = {}
      BY <3>1, <1>6
    <3>3. \A n \in S : DedupeKey(alerts[n]) # k
      BY <3>1, <3>2 DEF Telling
    <3> QED
      BY <3>3, <1>4, TellingIs
  <2>5. \A k : k \in RaisedBy(r) => k \in RaisedBy(req[i])
    BY <1>3, <1>6 DEF RaisedBy
  <2>6. ASSUME NEW k \in Keys \ torn', NEW j \in Lanes \ {i}, k \in RaisedBy(req[j])
        PROVE  k \notin RaisedBy(r)
    BY <1>1, <2>5, <2>6, OnlyOne
  <2> QED
    BY <1>1, <1>6, <1>7, <2>1, <2>2, <2>3, <2>4, <2>6, KeepsOn
<1> QED
  BY <1>8, <1>9

\* A row is inserted under a number that no row has.
LEMMA InsertedIs ==
  ASSUME AlertRows(alerts), NEW row \in Alert
  PROVE  /\ AlertRows(Inserted(row))
         /\ \E n \in Nat \ DOMAIN alerts :
              /\ DOMAIN Inserted(row) = DOMAIN alerts \cup {n}
              /\ Inserted(row)[n] = row
              /\ \A m \in DOMAIN alerts : Inserted(row)[m] = alerts[m]
<1> DEFINE c == Cardinality(DOMAIN alerts)
           n == CHOOSE n \in 1 .. c + 1 : n \notin DOMAIN alerts
<1>1. IsFiniteSet(DOMAIN alerts) /\ c \in Nat
  BY FS_CardinalityType DEF AlertRows
<1>2. \E m \in 1 .. c + 1 : m \notin DOMAIN alerts
  <2> SUFFICES ASSUME 1 .. c + 1 \subseteq DOMAIN alerts PROVE FALSE
    OBVIOUS
  <2>1. Cardinality(1 .. c + 1) <= c
    BY <1>1, FS_Subset
  <2>2. Cardinality(1 .. c + 1) = c + 1
    <3>1. 1 <= c + 1 /\ 1 \in Int /\ c + 1 \in Int
      BY <1>1
    <3> QED
      BY <3>1, <1>1, FS_Interval
  <2> HIDE DEF c
  <2> QED
    BY <2>1, <2>2, <1>1
<1>3. n \in 1 .. c + 1 /\ n \notin DOMAIN alerts
  BY <1>2
<1>4. n \in Nat
  BY <1>1, <1>3
<1>5. Inserted(row) = [m \in DOMAIN alerts \cup {n} |-> IF m = n THEN row ELSE alerts[m]]
  BY DEF Inserted
<1> HIDE DEF n, c
<1>6. DOMAIN Inserted(row) = DOMAIN alerts \cup {n}
  BY <1>5
<1>7. Inserted(row)[n] = row /\ \A m \in DOMAIN alerts : Inserted(row)[m] = alerts[m]
  BY <1>3, <1>5
<1>8. IsFiniteSet(DOMAIN alerts \cup {n})
  BY <1>1, FS_AddElement
<1>9. Inserted(row) = [m \in DOMAIN Inserted(row) |-> Inserted(row)[m]]
  BY <1>5
<1>10. DOMAIN Inserted(row) \subseteq Nat
  BY <1>4, <1>6 DEF AlertRows
<1>11. ASSUME NEW m \in DOMAIN Inserted(row) PROVE Inserted(row)[m] \in Alert
  BY <1>6, <1>7, <1>11 DEF AlertRows
<1>12. AlertRows(Inserted(row))
  BY <1>6, <1>8, <1>9, <1>10, <1>11 DEF AlertRows
<1> QED
  BY <1>3, <1>4, <1>6, <1>7, <1>12

LEMMA NewAlertIs ==
  ASSUME NEW v \in Breach
  PROVE  NewAlert(v) \in Alert /\ DedupeKey(NewAlert(v)) = DedupeKey(v)
         /\ NewAlert(v).status # "resolved"
BY DEF NewAlert, Breach, Alert, DedupeKey

\* Request i inserts a row for v, which it was to raise, and goes on as r.
LEMMA Raising ==
  ASSUME AlertsInv, NEW i \in Lanes, NEW v \in req[i].wanted, v \in Breach,
         Inserting(req[i], DedupeKey(v)), NEW r \in Work,
         Leaves(i, r, Inserted(NewAlert(v))), UNCHANGED <<rows, torn>>,
         InItsWork(r), FoundOnce(r), FoundAll(alerts, r),
         \A k : Inserting(r, k) => Inserting(req[i], k) /\ k # DedupeKey(v),
         \A k : k \in RaisedBy(r) => k \in RaisedBy(req[i])
  PROVE  AlertsInv'
<1> DEFINE A == Inserted(NewAlert(v))
<1>1. AlertRows(alerts)
  BY DEF AlertsInv, AlertsType
<1>2. NewAlert(v) \in Alert /\ DedupeKey(NewAlert(v)) = DedupeKey(v) /\ DedupeKey(v) \in Keys
  BY NewAlertIs, KeysAre
<1>3. AlertRows(A)
  BY <1>1, <1>2, InsertedIs
<1>4. PICK n \in Nat \ DOMAIN alerts : /\ DOMAIN A = DOMAIN alerts \cup {n}
                                       /\ A[n] = NewAlert(v)
                                       /\ \A m \in DOMAIN alerts : A[m] = alerts[m]
  BY <1>1, <1>2, InsertedIs
<1>5. Leaves(i, r, A)
  OBVIOUS
<1> HIDE DEF A
<1>6. FoundAll(A, r)
  BY <1>4 DEF FoundAll
<1>7. \A m \in DOMAIN alerts : m \in DOMAIN A /\ DedupeKey(A[m]) = DedupeKey(alerts[m])
  BY <1>4
<1>8. ASSUME NEW k \in Keys \ torn'
      PROVE  /\ \A l, m \in LiveIn(A, k) : l = m
             /\ Inserting(r, k) => LiveIn(A, k) = {}
             /\ \A j \in Lanes \ {i} : k \in RaisedBy(req[j]) =>
                  LiveIn(A, k) \subseteq LiveIn(alerts, k) /\ k \notin RaisedBy(r)
  <2>1. Once(k)
    BY <1>8 DEF AlertsInv
  <2>2. CASE k = DedupeKey(v)
    <3>1. LiveIn(alerts, k) = {} /\ k \in RaisedBy(req[i])
      BY <2>1, <2>2, <1>2, InsertingRaises DEF Once
    <3>2. LiveIn(A, k) \subseteq {n}
      BY <3>1, <1>4 DEF LiveIn
    <3>3. \A j \in Lanes \ {i} : k \notin RaisedBy(req[j])
      BY <3>1, <2>1 DEF Once
    <3> QED
      BY <3>2, <3>3, <2>2
  <2>3. CASE k # DedupeKey(v)
    <3>1. LiveIn(A, k) = LiveIn(alerts, k)
      BY <2>3, <1>2, <1>4 DEF LiveIn
    <3>2. \A j \in Lanes \ {i} : k \in RaisedBy(req[j]) => k \notin RaisedBy(r)
      BY <2>1 DEF Once
    <3> QED
      BY <3>1, <3>2, <2>1 DEF Once
  <2> QED
    BY <2>2, <2>3
<1> QED
  BY <1>3, <1>5, <1>6, <1>7, <1>8, Writes

\* A sweep that writes, and what is left of it.
LEMMA RestIs ==
  ASSUME NEW r \in Work, r.op = "sweep", r.pc = "write", FoundOnce(r), FoundAll(alerts, r)
  PROVE  /\ Rest(r) \in Work /\ InItsWork(Rest(r)) /\ FoundOnce(Rest(r))
         /\ FoundAll(alerts, Rest(r))
         /\ \A k : Inserting(Rest(r), k) => Inserting(r, k)
         /\ RaisedBy(Rest(r)) \subseteq Keys /\ Rest(r).ids \subseteq r.ids
<1>1. CASE Rest(r) = FreeLane
  <2>1. FreeLane.ids = {} /\ \A k : ~Inserting(FreeLane, k)
    BY DEF FreeLane, Inserting
  <2> QED
    BY <1>1, <2>1, FreeIs DEF InItsWork, FoundOnce, FoundAll, Sweeping
<1>2. CASE Rest(r) # FreeLane
  <2>1. Rest(r) = r
    BY <1>2 DEF Rest
  <2> QED
    BY <1>2, <2>1 DEF InItsWork, RaisedBy
<1> QED
  BY <1>1, <1>2

\* The sweep in lane i is writing.
LEMMA WritingIs ==
  ASSUME AlertsInv, NEW i \in Lanes, req[i].pc = "write"
  PROVE  /\ req[i] \in Work /\ req[i].op = "sweep" /\ RaisedBy(req[i]) = Keys
         /\ FoundOnce(req[i]) /\ FoundAll(alerts, req[i])
         /\ req[i].wanted # {} \/ req[i].fresh # {} \/ req[i].ids # {}
<1>1. /\ InItsWork(req[i]) /\ req[i] \in Work /\ FoundOnce(req[i])
      /\ FoundAll(alerts, req[i])
  BY DEF AlertsInv, AlertsType
<1>2. req[i].op = "sweep" /\ Rest(req[i]) # FreeLane
  BY <1>1 DEF InItsWork, FreeLane
<1> QED
  BY <1>1, <1>2 DEF Rest, RaisedBy

LEMMA SweepRaisesStep ==
  ASSUME AlertsInv, NEW i \in Lanes, SweepRaises(i)
  PROVE  AlertsInv'
<1> DEFINE v == CHOOSE v \in req[i].wanted : TRUE
           r == [req[i] EXCEPT !.wanted = @ \ {v}]
<1>1. /\ req[i].pc = "write" /\ req[i].wanted # {} /\ UNCHANGED <<rows, torn>>
      /\ Leaves(i, Rest(r), Inserted(NewAlert(v)))
  BY DEF SweepRaises, At
<1>2. v \in req[i].wanted
  BY <1>1
<1> HIDE DEF v
<1>3. /\ req[i] \in Work /\ req[i].op = "sweep" /\ RaisedBy(req[i]) = Keys
      /\ FoundOnce(req[i]) /\ FoundAll(alerts, req[i])
  BY <1>1, WritingIs
<1>4. v \in Breach
  BY <1>2, <1>3 DEF Work
<1>5. /\ r \in Work /\ r.op = "sweep" /\ r.pc = "write" /\ r.wanted = req[i].wanted \ {v}
      /\ r.off = req[i].off /\ r.ids = req[i].ids
  BY <1>1, <1>3 DEF Work
<1> HIDE DEF r
<1>6. FoundOnce(r) /\ FoundAll(alerts, r)
  BY <1>1, <1>3, <1>5 DEF FoundOnce, FoundAll, Sweeping
<1>7. Inserting(req[i], DedupeKey(v))
  BY <1>1, <1>2, <1>3 DEF Inserting
<1>8. \A k : Inserting(r, k) => Inserting(req[i], k) /\ k # DedupeKey(v)
  BY <1>1, <1>2, <1>3, <1>5 DEF Inserting, FoundOnce
<1> QED
  BY <1>1, <1>2, <1>3, <1>4, <1>5, <1>6, <1>7, <1>8, RestIs, Raising

\* Request i changes rows but neither their keys nor, unless they were resolved and
\* their keys are torn, whether they are live.
LEMMA Editing ==
  ASSUME AlertsInv, NEW i \in Lanes, NEW r \in Work, NEW A, AlertRows(A), Leaves(i, r, A),
         UNCHANGED rows, torn \subseteq torn',
         InItsWork(r), FoundOnce(r), FoundAll(alerts, r),
         DOMAIN A = DOMAIN alerts,
         \A n \in DOMAIN alerts : /\ DedupeKey(A[n]) = DedupeKey(alerts[n])
                                  /\ \/ alerts[n].status = "resolved" => A[n].status = "resolved"
                                     \/ DedupeKey(alerts[n]) \in torn',
         \A k : Inserting(r, k) => Inserting(req[i], k),
         \A k : k \in RaisedBy(r) => k \in RaisedBy(req[i])
  PROVE  AlertsInv'
<1>1. FoundAll(A, r)
  BY DEF FoundAll
<1>2. ASSUME NEW k \in Keys \ torn'
      PROVE  /\ \A m, n \in LiveIn(A, k) : m = n
             /\ Inserting(r, k) => LiveIn(A, k) = {}
             /\ \A j \in Lanes \ {i} : k \in RaisedBy(req[j]) =>
                  LiveIn(A, k) \subseteq LiveIn(alerts, k) /\ k \notin RaisedBy(r)
  <2>1. Once(k)
    BY <1>2 DEF AlertsInv
  <2>2. LiveIn(A, k) \subseteq LiveIn(alerts, k)
    BY <1>2 DEF LiveIn
  <2> QED
    BY <2>1, <2>2 DEF Once
<1> QED
  BY <1>1, <1>2, Writes

LEMMA SweepRefreshesStep ==
  ASSUME AlertsInv, NEW i \in Lanes, SweepRefreshes(i)
  PROVE  AlertsInv'
<1> DEFINE f == CHOOSE f \in req[i].fresh : TRUE
           r == [req[i] EXCEPT !.fresh = @ \ {f}]
           A == [alerts EXCEPT ![f.id].severity = f.v.severity, ![f.id].station = f.v.station,
                               ![f.id].target = f.v.target]
<1>1. /\ req[i].pc = "write" /\ req[i].fresh # {} /\ UNCHANGED <<rows, torn>>
      /\ Leaves(i, Rest(r), A)
  BY DEF SweepRefreshes, At
<1>2. f \in req[i].fresh
  BY <1>1
<1> HIDE DEF f
<1>3. /\ req[i] \in Work /\ req[i].op = "sweep" /\ RaisedBy(req[i]) = Keys
      /\ FoundOnce(req[i]) /\ FoundAll(alerts, req[i])
  BY <1>1, WritingIs
<1>4. f.v \in Breach
  BY <1>2, <1>3 DEF Work
<1>5. AlertRows(alerts)
  BY DEF AlertsInv, AlertsType
<1>6. /\ DOMAIN A = DOMAIN alerts /\ A = [n \in DOMAIN A |-> A[n]]
      /\ \A n \in DOMAIN alerts : A[n] = IF n = f.id
           THEN [alerts[n] EXCEPT !.severity = f.v.severity, !.station = f.v.station,
                                  !.target = f.v.target]
           ELSE alerts[n]
  BY <1>5 DEF AlertRows
<1> HIDE DEF A
<1>7. ASSUME NEW n \in DOMAIN alerts
      PROVE  /\ A[n] \in Alert /\ DedupeKey(A[n]) = DedupeKey(alerts[n])
             /\ A[n].status = alerts[n].status
  <2>1. alerts[n] \in Alert
    BY <1>5 DEF AlertRows
  <2> QED
    BY <2>1, <1>4, <1>6 DEF Alert, Breach, DedupeKey
<1>8. AlertRows(A)
  BY <1>5, <1>6, <1>7 DEF AlertRows
<1>9. /\ r \in Work /\ r.op = "sweep" /\ r.pc = "write" /\ r.wanted = req[i].wanted
      /\ r.off = req[i].off /\ r.ids = req[i].ids
  BY <1>1, <1>3 DEF Work
<1> HIDE DEF r
<1>10. FoundOnce(r) /\ FoundAll(alerts, r)
  BY <1>1, <1>3, <1>9 DEF FoundOnce, FoundAll, Sweeping
<1>11. \A k : Inserting(r, k) => Inserting(req[i], k)
  BY <1>1, <1>3, <1>9 DEF Inserting
<1> QED
  BY <1>1, <1>3, <1>6, <1>7, <1>8, <1>9, <1>10, <1>11, RestIs, Editing

LEMMA SweepResolvesStep ==
  ASSUME AlertsInv, NEW i \in Lanes, SweepResolves(i)
  PROVE  AlertsInv'
<1> DEFINE n == CHOOSE n \in req[i].ids : TRUE
           r == [req[i] EXCEPT !.ids = @ \ {n}]
           A == [alerts EXCEPT ![n].status = "resolved"]
<1>1. req[i].pc = "write" /\ UNCHANGED <<rows, torn>> /\ Leaves(i, Rest(r), A)
  BY DEF SweepResolves, At
<1>2. /\ req[i] \in Work /\ req[i].op = "sweep" /\ RaisedBy(req[i]) = Keys
      /\ FoundOnce(req[i]) /\ FoundAll(alerts, req[i])
  BY <1>1, WritingIs
<1>3. AlertRows(alerts)
  BY DEF AlertsInv, AlertsType
<1> HIDE DEF n
<1>4. /\ DOMAIN A = DOMAIN alerts /\ A = [m \in DOMAIN A |-> A[m]]
      /\ \A m \in DOMAIN alerts : A[m] = IF m = n
           THEN [alerts[m] EXCEPT !.status = "resolved"] ELSE alerts[m]
  BY <1>3 DEF AlertRows
<1> HIDE DEF A
<1>5. ASSUME NEW m \in DOMAIN alerts
      PROVE  /\ A[m] \in Alert /\ DedupeKey(A[m]) = DedupeKey(alerts[m])
             /\ alerts[m].status = "resolved" => A[m].status = "resolved"
  <2>1. alerts[m] \in Alert
    BY <1>3 DEF AlertRows
  <2> QED
    BY <2>1, <1>4 DEF Alert, DedupeKey
<1>6. AlertRows(A)
  BY <1>3, <1>4, <1>5 DEF AlertRows
<1>7. /\ r \in Work /\ r.op = "sweep" /\ r.pc = "write" /\ r.wanted = req[i].wanted
      /\ r.off = req[i].off /\ r.ids \subseteq req[i].ids
  BY <1>1, <1>2 DEF Work
<1> HIDE DEF r
<1>8. FoundOnce(r) /\ FoundAll(alerts, r)
  BY <1>1, <1>2, <1>7 DEF FoundOnce, FoundAll, Sweeping
<1>9. \A k : Inserting(r, k) => Inserting(req[i], k)
  BY <1>1, <1>2, <1>7 DEF Inserting
<1> QED
  BY <1>1, <1>2, <1>4, <1>5, <1>6, <1>7, <1>8, <1>9, RestIs, Editing

LEMMA PingBeginsStep ==
  ASSUME AlertsInv, NEW i \in Lanes, NEW t \in Things, PingBegins(i, t)
  PROVE  AlertsInv'
<1> DEFINE v == Violation("readyNow", "warning", t, rows[t].station, rows[t].waiter)
           r == [FreeLane EXCEPT !.op = "ping", !.pc = "look", !.wanted = {v}]
<1>1. /\ rows[t].status = "ready" /\ rows[t].kind = "order"
      /\ Begins(i, [FreeLane EXCEPT !.op = "ping", !.pc = "look",
                                    !.wanted = EvaluateOrderReadyNow(t, rows[t])],
                {[rule |-> "readyNow", thing |-> t]})
  BY DEF PingBegins
<1>2. EvaluateOrderReadyNow(t, rows[t]) = {v}
  BY <1>1 DEF EvaluateOrderReadyNow
<1>3. rows[t] \in Row
  BY DEF AlertsInv, AlertsType
<1>4. v \in Evaluate(t, rows[t])
  BY <1>1, <1>2 DEF Evaluate
<1>5. v \in Breach /\ DedupeKey(v) = [rule |-> "readyNow", thing |-> t]
  <2>1. v \in Breach
    BY <1>3, <1>4, EvaluateIs
  <2> QED
    BY <2>1 DEF Violation, DedupeKey
<1> HIDE DEF v
<1>6. /\ Goes(i, r) /\ UNCHANGED rows
      /\ torn' = torn \cup UNION {{DedupeKey(v)} \cap Raises(j) : j \in Lanes \ {i}}
  BY <1>1, <1>2, <1>5 DEF Begins
<1>7. r \in Work /\ r.op = "ping" /\ r.pc = "look" /\ r.wanted = {v} /\ r.ids = {}
  BY <1>5, FreeIs DEF FreeLane, Work, Pcs
<1> HIDE DEF r
<1>8. InItsWork(r) /\ FoundOnce(r) /\ FoundAll(alerts, r)
  BY <1>5, <1>7 DEF InItsWork, FoundOnce, FoundAll, Sweeping
<1>9. \A k \in Keys : ~Inserting(r, k)
  BY <1>7 DEF Inserting
<1>10. ASSUME NEW k \in Keys \ torn', NEW j \in Lanes \ {i}, k \in RaisedBy(req[j])
       PROVE  k \notin RaisedBy(r)
  <2>1. k \in Raises(j)
    BY <1>10 DEF Raises, RaisedBy
  <2>2. k # DedupeKey(v)
    BY <2>1, <1>6, <1>10
  <2> QED
    BY <2>2, <1>7 DEF RaisedBy
<1> QED
  BY <1>6, <1>7, <1>8, <1>9, <1>10, KeepsOn

\* The ping in lane i has one violation.
LEMMA PingIs ==
  ASSUME AlertsInv, NEW i \in Lanes, req[i].pc \in {"look", "aim", "insert"}
  PROVE  /\ req[i] \in Work /\ req[i].op = "ping"
         /\ Pinged(i) \in Breach /\ req[i].wanted = {Pinged(i)}
         /\ RaisedBy(req[i]) = {DedupeKey(Pinged(i))}
<1>1. req[i] \in Work /\ InItsWork(req[i])
  BY DEF AlertsInv, AlertsType
<1>2. req[i].op = "ping" /\ \E v \in Breach : req[i].wanted = {v}
  BY <1>1 DEF InItsWork, FreeLane
<1>3. PICK v \in Breach : req[i].wanted = {v}
  BY <1>2
<1>4. Pinged(i) = v
  BY <1>3 DEF Pinged
<1> QED
  BY <1>1, <1>2, <1>3, <1>4 DEF RaisedBy

LEMMA PingLooksStep ==
  ASSUME AlertsInv, NEW i \in Lanes, PingLooks(i)
  PROVE  AlertsInv'
<1> DEFINE k == DedupeKey(Pinged(i))
<1>1. /\ req[i].pc = "look" /\ UNCHANGED <<rows, torn>>
      /\ \/ Live(k) = {} /\ Goes(i, [req[i] EXCEPT !.pc = "insert"])
         \/ \E n \in Live(k) : \/ Goes(i, [req[i] EXCEPT !.pc = "aim", !.ids = {n}])
                               \/ Answers(i)
  BY DEF PingLooks, At
<1>2. /\ req[i] \in Work /\ req[i].op = "ping" /\ Pinged(i) \in Breach
      /\ req[i].wanted = {Pinged(i)} /\ RaisedBy(req[i]) = {k}
  BY <1>1, PingIs
<1>3. ASSUME NEW r \in Work, Goes(i, r), r.op = "ping", r.pc \in {"aim", "insert"},
             r.wanted = {Pinged(i)}, r.pc = "insert" => Live(k) = {}
      PROVE  AlertsInv'
  <2>1. InItsWork(r) /\ FoundOnce(r) /\ FoundAll(alerts, r)
    BY <1>2, <1>3 DEF InItsWork, FoundOnce, FoundAll, Sweeping
  <2>2. \A l : Inserting(r, l) => LiveIn(alerts, l) = {}
    BY <1>3 DEF Inserting, Live, LiveIn
  <2>3. RaisedBy(r) = RaisedBy(req[i])
    BY <1>2, <1>3 DEF RaisedBy
  <2>4. ASSUME NEW l \in Keys \ torn', NEW j \in Lanes \ {i}, l \in RaisedBy(req[j])
        PROVE  l \notin RaisedBy(r)
    BY <1>1, <2>3, <2>4, OnlyOne
  <2> QED
    BY <1>1, <1>3, <2>1, <2>2, <2>4, KeepsOn
<1>4. CASE Live(k) = {} /\ Goes(i, [req[i] EXCEPT !.pc = "insert"])
  <2> DEFINE r == [req[i] EXCEPT !.pc = "insert"]
  <2>1. r \in Work /\ r.op = "ping" /\ r.pc = "insert" /\ r.wanted = {Pinged(i)}
    BY <1>2 DEF Work, Pcs
  <2> QED
    BY <1>3, <1>4, <2>1
<1>5. ASSUME NEW n \in Live(k), Goes(i, [req[i] EXCEPT !.pc = "aim", !.ids = {n}])
      PROVE  AlertsInv'
  <2> DEFINE r == [req[i] EXCEPT !.pc = "aim", !.ids = {n}]
  <2>1. n \in Nat
    BY <1>5 DEF Live, AlertsInv, AlertsType, AlertRows
  <2>2. r \in Work /\ r.op = "ping" /\ r.pc = "aim" /\ r.wanted = {Pinged(i)}
    BY <1>2, <2>1 DEF Work, Pcs
  <2> QED
    BY <1>3, <1>5, <2>2
<1>6. CASE Answers(i)
  BY <1>1, <1>6, AnswersAny
<1> QED
  BY <1>1, <1>4, <1>5, <1>6

\* A request that ends without raising anything.
LEMMA FreeAgain ==
  /\ InItsWork(FreeLane) /\ FoundOnce(FreeLane) /\ FoundAll(alerts, FreeLane)
  /\ \A k : ~Inserting(FreeLane, k)
BY FreeIs DEF FreeLane, InItsWork, FoundOnce, FoundAll, Sweeping, Inserting

LEMMA PingAimsStep ==
  ASSUME AlertsInv, NEW i \in Lanes, PingAims(i)
  PROVE  AlertsInv'
<1> DEFINE A == [n \in DOMAIN alerts |->
                   IF n \in req[i].ids THEN [alerts[n] EXCEPT !.target = Pinged(i).target]
                                       ELSE alerts[n]]
<1>1. req[i].pc = "aim" /\ UNCHANGED <<rows, torn>> /\ Leaves(i, FreeLane, A)
  BY DEF PingAims, At
<1>2. Pinged(i) \in Breach
  BY <1>1, PingIs
<1>3. AlertRows(alerts)
  BY DEF AlertsInv, AlertsType
<1>4. ASSUME NEW n \in DOMAIN alerts
      PROVE  /\ A[n] \in Alert /\ DedupeKey(A[n]) = DedupeKey(alerts[n])
             /\ A[n].status = alerts[n].status
  <2>1. alerts[n] \in Alert
    BY <1>3 DEF AlertRows
  <2> QED
    BY <2>1, <1>2 DEF Alert, Breach, DedupeKey
<1>5. DOMAIN A = DOMAIN alerts /\ A = [n \in DOMAIN A |-> A[n]]
  OBVIOUS
<1> HIDE DEF A
<1>6. AlertRows(A)
  BY <1>3, <1>4, <1>5 DEF AlertRows
<1> QED
  BY <1>1, <1>4, <1>5, <1>6, FreeIs, FreeAgain, Editing

LEMMA PingInsertsStep ==
  ASSUME AlertsInv, NEW i \in Lanes, PingInserts(i)
  PROVE  AlertsInv'
<1>1. /\ req[i].pc = "insert" /\ UNCHANGED <<rows, torn>>
      /\ Leaves(i, FreeLane, Inserted(NewAlert(Pinged(i))))
  BY DEF PingInserts, At
<1>2. req[i].op = "ping" /\ Pinged(i) \in Breach /\ req[i].wanted = {Pinged(i)}
  BY <1>1, PingIs
<1>3. Pinged(i) \in req[i].wanted /\ Inserting(req[i], DedupeKey(Pinged(i)))
  BY <1>1, <1>2 DEF Inserting
<1> QED
  BY <1>1, <1>2, <1>3, FreeIs, FreeAgain, Raising

LEMMA AckBeginsStep ==
  ASSUME AlertsInv, NEW i \in Lanes, NEW who \in People, AckBegins(i, who)
  PROVE  AlertsInv'
<1>1. PICK S \in {{n} : n \in DOMAIN alerts}
                   \cup (IF who.role = "manager"
                         THEN {{n \in DOMAIN alerts : alerts[n].status = "open"}} ELSE {}) :
        Begins(i, [FreeLane EXCEPT !.op = "ack", !.pc = "sign", !.ids = S], {})
  BY DEF AckBegins
<1> DEFINE r == [FreeLane EXCEPT !.op = "ack", !.pc = "sign", !.ids = S]
<1>2. S \subseteq Nat
  <2>1. S \subseteq DOMAIN alerts
    BY <1>1
  <2> QED
    BY <2>1 DEF AlertsInv, AlertsType, AlertRows
<1>3. Goes(i, r) /\ UNCHANGED rows /\ torn \subseteq torn'
  BY <1>1 DEF Begins
<1>4. r \in Work /\ r.op = "ack" /\ r.pc = "sign"
  BY <1>2, FreeIs DEF FreeLane, Work, Pcs
<1> HIDE DEF r
<1>5. /\ InItsWork(r) /\ FoundOnce(r) /\ FoundAll(alerts, r) /\ RaisedBy(r) = {}
      /\ \A k : ~Inserting(r, k)
  BY <1>4 DEF InItsWork, FoundOnce, FoundAll, Sweeping, RaisedBy, Inserting
<1> QED
  BY <1>3, <1>4, <1>5, KeepsOn

LEMMA AckSignsStep ==
  ASSUME AlertsInv, NEW i \in Lanes, AckSigns(i)
  PROVE  AlertsInv'
<1>1. PICK n \in req[i].ids :
        /\ req[i].pc = "sign"
        /\ Leaves(i, IF req[i].ids = {n} THEN FreeLane ELSE [req[i] EXCEPT !.ids = @ \ {n}],
                  [alerts EXCEPT ![n].status = "acknowledged"])
        /\ torn' = torn \cup IF alerts[n].status = "resolved" THEN {DedupeKey(alerts[n])} ELSE {}
        /\ UNCHANGED rows
  BY DEF AckSigns, At
<1> DEFINE r == IF req[i].ids = {n} THEN FreeLane ELSE [req[i] EXCEPT !.ids = @ \ {n}]
           A == [alerts EXCEPT ![n].status = "acknowledged"]
<1>2. AlertRows(alerts) /\ req[i] \in Work /\ InItsWork(req[i])
  BY DEF AlertsInv, AlertsType
<1>3. req[i].op = "ack"
  BY <1>1, <1>2 DEF InItsWork, FreeLane
<1>4. /\ DOMAIN A = DOMAIN alerts /\ A = [m \in DOMAIN A |-> A[m]]
      /\ \A m \in DOMAIN alerts : A[m] = IF m = n
           THEN [alerts[m] EXCEPT !.status = "acknowledged"] ELSE alerts[m]
  BY <1>2 DEF AlertRows
<1>5. Leaves(i, r, A) /\ torn \subseteq torn'
  BY <1>1
<1> HIDE DEF A
<1>6. ASSUME NEW m \in DOMAIN alerts
      PROVE  /\ A[m] \in Alert /\ DedupeKey(A[m]) = DedupeKey(alerts[m])
             /\ \/ alerts[m].status = "resolved" => A[m].status = "resolved"
                \/ DedupeKey(alerts[m]) \in torn'
  <2>1. alerts[m] \in Alert
    BY <1>2 DEF AlertRows
  <2>2. A[m] \in Alert /\ DedupeKey(A[m]) = DedupeKey(alerts[m])
    BY <2>1, <1>4 DEF Alert, DedupeKey
  <2>3. CASE m = n /\ alerts[m].status = "resolved"
    BY <2>2, <2>3, <1>1
  <2>4. CASE m # n
    BY <2>2, <2>4, <1>4
  <2> QED
    BY <2>2, <2>3, <2>4
<1>7. AlertRows(A)
  BY <1>2, <1>4, <1>6 DEF AlertRows
<1>8. \/ r = FreeLane
      \/ r \in Work /\ r.op = "ack" /\ r.pc = "sign"
  BY <1>1, <1>2, <1>3 DEF Work
<1> HIDE DEF r
<1>9. r \in Work
  BY <1>8, FreeIs
<1>10. /\ InItsWork(r) /\ FoundOnce(r) /\ FoundAll(alerts, r) /\ RaisedBy(r) = {}
       /\ \A k : ~Inserting(r, k)
  <2>1. CASE r = FreeLane
    BY <2>1, FreeIs, FreeAgain
  <2>2. CASE r.op = "ack" /\ r.pc = "sign"
    BY <2>2 DEF InItsWork, FoundOnce, FoundAll, Sweeping, RaisedBy, Inserting
  <2> QED
    BY <2>1, <2>2, <1>8
<1> QED
  BY <1>1, <1>4, <1>5, <1>6, <1>7, <1>9, <1>10, Editing

\* A row changes: what was in breach and is not any more is off for the sweeps at work.
LEMMA ChangesStep ==
  ASSUME AlertsInv, NEW t \in Things, NEW r \in RowsOf[t], Changes(t, r)
  PROVE  AlertsInv'
<1>1. /\ rows' = [rows EXCEPT ![t] = r]
      /\ req' = [i \in Lanes |-> IF req[i].op # "sweep" THEN req[i]
                                 ELSE [req[i] EXCEPT !.off = @ \cup (Keys \ Breaches')]]
      /\ UNCHANGED <<alerts, torn>>
  BY DEF Changes
<1> DEFINE now == Breaches'
<1>2. \A i \in Lanes : req'[i] = IF req[i].op # "sweep" THEN req[i]
                                 ELSE [req[i] EXCEPT !.off = @ \cup (Keys \ now)]
  BY <1>1
<1>3. req' = [i \in Lanes |-> req'[i]]
  BY <1>1
<1> HIDE DEF now
<1>4. ASSUME NEW i \in Lanes
      PROVE  /\ req'[i] \in Work /\ InItsWork(req'[i]) /\ FoundOnce(req'[i])
             /\ FoundAll(alerts, req[i])'
             /\ RaisedBy(req'[i]) = RaisedBy(req[i])
             /\ \A k : Inserting(req'[i], k) = Inserting(req[i], k)
  <2>1. req[i] \in Work /\ InItsWork(req[i]) /\ FoundOnce(req[i]) /\ FoundAll(alerts, req[i])
    BY DEF AlertsInv, AlertsType
  <2>2. CASE req[i].op # "sweep"
    <3>1. req'[i] = req[i]
      BY <1>2, <2>2
    <3>2. FoundAll(alerts, req[i])'
      BY <2>2, <3>1 DEF FoundAll, Sweeping
    <3> QED
      BY <2>1, <3>1, <3>2
  <2>3. CASE req[i].op = "sweep"
    <3>1. req'[i] = [req[i] EXCEPT !.off = @ \cup (Keys \ now)]
      BY <1>2, <2>3
    <3>2. /\ req'[i] \in Work
          /\ req'[i].op = "sweep" /\ req'[i].pc = req[i].pc /\ req'[i].todo = req[i].todo
          /\ req'[i].wanted = req[i].wanted /\ req'[i].fresh = req[i].fresh
          /\ req'[i].ids = req[i].ids /\ req'[i].off = req[i].off \cup (Keys \ now)
      BY <2>1, <2>3, <3>1 DEF Work
    <3>3. InItsWork(req'[i])
      <4>1. req[i].pc \in {"load", "live", "write"} /\ (req[i].pc = "live" => req[i].todo = {})
        BY <2>1, <2>3 DEF InItsWork, FreeLane
      <4>2. req[i].pc = "write" => req[i].wanted # {} \/ req[i].fresh # {} \/ req[i].ids # {}
        BY WritingIs
      <4>3. req[i].pc = "write" => Rest(req'[i]) # FreeLane
        BY <3>2, <4>2 DEF Rest, FreeLane
      <4> QED
        BY <3>2, <4>1, <4>3 DEF InItsWork
    <3>4. FoundOnce(req'[i])
      BY <2>1, <2>3, <3>2 DEF FoundOnce, Sweeping
    <3>5. FoundAll(alerts, req[i])'
      BY <2>1, <2>3, <3>2, <1>1 DEF FoundAll, Sweeping, now
    <3> QED
      BY <2>3, <3>2, <3>3, <3>4, <3>5 DEF RaisedBy, Inserting
  <2> QED
    BY <2>2, <2>3
<1>5. AlertsType'
  <2>1. rows' \in [Things -> Row] /\ \A u \in Things : rows'[u] \in RowsOf[u]
    <3>1. r \in Row
      BY ThingsAssumption
    <3> QED
      BY <3>1, <1>1 DEF AlertsInv, AlertsType
  <2>2. req' \in [Lanes -> Work]
    BY <1>3, <1>4
  <2> QED
    BY <2>1, <2>2, <1>1 DEF AlertsInv, AlertsType
<1>6. \A k \in Keys \ torn' : Once(k)'
  <2> SUFFICES ASSUME NEW k \in Keys \ torn' PROVE Once(k)'
    OBVIOUS
  <2>1. Once(k)
    BY <1>1 DEF AlertsInv
  <2>2. \A m, n \in LiveIn(alerts', k) : m = n
    BY <2>1, <1>1 DEF Once
  <2>3. \A i, j \in Lanes : i # j => k \notin RaisedBy(req'[i]) \cap RaisedBy(req'[j])
    BY <2>1, <1>4 DEF Once
  <2>4. ASSUME NEW i \in Lanes, Inserting(req'[i], k) PROVE LiveIn(alerts', k) = {}
    BY <2>1, <2>4, <1>1, <1>4 DEF Once
  <2> QED
    BY <2>2, <2>3, <2>4 DEF Once
<1>7. \A i \in Lanes : (InItsWork(req[i]) /\ FoundOnce(req[i]) /\ FoundAll(alerts, req[i]))'
  BY <1>4
<1> QED
  BY <1>5, <1>6, <1>7 DEF AlertsInv

LEMMA AlertsStart == AlertsInit => AlertsInv
<1> SUFFICES ASSUME AlertsInit PROVE AlertsInv
  OBVIOUS
<1>1. alerts = <<>> /\ req = [i \in Lanes |-> FreeLane] /\ torn = {}
  BY DEF AlertsInit
<1>2. rows \in [Things -> Row] /\ \A t \in Things : rows[t] \in RowsOf[t]
  <2>1. /\ rows \in [Things -> UNION {FirstRows[t] : t \in Things}]
        /\ \A t \in Things : rows[t] \in FirstRows[t]
    BY DEF AlertsInit
  <2>2. \A t \in Things : rows[t] \in RowsOf[t] /\ rows[t] \in Row
    BY <2>1, ThingsAssumption
  <2> QED
    BY <2>1, <2>2
<1>3. DOMAIN alerts = {} /\ alerts = [n \in DOMAIN alerts |-> alerts[n]]
  <2>1. <<>> \in Seq(Alert) /\ Len(<<>>) = 0
    OBVIOUS
  <2>2. <<>> \in [1 .. 0 -> Alert]
    BY <2>1
  <2> QED
    BY <1>1, <2>2
<1>4. AlertRows(alerts)
  BY <1>3, FS_EmptySet DEF AlertRows
<1>5. \A i \in Lanes : req[i] = FreeLane
  BY <1>1
<1>6. AlertsType
  BY <1>1, <1>2, <1>4, FreeIs DEF AlertsType
<1>7. \A k : LiveIn(alerts, k) = {}
  BY <1>3 DEF LiveIn
<1> QED
  BY <1>5, <1>6, <1>7, FreeIs, FreeAgain DEF AlertsInv, Once

LEMMA AlertsStep == AlertsInv /\ [AlertsNext]_alertsVars => AlertsInv'
<1> SUFFICES ASSUME AlertsInv, [AlertsNext]_alertsVars PROVE AlertsInv'
  OBVIOUS
<1>1. ASSUME NEW i \in Lanes, SweepSteps(i) PROVE AlertsInv'
  BY <1>1, SweepLoadsStep, SweepReadsLiveStep, SweepRaisesStep, SweepRefreshesStep,
     SweepResolvesStep DEF SweepSteps
<1>2. ASSUME NEW i \in Lanes, PingSteps(i) PROVE AlertsInv'
  BY <1>2, PingLooksStep, PingAimsStep, PingInsertsStep DEF PingSteps
<1>3. ASSUME NEW i \in Lanes, Dies(i) PROVE AlertsInv'
  BY <1>3, AnswersAny DEF Dies
<1>4. CASE UNCHANGED alertsVars
  BY <1>4 DEF alertsVars, AlertsInv, AlertsType, AlertRows, InItsWork, FoundOnce, FoundAll,
              Sweeping, Breaches, EvaluateAll, Once, LiveIn, RaisedBy, Inserting
<1> QED
  BY <1>1, <1>2, <1>3, <1>4, SweepBeginsStep, SweepLoadFailsStep, PingBeginsStep,
     AckBeginsStep, AckSignsStep, ChangesStep DEF AlertsNext, Steps

\* The inductive invariant of the next two (handlers/alerts.js, lib/rules.js).
THEOREM AlertsHold == AlertsSpec => []AlertsInv
BY AlertsStart, AlertsStep, PTL DEF AlertsSpec

\* However many sweeps, pings and acknowledgements interleave, a breach has one live
\* row unless two raisers met on it or a signature came late: OneRowPerBreach
\* (alerts.js:11-12, 213-251).
THEOREM BreachesHaveOneRow == AlertsSpec => []OneRowPerBreach
<1>1. AlertsInv => OneRowPerBreach
  <2> SUFFICES ASSUME AlertsInv, NEW k \in Keys \ torn PROVE Cardinality(Live(k)) <= 1
    BY DEF OneRowPerBreach
  <2>1. \A m, n \in Live(k) : m = n
    BY DEF AlertsInv, Once, Live, LiveIn
  <2>2. CASE Live(k) = {}
    BY <2>2, FS_EmptySet
  <2>3. CASE Live(k) # {}
    <3>1. PICK n \in Live(k) : Live(k) = {n}
      BY <2>1, <2>3
    <3>2. Cardinality(Live(k)) = 1
      BY <3>1, FS_Singleton
    <3> QED
      BY <3>2
  <2> QED
    BY <2>2, <2>3
<1> QED
  BY <1>1, AlertsHold, PTL

-----------------------------------------------------------------------------
(* Who resolves.                                                           *)

\* What was live in alerts still is.
StillLive == \A n \in DOMAIN alerts : alerts[n].status # "resolved" =>
               n \in DOMAIN alerts' /\ alerts'[n].status # "resolved"

LEMMA LeavesLive ==
  ASSUME AlertsInv, NEW i \in Lanes, NEW r, NEW A, AlertRows(A), Leaves(i, r, A),
         \A n \in DOMAIN alerts : alerts[n].status # "resolved" =>
           n \in DOMAIN A /\ A[n].status # "resolved"
  PROVE  StillLive
BY LeavesIs DEF StillLive

LEMMA GoesLive ==
  ASSUME AlertsInv, NEW i \in Lanes, NEW r, Goes(i, r)
  PROVE  StillLive
BY LeavesLive DEF Goes, AlertsInv, AlertsType

LEMMA InsertsLive ==
  ASSUME AlertsInv, NEW i \in Lanes, NEW r, NEW v \in Breach,
         Leaves(i, r, Inserted(NewAlert(v)))
  PROVE  StillLive
<1>1. NewAlert(v) \in Alert /\ AlertRows(alerts)
  BY NewAlertIs DEF AlertsInv, AlertsType
<1>2. AlertRows(Inserted(NewAlert(v)))
  BY <1>1, InsertedIs
<1>3. \A m \in DOMAIN alerts : /\ m \in DOMAIN Inserted(NewAlert(v))
                               /\ Inserted(NewAlert(v))[m] = alerts[m]
  BY <1>1, InsertedIs
<1> QED
  BY <1>2, <1>3, LeavesLive

\* Only the sweep's last statements take a live row away.
LEMMA SweepsKeepLive ==
  ASSUME AlertsInv, NEW i \in Lanes
  PROVE  /\ SweepRaises(i) => StillLive
         /\ SweepRefreshes(i) => StillLive
         /\ PingAims(i) => StillLive
         /\ PingInserts(i) => StillLive
         /\ AckSigns(i) => StillLive
<1>0. AlertRows(alerts) /\ req[i] \in Work
  BY DEF AlertsInv, AlertsType
<1>1. ASSUME SweepRaises(i) PROVE StillLive
  <2> DEFINE v == CHOOSE v \in req[i].wanted : TRUE
  <2>1. /\ req[i].wanted # {}
        /\ \E r : Leaves(i, r, Inserted(NewAlert(v)))
    BY <1>1 DEF SweepRaises
  <2>2. v \in req[i].wanted
    BY <2>1
  <2> HIDE DEF v
  <2>3. v \in Breach
    BY <2>2, <1>0 DEF Work
  <2> QED
    BY <2>1, <2>3, InsertsLive
<1>2. ASSUME SweepRefreshes(i) PROVE StillLive
  <2> DEFINE f == CHOOSE f \in req[i].fresh : TRUE
             A == [alerts EXCEPT ![f.id].severity = f.v.severity,
                                 ![f.id].station = f.v.station, ![f.id].target = f.v.target]
  <2>1. req[i].fresh # {} /\ \E r : Leaves(i, r, A)
    BY <1>2 DEF SweepRefreshes
  <2>2. f \in req[i].fresh
    BY <2>1
  <2> HIDE DEF f
  <2>3. f.v \in Breach
    BY <2>2, <1>0 DEF Work
  <2>4. /\ DOMAIN A = DOMAIN alerts /\ A = [n \in DOMAIN A |-> A[n]]
        /\ \A n \in DOMAIN alerts : A[n] = IF n = f.id
             THEN [alerts[n] EXCEPT !.severity = f.v.severity, !.station = f.v.station,
                                    !.target = f.v.target]
             ELSE alerts[n]
    BY <1>0 DEF AlertRows
  <2> HIDE DEF A
  <2>5. ASSUME NEW n \in DOMAIN alerts PROVE A[n] \in Alert /\ A[n].status = alerts[n].status
    <3>1. alerts[n] \in Alert
      BY <1>0 DEF AlertRows
    <3> QED
      BY <3>1, <2>3, <2>4 DEF Alert, Breach
  <2>6. AlertRows(A)
    BY <1>0, <2>4, <2>5 DEF AlertRows
  <2> QED
    BY <2>1, <2>4, <2>5, <2>6, LeavesLive
<1>3. ASSUME PingAims(i) PROVE StillLive
  <2> DEFINE A == [n \in DOMAIN alerts |->
                     IF n \in req[i].ids THEN [alerts[n] EXCEPT !.target = Pinged(i).target]
                                         ELSE alerts[n]]
  <2>1. req[i].pc = "aim" /\ Leaves(i, FreeLane, A)
    BY <1>3 DEF PingAims, At
  <2>2. Pinged(i) \in Breach
    BY <2>1, PingIs
  <2>3. \A n \in DOMAIN alerts : A[n] \in Alert /\ A[n].status = alerts[n].status
    BY <1>0, <2>2 DEF AlertRows, Alert, Breach
  <2>4. DOMAIN A = DOMAIN alerts /\ A = [n \in DOMAIN A |-> A[n]]
    OBVIOUS
  <2> HIDE DEF A
  <2>5. AlertRows(A)
    BY <1>0, <2>3, <2>4 DEF AlertRows
  <2> QED
    BY <2>1, <2>3, <2>4, <2>5, LeavesLive
<1>4. ASSUME PingInserts(i) PROVE StillLive
  <2>1. req[i].pc = "insert" /\ Leaves(i, FreeLane, Inserted(NewAlert(Pinged(i))))
    BY <1>4 DEF PingInserts, At
  <2>2. Pinged(i) \in Breach
    BY <2>1, PingIs
  <2> QED
    BY <2>1, <2>2, InsertsLive
<1>5. ASSUME AckSigns(i) PROVE StillLive
  <2>1. PICK n \in req[i].ids :
          \E r : Leaves(i, r, [alerts EXCEPT ![n].status = "acknowledged"])
    BY <1>5 DEF AckSigns
  <2> DEFINE A == [alerts EXCEPT ![n].status = "acknowledged"]
  <2>2. /\ DOMAIN A = DOMAIN alerts /\ A = [m \in DOMAIN A |-> A[m]]
        /\ \A m \in DOMAIN alerts : A[m] = IF m = n
             THEN [alerts[m] EXCEPT !.status = "acknowledged"] ELSE alerts[m]
    BY <1>0 DEF AlertRows
  <2>3. \E r : Leaves(i, r, A)
    BY <2>1
  <2> HIDE DEF A
  <2>4. \A m \in DOMAIN alerts : /\ A[m] \in Alert
                                 /\ alerts[m].status # "resolved" => A[m].status # "resolved"
    BY <1>0, <2>2 DEF AlertRows, Alert
  <2>5. AlertRows(A)
    BY <1>0, <2>2, <2>4 DEF AlertRows
  <2> QED
    BY <2>2, <2>3, <2>4, <2>5, LeavesLive
<1> QED
  BY <1>1, <1>2, <1>3, <1>4, <1>5

\* The statement that resolves speaks of a key that was off.
LEMMA ResolvesOff ==
  ASSUME AlertsInv, NEW i \in Lanes, SweepResolves(i), NEW j \in Lanes, req'[j] # req[j],
         NEW n \in DOMAIN alerts, alerts[n].status # "resolved",
         n \in DOMAIN alerts' => alerts'[n].status = "resolved"
  PROVE  DedupeKey(alerts[n]) \in req[j].off
<1> DEFINE m == CHOOSE m \in req[i].ids : TRUE
           A == [alerts EXCEPT ![m].status = "resolved"]
<1>1. /\ req[i].pc = "write" /\ req[i].wanted = {} /\ req[i].fresh = {}
      /\ \E r : Leaves(i, r, A)
  BY DEF SweepResolves, At
<1>2. req[i].ids # {} /\ req[i].op = "sweep" /\ FoundAll(alerts, req[i])
  BY <1>1, WritingIs
<1>3. m \in req[i].ids
  BY <1>2
<1> HIDE DEF m
<1>4. AlertRows(alerts) /\ req \in [Lanes -> Work]
  BY DEF AlertsInv, AlertsType
<1>5. j = i
  BY <1>1, <1>4 DEF Leaves
<1>6. CASE n = m
  BY <1>2, <1>3, <1>5, <1>6 DEF FoundAll
<1>7. CASE n # m
  <2>1. /\ DOMAIN A = DOMAIN alerts /\ A = [l \in DOMAIN A |-> A[l]]
        /\ \A l \in DOMAIN alerts : A[l] = IF l = m
             THEN [alerts[l] EXCEPT !.status = "resolved"] ELSE alerts[l]
    BY <1>4 DEF AlertRows
  <2> HIDE DEF A
  <2>2. \A l \in DOMAIN alerts : A[l] \in Alert
    BY <1>4, <2>1 DEF AlertRows, Alert
  <2>3. AlertRows(A) /\ A[n].status # "resolved" /\ n \in DOMAIN A
    BY <1>4, <1>7, <2>1, <2>2 DEF AlertRows
  <2>4. n \in DOMAIN alerts' /\ alerts'[n] = A[n]
    BY <1>1, <2>3, LeavesIs
  <2> QED
    BY <2>3, <2>4
<1> QED
  BY <1>6, <1>7

\* However the rows change and the requests interleave, a sweep resolves an alert only
\* if its condition was off since it began, or could not be read: ResolvedWhenCleared
\* (alerts.js:64-107, 280-288).
THEOREM ResolvedMeansCleared == AlertsSpec => ResolvedWhenCleared
<1> DEFINE Resolves(i, n) ==
      req[i].op = "sweep" /\ req'[i] # req[i] /\ alerts[n].status # "resolved"
        /\ (n \in DOMAIN alerts' => alerts'[n].status = "resolved")
<1>1. ASSUME AlertsInv, [AlertsNext]_alertsVars, NEW j \in Lanes, NEW n \in DOMAIN alerts,
             Resolves(j, n)
      PROVE  DedupeKey(alerts[n]) \in req[j].off
  <2>1. ~StillLive
    BY <1>1 DEF StillLive
  <2>2. alerts' # alerts
    BY <1>1
  <2>3. ASSUME NEW i \in Lanes, Steps(i) PROVE SweepResolves(i)
    <3>1. ~\E r : Goes(i, r)
      BY <1>1, <2>1, GoesLive
    <3>2. ASSUME NEW q \in Queries PROVE ~SweepLoads(i, q)
      BY <3>1 DEF SweepLoads
    <3>3. ~SweepReadsLive(i)
      BY <3>1 DEF SweepReadsLive
    <3>4. ~PingLooks(i)
      BY <3>1 DEF PingLooks, Answers
    <3> QED
      BY <1>1, <2>1, <2>3, <3>2, <3>3, <3>4, SweepsKeepLive DEF Steps, SweepSteps, PingSteps
  <2>4. ASSUME NEW i \in Lanes
        PROVE  /\ ~SweepBegins(i) /\ ~Dies(i) /\ \A q \in Queries : ~SweepLoadFails(i, q)
               /\ \A t \in Things : ~PingBegins(i, t)
               /\ \A who \in People : ~AckBegins(i, who)
    <3>1. ~\E r : Goes(i, r)
      BY <1>1, <2>1, GoesLive
    <3>2. \A r, keys : ~Begins(i, r, keys)
      BY <3>1 DEF Begins
    <3> QED
      BY <3>1, <3>2 DEF SweepBegins, PingBegins, AckBegins, Dies, Answers, SweepLoadFails
  <2>5. \A t \in Things : \A r \in RowsOf[t] : ~Changes(t, r)
    BY <2>2 DEF Changes
  <2>6. AlertsNext
    BY <1>1, <2>2 DEF alertsVars
  <2>7. PICK i \in Lanes : SweepResolves(i)
    BY <2>3, <2>4, <2>5, <2>6 DEF AlertsNext
  <2> QED
    BY <1>1, <2>7, ResolvesOff
<1>2. AlertsInv /\ [AlertsNext]_alertsVars =>
        [\A i \in Lanes, n \in DOMAIN alerts :
           Resolves(i, n) => DedupeKey(alerts[n]) \in req[i].off]_alertsVars
  BY <1>1
<1> QED
  BY <1>2, AlertsHold, PTL DEF AlertsSpec, ResolvedWhenCleared
=============================================================================
