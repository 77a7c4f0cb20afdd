-------------------------------- MODULE Sync --------------------------------
(***************************************************************************)
(* The journal and the sync protocol between the box in the cafe ("local") *)
(* and the Worker ("cloud").                                               *)
(*                                                                         *)
(* Each site applies its own writes and journals them: in the same         *)
(* transaction for d1Batch, one statement later for d1Run (lib/db.js,      *)
(* lib/outbox.js).  The box's daemon (local/sync.js) pushes its journal,   *)
(* pulls the cloud's, and prunes its own.  The Worker serves /push         *)
(* (handlers/sync.js): one request is a process of its own, which reads the*)
(* cursor, applies entry after entry, and writes the cursor at the very    *)
(* end, so a request the box gave up on may still be running.              *)
(***************************************************************************)
EXTENDS Naturals, Sequences, FiniteSets, Ownership

CONSTANTS
  Rows,          \* the rows of the two databases
  Entity,        \* the table each row belongs to
  Seeded,        \* the rows present on both sides before syncing begins
  Vals,          \* the contents a statement may write
  Kinds,         \* the kinds of statement the handlers issue
  ReplayFaults,  \* {FALSE}, or BOOLEAN when a replayed statement may throw
  BATCH,         \* entries per request: 500 in both files
  MAX_ROUNDS,    \* requests per direction in one cycle: 20
  Slots,         \* the /push requests the Worker may be serving at once
  MaxWrites,     \* bound: writes of each site
  MaxInFlight,   \* bound: writes per site awaiting their journal entry
  MaxFaults      \* bound: how often each fault strikes

Sites == {"local", "cloud"}
Other(s) == IF s = "local" THEN "cloud" ELSE "local"

\* timeout: the box gives up on a request; kill: the Worker dies in a request;
\* crash: the box restarts; reimage: the box comes back with a blank disk;
\* capture: the journal entry of a write that happened is never written.
FaultKinds == {"timeout", "kill", "crash", "reimage", "capture"}

ASSUME RowsAssumption   == Entity \in [Rows -> STRING] /\ Seeded \subseteq Rows
ASSUME ValsAssumption   == Vals \subseteq Nat
ASSUME KindsAssumption  == Kinds \subseteq AllKinds /\ ReplayFaults \subseteq BOOLEAN
ASSUME BoundsAssumption ==
  /\ BATCH \in Nat \ {0} /\ MAX_ROUNDS \in Nat \ {0}
  /\ MaxWrites \in [Sites -> Nat] /\ MaxInFlight \in Nat
  /\ MaxFaults \in [FaultKinds -> Nat]

VARIABLES
  db,        \* db[s][r]: the content of row r at site s
  pending,   \* pending[s]: writes done by d1Run, not yet journalled
  journal,   \* journal[s]: sync_outbox; the seq of an entry is its index
  pruned,    \* the box's entries up to this seq have been deleted
  recon,     \* recon[s]: the open entries of sync_reconciliation
  epoch,     \* the identity of the box's journal (sync_identity)
  outCur,    \* the box's cursor ('cloud', 'out')
  inCur,     \* the box's cursor ('cloud', 'in')
  cloudIn,   \* the Worker's cursor ('local', 'in'), with its epoch
  daemon,    \* the cycle of the box's sync engine
  push,      \* push[i]: the /push request being served in slot i
  faults,    \* how often each fault has struck
  writes,    \* history: how many writes each site has made
  born,      \* history: the rows ever inserted
  applied,   \* history: applied[s] is every entry s went through, in order
  unsynced   \* history: the rows with a write that was never journalled

box    == <<pruned, epoch, outCur, inCur, daemon>>
hist   == <<writes, born>>
vars   == <<db, pending, journal, recon, box, cloudIn, push, faults, hist,
            applied, unsynced>>

Entry == [uid : Nat, row : Rows, kind : Kinds, val : Vals]

Idle == [pc |-> "idle", round |-> 0, base |-> 0, fetched |-> <<>>, pos |-> 0]
FreeSlot == [st |-> "free", awaited |-> FALSE, epoch |-> 0, base |-> 0,
             batch |-> <<>>, pos |-> 0, last |-> 0]

SlotStates == {"free", "arrived", "applying", "done"}
DaemonPcs  == {"idle", "pushing", "awaiting", "pulling", "applying", "pruning"}

\* The daemon's cycle, and one /push request: base is the seq before its first
\* entry, pos how many were gone through, last the handler's lastSeq.
Cycle   == [pc : DaemonPcs, round : Nat, base : Nat, fetched : Seq(Entry), pos : Nat]
Request == [st : SlotStates, awaited : BOOLEAN, epoch : Nat, base : Nat,
            batch : Seq(Entry), pos : Nat, last : Nat]

TypeOK ==
  /\ db \in [Sites -> [Rows -> Contents]]
  /\ pending \in [Sites -> SUBSET Entry]
  /\ journal \in [Sites -> Seq(Entry)]
  /\ recon \in [Sites -> SUBSET Entry]
  /\ pruned \in Nat /\ epoch \in Nat \ {0} /\ outCur \in Nat /\ inCur \in Nat
  /\ cloudIn \in [last : Nat, epoch : Nat]
  /\ daemon \in Cycle
  /\ push \in [Slots -> Request]
  /\ faults \in [FaultKinds -> Nat]
  /\ writes \in [Sites -> Nat]
  /\ born \subseteq Rows
  /\ applied \in [Sites -> Seq(Nat)]
  /\ unsynced \subseteq Rows

Init ==
  /\ db = [s \in Sites |-> [r \in Rows |-> IF r \in Seeded THEN 0 ELSE Absent]]
  /\ pending = [s \in Sites |-> {}]
  /\ journal = [s \in Sites |-> <<>>]
  /\ recon = [s \in Sites |-> {}]
  /\ pruned = 0 /\ epoch = 1 /\ outCur = 0 /\ inCur = 0
  /\ cloudIn = [last |-> 0, epoch |-> 0]
  /\ daemon = Idle
  /\ push = [i \in Slots |-> FreeSlot]
  /\ faults = [f \in FaultKinds |-> 0]
  /\ writes = [s \in Sites |-> 0]
  /\ born = Seeded
  /\ applied = [s \in Sites |-> <<>>]
  /\ unsynced = {}

Strike(f) == /\ faults[f] < MaxFaults[f]
             /\ faults' = [faults EXCEPT ![f] = @ + 1]

-----------------------------------------------------------------------------
(***************************************************************************)
(* Writes of the handlers.  An id is random, so an insert names a row that *)
(* was never there; a conditional update that matches nothing is journalled*)
(* all the same, since capture does not look at the number of changes.     *)
(***************************************************************************)
Execute(s, e) ==
  /\ writes[s] < MaxWrites[s]
  /\ e.uid = writes[s] + 1
  /\ (e.kind = "insert") <=> (e.row \notin born)
  /\ db' = [db EXCEPT ![s][e.row] = Effect(e.kind, e.val, @)]
  /\ writes' = [writes EXCEPT ![s] = @ + 1]
  /\ born' = born \cup {e.row}

\* The statement a handler of site s issues next.
NewEntry(s, r, k, v) == [uid |-> writes[s] + 1, row |-> r, kind |-> k, val |-> v]

\* d1Run: the write, and only afterwards outboxCapture.
Run(s, r, k, v) ==
  LET e == NewEntry(s, r, k, v)
  IN /\ Cardinality(pending[s]) < MaxInFlight
     /\ Execute(s, e)
     /\ pending' = [pending EXCEPT ![s] = @ \cup {e}]
     /\ UNCHANGED <<journal, recon, box, cloudIn, push, faults, applied, unsynced>>

Capture(s, e) ==
  /\ e \in pending[s]
  /\ pending' = [pending EXCEPT ![s] = @ \ {e}]
  /\ journal' = [journal EXCEPT ![s] = Append(@, e)]
  /\ UNCHANGED <<db, recon, box, cloudIn, push, faults, hist, applied, unsynced>>

\* The outbox insert fails and is swallowed, or the process ends before it.
CaptureFails(s, e) ==
  /\ e \in pending[s]
  /\ Strike("capture")
  /\ pending' = [pending EXCEPT ![s] = @ \ {e}]
  /\ unsynced' = unsynced \cup {e.row}
  /\ UNCHANGED <<db, journal, recon, box, cloudIn, push, hist, applied>>

\* d1Batch: the write and its journal entry commit together.
Batch(s, r, k, v) ==
  LET e == NewEntry(s, r, k, v)
  IN /\ Execute(s, e)
     /\ journal' = [journal EXCEPT ![s] = Append(@, e)]
     /\ UNCHANGED <<pending, recon, box, cloudIn, push, faults, applied, unsynced>>

-----------------------------------------------------------------------------
(***************************************************************************)
(* applyEntry: refuse by ownership, or replay.  A replayed insert of a row *)
(* that is there already is a duplicate; an update that matched no row and *)
(* a statement that throws go to the reconciliation list.                  *)
(***************************************************************************)
Apply(s, e) ==
  LET cur     == db[s][e.row]
      refused == Decide(Entity[e.row], OpOf(e.kind), s) = "conflict"
      missed  == OpOf(e.kind) = "update" /\ ~Matches(e.kind, e.val, cur)
  IN /\ applied' = [applied EXCEPT ![s] = Append(@, e.uid)]
     /\ \E throws \in ReplayFaults :
          IF refused \/ missed \/ throws
          THEN /\ recon' = [recon EXCEPT ![s] = @ \cup {e}]
               /\ UNCHANGED db
          ELSE /\ db' = [db EXCEPT ![s][e.row] = Effect(e.kind, e.val, cur)]
               /\ UNCHANGED recon

-----------------------------------------------------------------------------
(* The Worker: POST /api/sync/push in slot i (handlePush).                  *)

\* Mutants: an epoch that is not compared; a cursor that is not read.
StartFromCursor(i) == cloudIn.last
StartFromZero(i)   == 0

\* The cursor, unless the box comes with another journal than last time.
StartFrom(i) ==
  IF cloudIn.epoch # 0 /\ cloudIn.epoch # push[i].epoch THEN 0 ELSE cloudIn.last

HandlerStarts(i) ==
  /\ push[i].st = "arrived"
  /\ push' = [push EXCEPT ![i].st = "applying", ![i].last = StartFrom(i)]
  /\ UNCHANGED <<db, pending, journal, recon, box, cloudIn, faults, hist, applied,
                 unsynced>>

\* The seq of the entry the handler is at.
AtSeq(i) == push[i].base + push[i].pos + 1

Fresh(i) == AtSeq(i) > push[i].last

HandlerSkips(i) ==
  /\ push[i].st = "applying"
  /\ push[i].pos < Len(push[i].batch)
  /\ ~Fresh(i)
  /\ push' = [push EXCEPT ![i].pos = @ + 1]
  /\ UNCHANGED <<db, pending, journal, recon, box, cloudIn, faults, hist, applied,
                 unsynced>>

HandlerApplies(i) ==
  /\ push[i].st = "applying"
  /\ push[i].pos < Len(push[i].batch)
  /\ Fresh(i)
  /\ Apply("cloud", push[i].batch[push[i].pos + 1])
  /\ push' = [push EXCEPT ![i].pos = @ + 1, ![i].last = AtSeq(i)]
  /\ UNCHANGED <<pending, journal, box, cloudIn, faults, hist, unsynced>>

\* What setCursor stores: the handler's lastSeq.
LastSeq(i) == push[i].last

\* setCursor and the answer, which nobody reads if the box has given up.
HandlerFinishes(i) ==
  /\ push[i].st = "applying"
  /\ push[i].pos = Len(push[i].batch)
  /\ cloudIn' = [last |-> LastSeq(i), epoch |-> push[i].epoch]
  /\ push' = [push EXCEPT ![i] = IF @.awaited THEN [@ EXCEPT !.st = "done"]
                                              ELSE FreeSlot]
  /\ UNCHANGED <<db, pending, journal, recon, box, faults, hist, applied, unsynced>>

\* The Worker is evicted, or a statement outside applyEntry throws: the entries
\* applied so far stay applied, the cursor does not move, the box gets an error.
HandlerDies(i) ==
  /\ push[i].st \in {"arrived", "applying"}
  /\ Strike("kill")
  /\ push' = [push EXCEPT ![i] = FreeSlot]
  /\ daemon' = IF push[i].awaited THEN Idle ELSE daemon
  /\ UNCHANGED <<db, pending, journal, recon, pruned, epoch, outCur, inCur, cloudIn,
                 hist, applied, unsynced>>

-----------------------------------------------------------------------------
(* The box: one cycle of runOnce.                                           *)

\* The status request got through; the heartbeat itself is left out here.
Beat ==
  /\ daemon.pc = "idle"
  /\ daemon' = [Idle EXCEPT !.pc = "pushing"]
  /\ UNCHANGED <<db, pending, journal, recon, pruned, epoch, outCur, inCur, cloudIn,
                 push, faults, hist, applied, unsynced>>

\* SELECT ... WHERE seq > since ORDER BY seq LIMIT n
Smaller(a, b) == IF a < b THEN a ELSE b
Larger(a, b)  == IF a > b THEN a ELSE b

After(log, since) == SubSeq(log, since + 1, Smaller(since + BATCH, Len(log)))

\* A batch is snapshotted and a request sent, unless all is acknowledged.
PushSends(i) ==
  LET since == Larger(outCur, pruned)
  IN /\ daemon.pc = "pushing"
     /\ since < Len(journal["local"])
     /\ push[i].st = "free"
     /\ push' = [push EXCEPT ![i] =
                   [FreeSlot EXCEPT !.st = "arrived", !.awaited = TRUE,
                                    !.epoch = epoch, !.base = since,
                                    !.batch = After(journal["local"], since)]]
     /\ daemon' = [daemon EXCEPT !.pc = "awaiting"]
     /\ UNCHANGED <<db, pending, journal, recon, pruned, epoch, outCur, inCur, cloudIn,
                    faults, hist, applied, unsynced>>

PushHasNothing ==
  /\ daemon.pc = "pushing"
  /\ Larger(outCur, pruned) >= Len(journal["local"])
  /\ daemon' = [Idle EXCEPT !.pc = "pulling"]
  /\ UNCHANGED <<db, pending, journal, recon, pruned, epoch, outCur, inCur, cloudIn,
                 push, faults, hist, applied, unsynced>>

\* Mutant: only a full batch moves the cursor.
FullBatch(i) == Len(push[i].batch) = BATCH

Progress(i) == push[i].last > outCur

\* The answer arrives: take the cloud's word for how far it has got.
PushAcked(i) ==
  LET more == Progress(i) /\ Len(push[i].batch) = BATCH
                          /\ daemon.round + 1 < MAX_ROUNDS
  IN /\ daemon.pc = "awaiting"
     /\ push[i].st = "done" /\ push[i].awaited
     /\ outCur' = IF Progress(i) THEN push[i].last ELSE outCur
     /\ daemon' = IF more THEN [daemon EXCEPT !.pc = "pushing", !.round = @ + 1]
                          ELSE [Idle EXCEPT !.pc = "pulling"]
     /\ push' = [push EXCEPT ![i] = FreeSlot]
     /\ UNCHANGED <<db, pending, journal, recon, pruned, epoch, inCur, cloudIn,
                    faults, hist, applied, unsynced>>

\* What becomes of the requests when the box stops listening.
Abandoned == [i \in Slots |-> CASE push[i].st = "done" -> FreeSlot
                                [] push[i].st = "free" -> FreeSlot
                                [] OTHER -> [push[i] EXCEPT !.awaited = FALSE]]

\* Ten seconds, or a broken line: the cycle ends, the request may live on.
Timeout ==
  /\ daemon.pc \in {"awaiting", "pushing", "pulling"}
  /\ Strike("timeout")
  /\ daemon' = Idle
  /\ push' = Abandoned
  /\ UNCHANGED <<db, pending, journal, recon, pruned, epoch, outCur, inCur, cloudIn,
                 hist, applied, unsynced>>

\* GET /api/sync/pull (handlePull) and its answer.
PullFetches ==
  /\ daemon.pc = "pulling"
  /\ inCur < Len(journal["cloud"])
  /\ daemon' = [daemon EXCEPT !.pc = "applying", !.base = inCur, !.pos = 0,
                              !.fetched = After(journal["cloud"], inCur)]
  /\ UNCHANGED <<db, pending, journal, recon, pruned, epoch, outCur, inCur, cloudIn,
                 push, faults, hist, applied, unsynced>>

PullHasNothing ==
  /\ daemon.pc = "pulling"
  /\ inCur >= Len(journal["cloud"])
  /\ daemon' = [Idle EXCEPT !.pc = "pruning"]
  /\ UNCHANGED <<db, pending, journal, recon, pruned, epoch, outCur, inCur, cloudIn,
                 push, faults, hist, applied, unsynced>>

PullApplies ==
  /\ daemon.pc = "applying"
  /\ daemon.pos < Len(daemon.fetched)
  /\ Apply("local", daemon.fetched[daemon.pos + 1])
  /\ daemon' = [daemon EXCEPT !.pos = @ + 1]
  /\ UNCHANGED <<pending, journal, pruned, epoch, outCur, inCur, cloudIn, push, faults,
                 hist, unsynced>>

\* setCursor 'in'; come straight back while a full batch came.
PullAdvances ==
  LET more == Len(daemon.fetched) = BATCH /\ daemon.round + 1 < MAX_ROUNDS
  IN /\ daemon.pc = "applying"
     /\ daemon.pos = Len(daemon.fetched)
     /\ inCur' = daemon.base + daemon.pos
     /\ daemon' = IF more THEN [Idle EXCEPT !.pc = "pulling", !.round = daemon.round + 1]
                          ELSE [Idle EXCEPT !.pc = "pruning"]
     /\ UNCHANGED <<db, pending, journal, recon, pruned, epoch, outCur, cloudIn, push,
                    faults, hist, applied, unsynced>>

\* Mutants: keep the last acknowledged entry, if there is one or not; prune by
\* age alone.
KeepOne == {outCur - 1}
ByAge   == pruned .. Len(journal["local"])

\* Acknowledged entries older than a week: some prefix of them.
Prunable == pruned .. Larger(pruned, outCur)

Prune ==
  /\ daemon.pc = "pruning"
  /\ \E n \in Prunable : pruned' = n
  /\ daemon' = Idle
  /\ UNCHANGED <<db, pending, journal, recon, epoch, outCur, inCur, cloudIn, push,
                 faults, hist, applied, unsynced>>

-----------------------------------------------------------------------------
(* The box fails.                                                           *)

Crash ==
  /\ Strike("crash")
  /\ daemon' = Idle
  /\ push' = Abandoned
  /\ pending' = [pending EXCEPT !["local"] = {}]
  /\ unsynced' = unsynced \cup {e.row : e \in pending["local"]}
  /\ UNCHANGED <<db, journal, recon, pruned, epoch, outCur, inCur, cloudIn, hist,
                 applied>>

\* A blank database: new journal, new identity (journalEpoch), no cursors.
Reimage ==
  /\ Strike("reimage")
  /\ db' = [db EXCEPT !["local"] = [r \in Rows |-> Absent]]
  /\ pending' = [pending EXCEPT !["local"] = {}]
  /\ journal' = [journal EXCEPT !["local"] = <<>>]
  /\ recon' = [recon EXCEPT !["local"] = {}]
  /\ applied' = [applied EXCEPT !["local"] = <<>>]
  /\ pruned' = 0 /\ outCur' = 0 /\ inCur' = 0
  /\ epoch' = epoch + 1
  /\ daemon' = Idle
  /\ push' = Abandoned
  /\ unsynced' = Rows
  /\ UNCHANGED <<cloudIn, hist>>

-----------------------------------------------------------------------------
Write == \E s \in Sites, r \in Rows, k \in Kinds, v \in Vals :
           Run(s, r, k, v) \/ Batch(s, r, k, v)

Journals == \E s \in Sites : \E e \in pending[s] : Capture(s, e)

Loses == \E s \in Sites : \E e \in pending[s] : CaptureFails(s, e)

Handler(i) == \/ HandlerStarts(i) \/ HandlerSkips(i) \/ HandlerApplies(i)
              \/ HandlerFinishes(i)

Pushes == PushHasNothing \/ \E i \in Slots : PushSends(i) \/ PushAcked(i)

Pulls == PullFetches \/ PullHasNothing \/ PullApplies \/ PullAdvances

Daemon == Beat \/ Pushes \/ Pulls \/ Prune

Fails == Loses \/ Timeout \/ Crash \/ Reimage \/ \E i \in Slots : HandlerDies(i)

Next == \/ Write \/ Journals \/ Fails \/ Daemon
        \/ \E i \in Slots : Handler(i)

\* The daemon runs on a timer, a started handler and a capture go on by
\* themselves; writes and faults may or may not happen.
Fairness == /\ WF_vars(Daemon)
            /\ WF_vars(Journals)
            /\ \A i \in Slots : WF_vars(Handler(i))

Spec == Init /\ [][Next]_vars

FairSpec == Spec /\ Fairness

-----------------------------------------------------------------------------
(***************************************************************************)
(* Properties.                                                             *)
(***************************************************************************)

\* The entries site s went through, by uid.
Handled(s) == {applied[s][n] : n \in 1 .. Len(applied[s])}

\* Nothing is lost: an entry the box counts as acknowledged was gone through
\* by the cloud, and one it counts as collected was gone through here. This is
\* what a cursor stands for (handlePush, push, pull), whatever requests time
\* out, die half-way or overlap.
NothingLost ==
  /\ \A n \in 1 .. outCur : /\ n <= Len(journal["local"])
                            /\ journal["local"][n].uid \in Handled("cloud")
  /\ \A n \in 1 .. inCur : /\ n <= Len(journal["cloud"])
                           /\ journal["cloud"][n].uid \in Handled("local")

\* The journal may forget an entry (prune) only when the cloud has taken it.
PrunedWasTaken ==
  \A n \in 1 .. pruned : /\ n <= Len(journal["local"])
                         /\ journal["local"][n].uid \in Handled("cloud")

\* Both sides have taken all there is and nobody is at work.
Drained ==
  /\ \A s \in Sites : pending[s] = {}
  /\ \A i \in Slots : push[i].st = "free"
  /\ daemon.pc = "idle"
  /\ outCur = Len(journal["local"]) /\ inCur = Len(journal["cloud"])

Recorded(r) == \E s \in Sites : \E e \in recon[s] : e.row = r

\* Once drained, a row the two sides disagree on is on somebody's
\* reconciliation list: "never silently drop" (ownership.js, applyEntry). Left
\* out are rows with a write that was never journalled (outboxCapture fails
\* open) and rows of creator-owned tables.
NoSilentDivergence ==
  Drained => \A r \in Rows :
    \/ OwnerOf(Entity[r]) = "creator"
    \/ r \in unsynced
    \/ db["local"][r] = db["cloud"][r]
    \/ Recorded(r)

\* Faults being finite, every journalled write is taken by the other side and
\* the cycle comes to rest: a broken exchange is resumed, never wedged.
EverythingTaken == <>[](/\ outCur = Len(journal["local"])
                        /\ inCur = Len(journal["cloud"]))

\* The protocol delivers each entry exactly once and in order.
DeliveryOf == INSTANCE Delivery WITH
  Items <- 1 .. Larger(MaxWrites["local"], MaxWrites["cloud"]),
  sent  <- [s \in Sites |-> [n \in 1 .. Len(journal[s]) |-> journal[s][n].uid]],
  taken <- [s \in Sites |-> applied[Other(s)]]

ExactlyOnceInOrder == DeliveryOf!Spec

=============================================================================
