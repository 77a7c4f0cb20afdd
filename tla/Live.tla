-------------------------------- MODULE Live --------------------------------
(***************************************************************************)
(* How the Worker serves the screens between the writes: answers kept for  *)
(* polls (lib/microcache.js, index.js), and the kitchen's live channel     *)
(* (handlers/sse.js), under the mode that the read meter sets (Quota).     *)
(*                                                                         *)
(* All three live in the memory of an isolate, and go with it.  A handler  *)
(* awaits its statements: writes, other polls and other ticks come         *)
(* between its reading and its keeping.  The polled lists are a version:   *)
(* how many writes they show.  The kitchen's board is the active orders    *)
(* with their updated_at, in milliseconds that a write may share with the  *)
(* one before, and whether they are paid.  A screen's interval does not    *)
(* wait for the tick before: several ticks of one screen are under way.    *)
(***************************************************************************)
EXTENDS Quota, SequencesExt

CONSTANTS
  Roles,        \* part of a key: lists answer differently by role
  Pollers,      \* polls under way at once
  MAX_ENTRIES,  \* answers an isolate keeps
  Orders,       \* orders the board may hold
  Screens,      \* kitchen screens
  MaxTicks,     \* bound: ticks of one screen under way at once
  FirstBoards   \* what the board may hold at first: a set of sets of orders

ASSUME LiveAssumption == MAX_ENTRIES \in Nat \ {0} /\ FirstBoards \subseteq SUBSET Orders

None == [at |-> "none"]

VARIABLES
  version,  \* writes committed to the polled lists
  cache,    \* cache[i]: the kept answers, oldest first: [key, body, fresh, late]
  writes,   \* writes[i]: writes that isolate i committed and has yet to answer
  acked,    \* history: acked[i], the latest write that isolate i answered
  poll,     \* poll[p]: the poll p has under way, or its answer, or None
  board,    \* the active orders, each with its updated_at
  came,     \* the orders there have been: an order that left comes no more
  clock,    \* the latest millisecond a write was stamped with
  probes,   \* history: what MAX(updated_at) has been
  hidden,   \* history: the last change of the board left it at one of these
  channel,  \* channel[i]: what isolate i shares with the screens, or None
  screen,   \* screen[s]: the connection of s, or None
  tick      \* tick[k]: the tick under way in slot k, or None

pollVars   == <<version, cache, writes, acked, poll>>
boardVars  == <<board, came, clock, probes, hidden>>
screenVars == <<boardVars, channel, screen, tick>>
vars       == <<quotaVars, left, pollVars, screenVars>>

-----------------------------------------------------------------------------
(* The kept answers.  A hit makes its entry fresh again; here that changes *)
(* nothing, for an entry is fresh until its time passes without a hit.     *)

\* Where a key is kept: the answers are a Map, a key is there once.
Places(entries, key) == {j \in DOMAIN entries : entries[j].key = key}

Kept(i, key) == {cache[i][j] : j \in Places(cache[i], key)}

Without(entries, key) ==
  IF Places(entries, key) = {} THEN entries
  ELSE RemoveAt(entries, CHOOSE j \in Places(entries, key) : TRUE)

\* Drop what was kept for the writer's own role.
FlushOwn(entries, role) == Without(entries, role)

MicroCacheFlush(entries, role) == <<>>

\* A full cache drops its oldest entry, whether or not the key is new; a key that is
\* there keeps its place.
MicroCachePut(entries, e) ==
  LET room == IF Len(entries) >= MAX_ENTRIES THEN Tail(entries) ELSE entries
  IN IF Places(room, e.key) = {} THEN Append(room, e)
     ELSE [j \in DOMAIN room |-> IF room[j].key = e.key THEN e ELSE room[j]]

\* A GET of a kept path: the answer is there and fresh, or the list is read.
PollArrives(p, i, role) ==
  /\ Spend("polls")
  /\ poll[p].at \in {"none", "answered"}
  /\ \/ \E e \in Kept(i, role) :
          /\ e.fresh
          /\ poll' = [poll EXCEPT ![p] = [at |-> "answered", body |-> e.body,
                                          since |-> acked[i], late |-> e.late]]
          /\ cache' = cache
     \/ /\ \A e \in Kept(i, role) : ~e.fresh
        /\ cache' = [cache EXCEPT ![i] = Without(@, role)]
        /\ poll' = [poll EXCEPT ![p] = [at |-> "reading", on |-> i, role |-> role,
                                        since |-> acked[i]]]
  /\ UNCHANGED <<quotaVars, version, writes, acked, screenVars>>

PollReads(p) ==
  /\ poll[p].at = "reading"
  /\ poll' = [poll EXCEPT ![p] = [at |-> "read", on |-> @.on, role |-> @.role, since |-> @.since,
                                  body |-> version, late |-> FALSE]]
  /\ UNCHANGED <<quotaVars, left, version, cache, writes, acked, screenVars>>

\* The answer is kept, whatever was flushed since it was read, and sent.
PollAnswers(p) ==
  LET r == poll[p] IN
  /\ r.at = "read"
  /\ cache' = [cache EXCEPT ![r.on] =
       MicroCachePut(@, [key |-> r.role, body |-> r.body, fresh |-> TRUE, late |-> r.late])]
  /\ poll' = [poll EXCEPT ![p] = [at |-> "answered", body |-> r.body, since |-> r.since,
                                  late |-> FALSE]]
  /\ UNCHANGED <<quotaVars, left, version, writes, acked, screenVars>>

\* A statement fails: the 500 is not kept.
PollFails(p) ==
  /\ Spend("dbFaults")
  /\ poll[p].at \in {"reading", "read"}
  /\ poll' = [poll EXCEPT ![p] = None]
  /\ UNCHANGED <<quotaVars, version, cache, writes, acked, screenVars>>

\* A kept answer outlives the time its mode allows it: no poll hit it that long.
EntryAges(i, j) ==
  /\ j \in DOMAIN cache[i] /\ cache[i][j].fresh
  /\ cache' = [cache EXCEPT ![i][j].fresh = FALSE]
  /\ UNCHANGED <<quotaVars, left, version, writes, acked, poll, screenVars>>

\* A write commits; its answer, when it is a success, flushes the isolate's answers.
WriteCommits(i, role) ==
  /\ Spend("writes")
  /\ version' = version + 1
  /\ writes' = [writes EXCEPT ![i] = @ \cup {[role |-> role, made |-> version']}]
  /\ UNCHANGED <<quotaVars, cache, acked, poll, screenVars>>

WriteAnswers(i) ==
  \E w \in writes[i] :
    /\ writes' = [writes EXCEPT ![i] = @ \ {w}]
    /\ acked' = [acked EXCEPT ![i] = Greater(@, w.made)]
    /\ cache' = [cache EXCEPT ![i] = MicroCacheFlush(@, w.role)]
    /\ poll' = [p \in Pollers |->
         IF poll[p].at = "read" /\ poll[p].on = i THEN [poll[p] EXCEPT !.late = TRUE] ELSE poll[p]]
    /\ UNCHANGED <<quotaVars, left, version, screenVars>>

\* The cron's minute: the mode says whether it sweeps.  A sweep writes, and flushes nothing.
CronSweeps(i) ==
  LET every == CASE Mode(i) = "critical"  -> 0
                 [] Mode(i) = "emergency" -> 2
                 [] OTHER                 -> 1
      ticks == meter[i].cronTicks + 1
  IN
  /\ Spend("crons")
  /\ meter' = [meter EXCEPT ![i].cronTicks = ticks % 2]
  /\ version' = IF every > 0 /\ ticks % every = 0 THEN version + 1 ELSE version
  /\ UNCHANGED <<today, looks, flush, pinning, kv, rowsRead, crossed,
                 cache, writes, acked, poll, screenVars>>

-----------------------------------------------------------------------------
(* The kitchen channel.                                                    *)

On(rows) == {r.order : r \in rows}

\* MAX(updated_at) over the active orders; 0 where there is none.
Probe(rows) ==
  IF rows = {} THEN 0 ELSE CHOOSE at \in {r.at : r \in rows} : \A r \in rows : r.at <= at

\* Every changed row is news.
ChangedRows(previous, rows) == On(rows \ previous)

\* Orders that the payload before did not have.
NewIds(previous, rows) == On(rows) \ On(previous)

Payload(seen, rows) ==
  [orders |-> rows, newIds |-> IF seen = None THEN {} ELSE NewIds(seen.orders, rows)]

\* The orders change; a write is stamped later than the last, or alike.
BoardChanges(rows, at) ==
  /\ Spend("changes")
  /\ clock' = at
  /\ board' = rows
  /\ hidden' = (Probe(rows) \in probes)
  /\ probes' = probes \cup {Probe(rows)}
  /\ came' = came \cup On(rows)
  /\ UNCHANGED <<quotaVars, pollVars, channel, screen, tick>>

OrderComes(o, at) ==
  o \notin came /\ BoardChanges(board \cup {[order |-> o, at |-> at, paid |-> FALSE]}, at)

OrderChanges(o, at) ==
  \E r \in board :
    /\ r.order = o
    /\ BoardChanges((board \ {r}) \cup {[r EXCEPT !.at = at]}, at)

OrderLeaves(o, at) ==
  \E r \in board : r.order = o /\ BoardChanges(board \ {r}, at)

\* What was paid on an order is reckoned anew: its updated_at stays.
OrderIsPaid(o) ==
  \E r \in board :
    /\ r.order = o
    /\ BoardChanges((board \ {r}) \cup {[r EXCEPT !.paid = ~@]}, clock)

-----------------------------------------------------------------------------
(* The ticks of the screens.                                               *)

\* Where the ticks of the screens are under way, and the slots of one screen.
TickSlots    == Screens \X (1 .. MaxTicks)
TicksOf(s)   == {k \in TickSlots : k[1] = s}

Connects(s, i) ==
  /\ Spend("connects")
  /\ screen[s] = None
  /\ screen' = [screen EXCEPT ![s] =
       [on |-> i, lastSig |-> None, told |-> {}, again |-> FALSE, back |-> FALSE]]
  /\ UNCHANGED <<quotaVars, pollVars, boardVars, channel, tick>>

\* The connection ends with its interval; a tick under way goes on, and has nobody to send to.
Leaves(s) ==
  /\ Spend("leaves")
  /\ screen[s] # None
  /\ screen' = [screen EXCEPT ![s] = None]
  /\ tick' = [k \in TickSlots |->
       IF k[1] = s /\ tick[k] # None THEN [tick[k] EXCEPT !.open = FALSE] ELSE tick[k]]
  /\ UNCHANGED <<quotaVars, pollVars, boardVars, channel>>

\* Connection c is sent the payload, unless it is the last it was sent.  History: the
\* orders it was told are new, whether it was told of one again, whether it went back.
Sent(c, shared, back) ==
  IF shared = None \/ shared.payload = c.lastSig THEN c
  ELSE [c EXCEPT !.lastSig = shared.payload,
                 !.told = @ \cup shared.payload.newIds,
                 !.again = @ \/ shared.payload.newIds \cap c.told # {},
                 !.back = @ \/ back]

\* The ticks under way.  History: their screen was sent something since they began.
Overtaken ==
  [k \in TickSlots |-> IF tick[k] # None /\ tick[k].open /\ screen'[k[1]] # screen[k[1]]
                   THEN [tick[k] EXCEPT !.overtaken = TRUE] ELSE tick[k]]

\* What tick k ends with goes to its screen.  History: the screen goes back to what a later
\* tick of its own replaced.
TickSends(k, shared) ==
  screen' = IF tick[k].open
            THEN [screen EXCEPT ![k[1]] = Sent(@, shared, tick[k].late /\ tick[k].overtaken)]
            ELSE screen

\* The interval passes, whatever ticks are under way.  With a fresh payload, or in critical
\* mode, the tick sends what there is; else it probes.
TickArrives(k) ==
  LET s == k[1]
      c == screen[s]
      shared == channel[c.on]
  IN
  /\ c # None /\ tick[k] = None
  /\ \A l \in TicksOf(s) : l[2] < k[2] => tick[l] # None
  /\ IF \E l \in TicksOf(s) : tick[l] # None /\ tick[l].open THEN Spend("overlaps")
     ELSE left' = left
  /\ IF Mode(c.on) = "critical" \/ (shared # None /\ shared.fresh)
     THEN /\ screen' = [screen EXCEPT ![s] = Sent(c, shared, FALSE)]
          /\ tick' = Overtaken
     ELSE /\ screen' = screen
          /\ tick' = [tick EXCEPT ![k] =
               [at |-> "probing", on |-> c.on, open |-> TRUE, seen |-> shared, probe |-> 0,
                rows |-> {}, late |-> FALSE, overtaken |-> FALSE]]
  /\ UNCHANGED <<quotaVars, pollVars, boardVars, channel>>

TickProbes(k) ==
  /\ tick[k].at = "probing"
  /\ tick' = [tick EXCEPT ![k].at = "probed", ![k].probe = Probe(board)]
  /\ UNCHANGED <<quotaVars, left, pollVars, boardVars, channel, screen>>

\* The probe did not move since what the tick saw was built.
Stands(t) == t.seen # None /\ t.seen.probe = t.probe

\* The payload the tick saw stands, and is fresh, if it is still the one that is shared.
TickStands(k) ==
  LET t == tick[k] IN
  /\ t.at = "probed" /\ Stands(t)
  /\ channel' = IF t.late THEN channel ELSE [channel EXCEPT ![t.on].fresh = TRUE]
  /\ TickSends(k, t.seen)
  /\ tick' = [Overtaken EXCEPT ![k] = None]
  /\ UNCHANGED <<quotaVars, left, pollVars, boardVars>>

TickReads(k) ==
  /\ tick[k].at = "probed" /\ ~Stands(tick[k])
  /\ tick' = [tick EXCEPT ![k].at = "sharing", ![k].rows = board]
  /\ UNCHANGED <<quotaVars, left, pollVars, boardVars, channel, screen>>

\* The board is probed once more when it is shared.
ProbedLast(t) == Probe(board)

\* The probe that was made before the board was read.
ProbedFirst(t) == t.probe

\* Share what was built.  History: the ticks under way are late, for what they saw was
\* replaced; what a late tick shares may be older than what it replaces.
TickShares(k) ==
  LET t == tick[k]
      before == IF t.seen = None THEN None ELSE t.seen.payload
      shared == [payload |-> Payload(before, t.rows), probe |-> ProbedFirst(t), fresh |-> TRUE,
                 torn |-> t.late \/ (channel[t.on] # None /\ channel[t.on].torn)]
  IN
  /\ t.at = "sharing"
  /\ channel' = [channel EXCEPT ![t.on] = shared]
  /\ TickSends(k, shared)
  /\ tick' = [x \in TickSlots |->
       IF x = k THEN None
       ELSE IF tick[x] # None /\ tick[x].on = t.on THEN [Overtaken[x] EXCEPT !.late = TRUE]
       ELSE tick[x]]
  /\ UNCHANGED <<quotaVars, left, pollVars, boardVars>>

\* A failing query leaves the payload that the tick saw, and sends it.
TickFails(k) ==
  /\ Spend("dbFaults")
  /\ tick[k] # None
  /\ TickSends(k, tick[k].seen)
  /\ tick' = [Overtaken EXCEPT ![k] = None]
  /\ UNCHANGED <<quotaVars, pollVars, boardVars, channel>>

\* The window that the mode allows a payload passes.
PayloadAges(i) ==
  /\ channel[i] # None /\ channel[i].fresh
  /\ channel' = [channel EXCEPT ![i].fresh = FALSE]
  /\ UNCHANGED <<quotaVars, left, pollVars, boardVars, screen, tick>>

\* An isolate goes, with its answers, its channel, its connections and their ticks.
Evict(i) ==
  /\ Spend("evictions")
  /\ Evicted(i)
  /\ cache' = [cache EXCEPT ![i] = <<>>]
  /\ writes' = [writes EXCEPT ![i] = {}]
  /\ poll' = [p \in Pollers |-> IF poll[p].at \in {"reading", "read"} /\ poll[p].on = i
                                THEN None ELSE poll[p]]
  /\ channel' = [channel EXCEPT ![i] = None]
  /\ screen' = [s \in Screens |-> IF screen[s] # None /\ screen[s].on = i THEN None ELSE screen[s]]
  /\ tick' = [k \in TickSlots |-> IF tick[k] # None /\ tick[k].on = i THEN None ELSE tick[k]]
  /\ UNCHANGED <<version, acked, boardVars>>

-----------------------------------------------------------------------------
Init ==
  /\ QuotaInit
  /\ version = 0
  /\ cache = [i \in Isolates |-> <<>>]
  /\ writes = [i \in Isolates |-> {}]
  /\ acked = [i \in Isolates |-> 0]
  /\ poll = [p \in Pollers |-> None]
  /\ came \in FirstBoards
  /\ board = {[order |-> o, at |-> 1, paid |-> FALSE] : o \in came}
  /\ clock = 1
  /\ probes = {Probe(board)}
  /\ hidden = FALSE
  /\ channel = [i \in Isolates |-> None]
  /\ screen = [s \in Screens |-> None]
  /\ tick = [k \in TickSlots |-> None]

TickGoesOn(k) == TickProbes(k) \/ TickStands(k) \/ TickReads(k) \/ TickShares(k)

Next ==
  \/ QuotaNext /\ UNCHANGED <<pollVars, screenVars>>
  \/ \E p \in Pollers : \/ \E i \in Serving, role \in Roles : PollArrives(p, i, role)
                        \/ PollReads(p) \/ PollAnswers(p) \/ PollFails(p)
  \/ \E i \in Serving : \/ \E j \in 1 .. MAX_ENTRIES : EntryAges(i, j)
                         \/ \E role \in Roles : WriteCommits(i, role)
                         \/ WriteAnswers(i) \/ CronSweeps(i) \/ PayloadAges(i) \/ Evict(i)
  \/ \E o \in Orders : \/ \E at \in {clock, clock + 1} :
                            OrderComes(o, at) \/ OrderChanges(o, at) \/ OrderLeaves(o, at)
                       \/ OrderIsPaid(o)
  \/ \E s \in Screens : Leaves(s) \/ \E i \in Serving : Connects(s, i)
  \/ \E k \in TickSlots : TickArrives(k) \/ TickGoesOn(k) \/ TickFails(k)

Spec == Init /\ [][Next]_vars

\* A screen's interval ticks and D1 answers; time passes.
FairSpec ==
  /\ Spec
  /\ \A s \in Screens : WF_vars(\E k \in TicksOf(s) : TickArrives(k))
  /\ \A k \in TickSlots : WF_vars(TickGoesOn(k))
  /\ \A i \in Isolates : WF_vars(PayloadAges(i))

-----------------------------------------------------------------------------
\* Who polls an isolate after it answered a write sees the write, as does every role
\* (microcache.js:20-22, index.js:387-392), and not what another poll had read before the
\* write and kept after its flush (396-400: late).
ReadsFollowWrites ==
  \A p \in Pollers : poll[p].at = "answered" => poll[p].body >= poll[p].since \/ poll[p].late

\* A screen is told once that an order is new, on one connection, whatever its own and
\* other screens' ticks do (sse.js:136-149): unless two ticks built at once and the earlier
\* board was shared last (torn), or a tick of the screen's own that a later one overtook
\* (the interval does not wait, 309) ended after it and sent what it had seen (back).
NewOnce ==
  \A s \in Screens :
    screen[s] # None /\ screen[s].again =>
      screen[s].back \/ (channel[screen[s].on] # None /\ channel[screen[s].on].torn)

\* A screen that stays comes to show the board as it is (sse.js:198-204): unless the
\* isolate is in critical mode, or the last change left MAX(updated_at) at a value that a
\* probe may have seen before: an order other than the latest left, the latest came and
\* left, two writes shared a millisecond, or the write stamped no updated_at, as those of a
\* payment's standing (payments.js:101) and of a cleared table do not (hidden; sse.js:37-40
\* says the aggregate catches all).
BoardFollows ==
  \A s \in Screens :
    <>[](screen[s] # None /\ Mode(screen[s].on) # "critical" /\ ~hidden
           => screen[s].lastSig # None /\ screen[s].lastSig.orders = board)
=============================================================================
