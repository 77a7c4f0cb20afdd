-------------------------------- MODULE Zones --------------------------------
(***************************************************************************)
(* The floor's zones (handlers/tables.js:66-362): one settings row holds   *)
(* the ordered list, every table the name of its zone.  The list that is   *)
(* offered is the stored one, or the defaults, and every zone that only    *)
(* tables name.  An edit reads both, may move tables, and stores the list  *)
(* it made of what it read, whatever was stored meanwhile.                 *)
(*                                                                         *)
(* Names are told apart by their Key, that is without regard to capitals;  *)
(* how many tables sit in a zone is looked up by its spelling.             *)
(***************************************************************************)
EXTENDS Desk, SequencesExt, Functions

CONSTANTS
  Names,       \* names of zones, as spelled
  Key,         \* Key[n]: n in lower case
  Defaults,    \* DEFAULT_SECTIONS
  MaxSections, \* MAX_SECTIONS
  FirstPlaces  \* where the tables may be at first: a set of functions to Names

ASSUME ZonesAssumption ==
  /\ Key \in [Names -> STRING] /\ MaxSections \in Nat \ {0}
  /\ Defaults \in Seq(Names) /\ Len(Defaults) \in 1 .. MaxSections
  /\ \A f \in FirstPlaces : IsFiniteSet(DOMAIN f) /\ f \in [DOMAIN f -> Names]

NoList == <<>>

VARIABLES
  zones,   \* the stored list, NoList when there is no row: a sequence of Names
  placed,  \* placed[t]: the zone of table t
  edited   \* history: for every key, what the last edit that was about it left
           \* behind: "in" the list, "out" of it, or "open"

zoneRows == <<zones, placed, edited>>

KeyOf(list) == [k \in DOMAIN list |-> Key[list[k]]]

Offers(list, key) == \E k \in DOMAIN list : Key[list[k]] = key

\* sectionsError.
Sound(list) == Len(list) \in 1 .. MaxSections /\ IsInjective(KeyOf(list))

\* storedSections: a list that does not validate is none.
Stored == IF Sound(zones) THEN zones ELSE Defaults

\* workingSections, of the stored list as read before and the tables as they are.
Working(stored) ==
  stored \o SetToSeq({n \in Range(placed) : ~Offers(stored, Key[n])})

ZonesInit ==
  /\ zones = NoList /\ placed \in FirstPlaces
  /\ edited = [k \in Range(Key) |-> "open"]

AsksZones(i, r) == Begins(i, r) /\ UNCHANGED zoneRows

\* An edit: `todo` is the zone to rename or remove, `new` the name, the zone to move
\* to, or the list.  storedSections is read at once.
EditArrives(i, op, from, new) ==
  AsksZones(i, [FreeSlot EXCEPT !.op = op, !.pc = "usage", !.todo = {from}, !.new = new,
                                !.found = Stored])

From(i) == CHOOSE n \in req[i].todo : TRUE

-----------------------------------------------------------------------------
(* What an edit makes of the working list; NoList refuses it.              *)

Renamed(list, from, to) ==
  LET at == SelectInSeq(list, LAMBDA n : Key[n] = Key[from])
  IN IF at # 0 /\ \A k \in DOMAIN list : Key[list[k]] = Key[to] => k = at
     THEN [k \in DOMAIN list |-> IF Key[list[k]] = Key[from] THEN to ELSE list[k]]
     ELSE NoList

Added(list, name) ==
  IF ~Offers(list, Key[name]) /\ Len(list) < MaxSections THEN Append(list, name) ELSE NoList

\* The others, in their order.
Without(list, name) ==
  LET kept    == {k \in DOMAIN list : Key[list[k]] # Key[name]}
      rank(k) == Cardinality({j \in kept : j <= k})
  IN [n \in 1 .. Cardinality(kept) |-> list[CHOOSE k \in kept : rank(k) = n]]

Reordered(list, order) ==
  IF Sound(order) /\ Range(KeyOf(order)) = Range(KeyOf(list)) /\ Len(order) = Len(list)
  THEN order ELSE NoList

\* The tables in `name`, by its spelling.
InUse(name) == {t \in DOMAIN placed : placed[t] = name}

Makes(r, from, list) ==
  CASE r.op = "rename"  -> Renamed(list, from, r.new)
    [] r.op = "add"     -> Added(list, r.new)
    [] r.op = "reorder" -> Reordered(list, r.new)
    [] r.op = "remove"  -> Without(list, from)

\* Tables go with a rename, and with the removal of a zone in use.
Moves(r, from) == r.op = "rename" \/ (r.op = "remove" /\ InUse(from) # {})

Refused(r, from, list) ==
  IF r.op # "remove" THEN Makes(r, from, list) = NoList
  ELSE \/ ~Offers(list, Key[from])
       \/ InUse(from) = {} /\ ~Sound(Without(list, from))
       \/ InUse(from) # {} /\ (Key[r.new] = Key[from] \/ ~Offers(list, Key[r.new]))

\* sectionsUsage, and the decision.
ReadsUsage(i) ==
  LET r      == req[i]
      list   == Working(r.found)
      unseen == IF r.op = "remove" /\ ~Moves(r, From(i))
                THEN {t \in DOMAIN placed : Key[placed[t]] = Key[From(i)]} ELSE {}
  IN /\ At(i, "usage")
     /\ IF Refused(r, From(i), list) THEN Answers(i)
        ELSE Goes(i, [Step(i, IF Moves(r, From(i)) THEN "move" ELSE "row") EXCEPT
                        !.found = Makes(r, From(i), list), !.since = unseen])
     /\ UNCHANGED <<counts, torn, zoneRows>>

\* Mutant: tables are moved by the spelling of their zone.
MovedExactly(from, to) == [t \in DOMAIN placed |-> IF placed[t] = from THEN to ELSE placed[t]]

\* UPDATE tables SET section = to WHERE LOWER(TRIM(section)) = LOWER(from)
Moved(from, to) ==
  [t \in DOMAIN placed |-> IF Key[placed[t]] = Key[from] THEN to ELSE placed[t]]

\* History: with a table in it, a zone is offered again.
Opened(name) == [edited EXCEPT ![Key[name]] = IF @ = "out" THEN "open" ELSE @]

\* The tables move first; only then is the list of a removal checked.
MovesTables(i) ==
  /\ At(i, "move")
  /\ placed' = Moved(From(i), req[i].new)
  /\ IF req[i].op = "remove" /\ ~Sound(req[i].found) THEN Answers(i)
     ELSE Goes(i, [Step(i, "row") EXCEPT !.since = {}])
  /\ edited' = IF Moved(From(i), req[i].new) = placed THEN edited ELSE Opened(req[i].new)
  /\ UNCHANGED <<zones, counts, torn>>

\* PUT /api/settings/tables.sections: a whole list, that is checked and stored.
StoreArrives(i, list) ==
  /\ Sound(list)
  /\ AsksZones(i, [FreeSlot EXCEPT !.op = "store", !.pc = "row", !.found = list])

\* saveSections: is there a row?
ReadsRow(i) ==
  /\ At(i, "row")
  /\ Goes(i, Step(i, IF zones = NoList THEN "insert" ELSE "update"))
  /\ UNCHANGED <<counts, torn, zoneRows>>

\* History: what the edit in slot i promises of a key.  A zone cannot go while a
\* table is in it that the edit did not know of; and a list that does not validate, as
\* when a rename stores more zones than the cap, will not be read.
Promised(i, key) ==
  LET r    == req[i]
      gone == key = Key[From(i)] /\ \A t \in r.since : Key[placed[t]] # key
  IN CASE r.op \in {"rename", "add"} /\ key = Key[r.new] -> "in"
       [] /\ r.op = "remove" \/ (r.op = "rename" /\ key # Key[r.new])
          /\ key = Key[From(i)]
          -> IF gone THEN "out" ELSE "open"
       [] r.op = "store" -> IF Offers(r.found, key) THEN "in" ELSE "open"
       [] OTHER -> edited[key]

\* UPDATE settings, or INSERT, which fails when another has inserted meanwhile.
WritesList(i) ==
  /\ At(i, "update") \/ (At(i, "insert") /\ zones = NoList)
  /\ zones' = req[i].found
  /\ edited' = [k \in DOMAIN edited |-> IF Sound(zones') THEN Promised(i, k) ELSE "open"]
  /\ Answers(i)
  /\ UNCHANGED <<placed, counts, torn>>

InsertFails(i) ==
  /\ At(i, "insert") /\ zones # NoList
  /\ Answers(i)
  /\ UNCHANGED <<counts, torn, zoneRows>>

\* PUT /api/tables: a manager puts a table where a screen offers, or offered, it.
Places(t, name) ==
  /\ Changes
  /\ placed[t] # name
  /\ placed' = [placed EXCEPT ![t] = name]
  /\ edited' = Opened(name)
  /\ req' = [i \in Slots |-> IF At(i, "free") THEN req[i]
                             ELSE [req[i] EXCEPT !.since = @ \cup {t}]]
  /\ UNCHANGED zones

-----------------------------------------------------------------------------
\* The manager edits what a screen offers; where tables are to go is asked if any are.
ZonesArrive(i) ==
  LET offered == Range(Working(Stored))
  IN \/ \E from \in offered :
          \/ \E to \in Names : EditArrives(i, "rename", from, to)
          \/ \E to \in IF InUse(from) = {} THEN {from} ELSE offered \ {from} :
               EditArrives(i, "remove", from, to)
     \/ \E name \in Names : EditArrives(i, "add", name, name)
     \/ EditArrives(i, "reorder", Defaults[1], Reverse(Working(Stored)))
     \/ StoreArrives(i, Reverse(Stored)) \/ StoreArrives(i, Tail(Stored))

ZonesStep(i) == \/ ReadsUsage(i) \/ MovesTables(i) \/ ReadsRow(i)
                \/ WritesList(i) \/ InsertFails(i)

ZonesNext == counts.desk = "zones" /\
  \/ \E i \in Slots : ZonesArrive(i) \/ ZonesStep(i)
  \/ \E t \in DOMAIN placed, name \in Names : Places(t, name)

-----------------------------------------------------------------------------
(* Properties.                                                             *)

\* A zone that was added or renamed to is offered from then on, and one that was
\* renamed away or removed is not, its tables gone with it (tables.js:69-73, 147-151);
\* unless two edits were under way at once.
ZonesAsEdited ==
  House \notin torn =>
    \A key \in DOMAIN edited :
      /\ edited[key] = "in"  => Offers(Working(Stored), key)
      /\ edited[key] = "out" => ~Offers(Working(Stored), key)

===============================================================================
