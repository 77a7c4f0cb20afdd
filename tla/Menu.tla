--------------------------------- MODULE Menu ---------------------------------
(***************************************************************************)
(* The menu (handlers/menu.js) is kept twice: as one value in KV, which is *)
(* read, changed and put back whole, and as rows of D1 (menu_items), which *)
(* price and refuse what guests order.  After a write has been answered,   *)
(* its rows follow, and no error of that is told.  Dishes were once saved  *)
(* without ids: a read derives them and puts the menu back, and a repair   *)
(* adopts those of D1.                                                     *)
(*                                                                         *)
(* Prices, pictures and other languages fare as names do; categories are   *)
(* known by name and kept in one order.                                    *)
(***************************************************************************)
EXTENDS Desk, SequencesExt, Functions

CONSTANTS
  Categories,  \* the categories, in their order: a sequence
  DishNames,   \* names of dishes
  FirstMenus   \* what there may be at first: a set of [menu, mirror, aligned]

Other == "Other"
NoId  == <<>>

\* A dish: its id, category, name, whether it is off the menu for now (available is
\* false), and, as history, which dish it really is.
Dish(id, cat, name, off, tag) == [id |-> id, cat |-> cat, name |-> name, off |-> off, tag |-> tag]

\* An id is random, or derived from a category, a name and an occurrence.
Randoms == {"random"} \X Nat
IdSet   == {NoId} \cup Randoms \cup (STRING \X STRING \X Nat)

DishSet == [id : IdSet, cat : Range(Categories), name : STRING, off : BOOLEAN, tag : Nat \ {0}]

IdsOf(list) == {list[k].id : k \in DOMAIN list}

\* Two dishes of one id: a new dish put before one that bears the id derived for it.
Twins(list) == \E j, k \in DOMAIN list : j # k /\ list[j].id = list[k].id /\ list[j].id # NoId

\* The rows are those of the list: each dish by its id and, but for a name that was lost
\* in a move (Edited), its name, and none of them on when the dish is off.
LinesUp(list, rows) ==
  /\ NoId \notin IdsOf(list) /\ ~Twins(list)
  /\ IdsOf(list) = {e.id : e \in rows}
  /\ \A d \in Range(list), e \in rows : d.id = e.id => d.name \in {e.name, ""} /\ (d.off => e.off)

\* Finitely many requests are under way at once; ids are the rows' primary key, and they
\* were derived for a whole menu at once.
ASSUME MenuAssumption ==
  /\ IsFiniteSet(Slots)
  /\ Categories \in Seq(STRING) /\ IsInjective(Categories) /\ Other \in Range(Categories)
  /\ DishNames \cup {""} \subseteq STRING
  /\ \A f \in FirstMenus :
       /\ f.menu.there \in BOOLEAN /\ f.menu.list \in Seq(DishSet) /\ f.aligned \in BOOLEAN
       /\ f.mirror \subseteq DishSet /\ IsFiniteSet(f.mirror)
       /\ \A j, k \in DOMAIN f.menu.list : f.menu.list[j].tag = f.menu.list[k].tag => j = k
       /\ \A d, e \in f.mirror : d.id = e.id \/ d.tag = e.tag => d = e
       /\ \A e \in f.mirror : e.id # NoId
       /\ NoId \in IdsOf(f.menu.list) => IdsOf(f.menu.list) \subseteq {NoId} \cup Randoms
       /\ f.aligned /\ f.menu.there => LinesUp(f.menu.list, f.mirror)
       /\ ~f.menu.there => f.menu.list = <<>>

VARIABLES
  menu,      \* the value in KV: the dishes in their order, and whether there is one
  mirror,    \* menu_items: a set of dishes
  aligned,   \* history: the rows were written from a menu that gives every dish an id of
             \* its own, or the menu from the rows, and since then no menu with twins was
             \* put and no ids were repaired
  served     \* history: the ids under which dishes were served or stored, unless a repair
             \* changed ids, and then nothing any more: a set of [dish, id]

menuRows == <<menu, mirror, aligned, served>>

\* By category, and otherwise as they were.
InOrder(list) ==
  LET place(k)  == CHOOSE c \in DOMAIN Categories : Categories[c] = list[k].cat
      upTo(j,k) == place(j) < place(k) \/ (place(j) = place(k) /\ j <= k)
      rank(k)   == Cardinality({j \in DOMAIN list : upTo(j, k)})
  IN [n \in DOMAIN list |-> list[CHOOSE k \in DOMAIN list : rank(k) = n]]

\* A fresh id or tag: crypto.randomUUID.
Random(n) == <<"random", n>>

Known == mirror \cup Range(menu.list) \cup UNION {Range(req[j].new) : j \in Slots}
Served == {Dish(x.id, "", "", FALSE, x.dish) : x \in served}
Taken  == {d.tag : d \in Known \cup Served}
            \cup {d.id[2] : d \in {e \in Known \cup Served : e.id \in Randoms}}
Unused == LET taken == Taken IN CHOOSE n \in 1 .. Cardinality(taken) + 1 : n \notin taken

\* Mutant: "a random id would differ between the read that renders the menu and the read
\* that follows" (menu.js:27-29).
DerivedAnew(d, used) == Random(Unused + Cardinality(used))

\* stableItemId, with the first occurrence that is not used.
Derived(d, used) ==
  LET free(k) == <<d.cat, d.name, k>> \notin used
  IN <<d.cat, d.name, CHOOSE k \in 0 .. Cardinality(used) :
         free(k) /\ \A j \in 0 .. k - 1 : ~free(j)>>

\* ensureMenuIds: in order, a dish without an id is given one that none before it has.
Ensured(d, used) == IF d.id = NoId THEN [d EXCEPT !.id = Derived(d, used)] ELSE d

EnsureMenuIds(list) ==
  LET given[n \in 0 .. Len(list)] ==
        IF n = 0 THEN <<>>
        ELSE Append(given[n - 1], Ensured(list[n], IdsOf(given[n - 1])))
  IN given[Len(list)]

\* backfillMenuIdsFromD1: a row of the category and name, or the id it had, or a derived.
Adopted(d, used) ==
  LET rows == {e.id : e \in {r \in mirror : r.cat = d.cat /\ r.name = d.name}} \ used
  IN IF rows # {} THEN [d EXCEPT !.id = CHOOSE x \in rows : TRUE]
     ELSE IF d.id # NoId /\ d.id \notin used THEN d
     ELSE [d EXCEPT !.id = Derived(d, used)]

\* With `force` all ids are given anew, without it those that are missing.
Backfilled(list, force) ==
  LET kept == IF force THEN {} ELSE IdsOf(list) \ {NoId}
      given[n \in 0 .. Len(list)] ==
        IF n = 0 THEN <<>>
        ELSE Append(given[n - 1],
                    IF list[n].id \in kept THEN list[n]
                    ELSE Adopted(list[n], kept \cup IdsOf(given[n - 1])))
  IN given[Len(list)]

MenuInit ==
  \E f \in FirstMenus :
    /\ menu = f.menu /\ mirror = f.mirror /\ aligned = f.aligned
    /\ served = {[dish |-> 0, id |-> NoId]}

-----------------------------------------------------------------------------
(* Requests: `new` is the menu to put, `todo` what follows in D1.          *)

Ids(list) == {[dish |-> list[k].tag, id |-> list[k].id] : k \in DOMAIN list}

\* History: dishes are served.
Serves(list) == served' = IF served = {} THEN {} ELSE served \cup {x \in Ids(list) : x.id # NoId}

AsksMenu(i, op, pc, list, todo) ==
  /\ Begins(i, [FreeSlot EXCEPT !.op = op, !.pc = pc, !.new = list, !.todo = todo])
  /\ IF op \in {"read", "edit"} THEN Serves(list) ELSE UNCHANGED served
  /\ UNCHANGED <<menu, mirror, aligned>>

All == {[op |-> "all"]}

Place(id) ==
  LET at == {k \in DOMAIN menu.list : menu.list[k].id = id}
  IN {k \in at : \A j \in at : k <= j}

\* GET /api/menu and /api/menus: a menu whose ids had to be derived is put back; one
\* that is not there is read from D1 ...
ReadArrives(i) ==
  \/ /\ menu.there /\ EnsureMenuIds(menu.list) # menu.list
     /\ AsksMenu(i, "read", "put", EnsureMenuIds(menu.list), {})
  \/ ~menu.there /\ AsksMenu(i, "read", "rebuild", <<>>, {})

\* ... d1GetMenuCategorized, in whatever order.
Rebuilds(i) ==
  LET list == InOrder(SetToSeq(mirror))
  IN /\ At(i, "rebuild")
     /\ Goes(i, [Step(i, "put") EXCEPT !.new = list])
     /\ IF req[i].op = "read" THEN Serves(list) ELSE UNCHANGED served
     /\ UNCHANGED <<counts, torn, menu, mirror, aligned>>

\* An editor loads the menu, and later POSTs it whole to /api/menus/save: as it was, with
\* a dish left out, or with a new one before or after the others.
EditorArrives(i) == menu.there /\ AsksMenu(i, "edit", "edit", EnsureMenuIds(menu.list), {})

Edits(i) ==
  LET list   == req[i].new
      tag    == Unused
      new(n) == Dish(NoId, Categories[1], n, FALSE, tag)
  IN {list} \cup {RemoveAt(list, k) : k \in DOMAIN list}
     \cup {InOrder(Append(list, new(n))) : n \in DishNames}
     \cup {InOrder(<<new(n)>> \o list) : n \in DishNames}

Saves(i, payload) ==
  /\ At(i, "edit")
  /\ Goes(i, [Step(i, "put") EXCEPT !.new = EnsureMenuIds(payload), !.todo = All])
  /\ UNCHANGED <<counts, torn, menuRows>>

\* POST /api/menu: a dish is added; without a menu in KV it goes to D1, and the menu is
\* read from there.
AddArrives(i, cat, name) ==
  LET d == Dish(Random(Unused), cat, name, FALSE, Unused)
  IN IF menu.there THEN AsksMenu(i, "add", "put", InOrder(Append(menu.list, d)), All)
     ELSE AsksMenu(i, "add", "first", <<d>>, {})

\* Every INSERT of the file has the literal 0 where `available` stands (menu.js:300, 332, 479).
AsInserted(d) == [d EXCEPT !.off = TRUE]

InsertsFirst(i) ==
  /\ At(i, "first")
  /\ mirror' = mirror \cup {AsInserted(req[i].new[1])}
  /\ Goes(i, Step(i, "rebuild"))
  /\ UNCHANGED <<menu, aligned, served, counts, torn>>

\* PUT /api/menu/:id/availability.
AvailabilityArrives(i, id, off) == \E k \in Place(id) :
  LET d == menu.list[k]
  IN AsksMenu(i, "86", "put", [menu.list EXCEPT ![k].off = off],
              {[op |-> "update", id |-> id, set |-> [cat |-> d.cat, off |-> off]]})

\* PUT /api/menu, PUT /api/menu/:id: with another category the dish is made anew of what
\* was sent, without one its row goes to Other.
Edited(d, set) ==
  IF "cat" \in DOMAIN set /\ set.cat # d.cat
  THEN Dish(d.id, set.cat, IF "name" \in DOMAIN set THEN set.name ELSE "", FALSE, d.tag)
  ELSE IF "name" \in DOMAIN set THEN [d EXCEPT !.name = set.name] ELSE d

PutArrives(i, id, set) == \E k \in Place(id) :
  LET d == menu.list[k]
      e == Edited(d, set)
  IN AsksMenu(i, "put", "put",
              IF e.cat = d.cat THEN [menu.list EXCEPT ![k] = e]
                               ELSE InOrder(Append(RemoveAt(menu.list, k), e)),
              {[op |-> "update", id |-> id, set |-> set]})

\* DELETE /api/menu/:id.
DeleteArrives(i, id) == \E k \in Place(id) :
  AsksMenu(i, "delete", "put", RemoveAt(menu.list, k), {[op |-> "delete", id |-> id]})

\* POST /api/migrate/menu-ids.
RepairArrives(i, force) ==
  /\ menu.there
  /\ AsksMenu(i, "repair", "adopt", menu.list, {[op |-> "force"] : f \in {force} \cap {TRUE}})

Adopts(i) ==
  LET list == Backfilled(req[i].new, req[i].todo # {})
  IN /\ At(i, "adopt")
     /\ IF list = req[i].new THEN Answers(i)
        ELSE Goes(i, [Step(i, "put") EXCEPT !.new = list, !.todo = {}])
     /\ UNCHANGED <<counts, torn, menuRows>>

\* kvSaveMenu; the request is answered, and what follows is left to waitUntil.
Puts(i) ==
  /\ At(i, "put")
  /\ menu' = [there |-> TRUE, list |-> req[i].new]
  /\ aligned' = ((aligned \/ ~menu.there) /\ req[i].op # "repair" /\ ~Twins(req[i].new))
  /\ IF req[i].op = "repair" THEN served' = {} ELSE Serves(req[i].new)
  /\ IF req[i].todo = {} THEN Answers(i) ELSE Goes(i, Step(i, "follow"))
  /\ UNCHANGED <<mirror, counts, torn>>

-----------------------------------------------------------------------------
(* The rows follow: syncItemToD1 and syncMenuToD1.                         *)

Row(id) == {d \in mirror : d.id = id}

Follow(i) == CHOOSE f \in req[i].todo : TRUE

\* One dish: the row of its id, if there is one, gets what was sent, and a category.
Follows(i) ==
  LET f   == Follow(i)
      row == {[d EXCEPT !.cat = IF "cat" \in DOMAIN f.set THEN f.set.cat ELSE Other,
                        !.name = IF "name" \in DOMAIN f.set THEN f.set.name ELSE @,
                        !.off = IF "off" \in DOMAIN f.set THEN f.set.off ELSE @] : d \in Row(f.id)}
  IN /\ At(i, "follow") /\ f.op # "all"
     /\ mirror' = (mirror \ Row(f.id)) \cup IF f.op = "delete" THEN {} ELSE row
     /\ Answers(i)
     /\ UNCHANGED <<menu, aligned, served, counts, torn>>

\* The whole menu: the ids that D1 has are read ...
ReadsIds(i) ==
  /\ At(i, "follow") /\ Follow(i).op = "all"
  /\ Goes(i, [Step(i, "rows") EXCEPT !.row = 1, !.found = {d.id : d \in mirror},
                !.todo = {d.id : d \in mirror} \ IdsOf(req[i].new)])
  /\ UNCHANGED <<counts, torn, menuRows>>

\* ... each dish updates its row or is inserted, which fails, and ends it all, when the
\* row is there by now ...
WritesRow(i) ==
  LET d == req[i].new[req[i].row]
      e == IF d.id = NoId THEN [d EXCEPT !.id = Random(Unused)] ELSE d
  IN /\ At(i, "rows") /\ req[i].row <= Len(req[i].new)
     /\ IF e.id \in req[i].found
        THEN /\ mirror' = (mirror \ Row(e.id)) \cup {[e EXCEPT !.tag = r.tag] : r \in Row(e.id)}
             /\ Goes(i, [req[i] EXCEPT !.row = @ + 1]) /\ UNCHANGED aligned
        ELSE IF Row(e.id) # {}
        THEN Answers(i) /\ aligned' = FALSE /\ UNCHANGED mirror
        ELSE /\ mirror' = mirror \cup {AsInserted(e)}
             /\ Goes(i, [req[i] EXCEPT !.row = @ + 1]) /\ UNCHANGED aligned
     /\ UNCHANGED <<menu, served, counts, torn>>

\* Mutant: nothing is deleted.
UnseenNone(i) == {}

\* The rows that no dish has claimed.
Unseen(i) == req[i].todo

\* ... and the rows that no dish claimed are deleted.
DeletesRow(i) ==
  LET id == CHOOSE x \in Unseen(i) : TRUE
  IN /\ At(i, "rows") /\ req[i].row > Len(req[i].new)
     /\ IF Unseen(i) = {} THEN Answers(i) /\ UNCHANGED mirror
        ELSE /\ mirror' = mirror \ Row(id)
             /\ Goes(i, [req[i] EXCEPT !.todo = @ \ {id}])
     /\ aligned' = (aligned \/ (/\ Unseen(i) = {}
                                /\ NoId \notin IdsOf(req[i].new) /\ ~Twins(req[i].new)))
     /\ UNCHANGED <<menu, served, counts, torn>>

-----------------------------------------------------------------------------
MenuArrives(i) ==
  \/ ReadArrives(i) \/ EditorArrives(i)
  \/ \E cat \in Range(Categories), name \in DishNames : AddArrives(i, cat, name)
  \/ \E id \in IdsOf(menu.list) \ {NoId} :
       \/ DeleteArrives(i, id)
       \/ \E off \in BOOLEAN : AvailabilityArrives(i, id, off)
       \/ \E name \in DishNames, cat \in Range(Categories) :
            \E set \in {[name |-> name], [cat |-> cat], [name |-> name, cat |-> cat]} :
              PutArrives(i, id, set)
  \/ \E force \in BOOLEAN : RepairArrives(i, force)

MenuStep(i) ==
  \/ Rebuilds(i) \/ \E payload \in Edits(i) : Saves(i, payload)
  \/ InsertsFirst(i) \/ Adopts(i) \/ Puts(i)
  \/ Follows(i) \/ ReadsIds(i) \/ WritesRow(i) \/ DeletesRow(i)

MenuNext == counts.desk = "menu" /\ \E i \in Slots : MenuArrives(i) \/ MenuStep(i)

-----------------------------------------------------------------------------
(* Properties.                                                             *)

\* When all has come to rest, guests can order the dishes on the menu, each by its id
\* and, but for a name that was lost in a move (Edited), its name, and none that is 86'd
\* (menu.js:442-444, 487-490); unless two writes met, one was cut short or failed, or the
\* menu and the rows do not have ids in common, one for each dish.
MirrorFollows ==
  Quiet /\ House \notin torn /\ counts.cut = <<>> /\ aligned /\ menu.there
    => LinesUp(menu.list, mirror)

\* A dish is served and stored under one id for good, whether or not the id it was first
\* served under has been put back, and whichever writes met (menu.js:26-33); but for a
\* repair.
IdsKept == \A x, y \in served : x.dish = y.dish => x.id = y.id

===============================================================================
