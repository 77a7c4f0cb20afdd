------------------------------ MODULE Ownership ------------------------------
(***************************************************************************)
(* Which side owns which table (src/lib/ownership.js), and what replaying  *)
(* one captured statement does to the row it names (src/handlers/sync.js). *)
(*                                                                         *)
(* A row is a number: 0.. is its content, Absent means there is no row.    *)
(* The statements the handlers journal fall into five kinds:               *)
(*   insert  INSERT INTO t (id, ...) VALUES (...)                          *)
(*   set     UPDATE t SET v = ? WHERE id = ?                               *)
(*   claim   UPDATE t SET v = ? WHERE id = ? AND v <> ?  (the table claim) *)
(*   bump    UPDATE t SET v = v + 1 WHERE id = ?  (drawer tally, stock)    *)
(*   delete  DELETE FROM t WHERE id = ?                                    *)
(***************************************************************************)
EXTENDS Integers

Absent == -1

Contents == Nat \cup {Absent}

AllKinds == {"insert", "set", "claim", "bump", "delete"}

\* The op column of the journal: what extractWrite reads off the statement.
OpOf(kind) == IF kind \in {"set", "claim", "bump"} THEN "update" ELSE kind

OWNERSHIP == [tables |-> "local", timeclock |-> "local",
              payments |-> "append", audit_log |-> "append",
              stock_movements |-> "append", inventory_movements |-> "append",
              orders |-> "creator", order_items |-> "creator",
              reservations |-> "cloud", menu |-> "cloud",
              menu_items |-> "cloud", categories |-> "cloud",
              reviews |-> "cloud", staff |-> "cloud",
              settings |-> "cloud", content |-> "cloud"]

DEFAULT_OWNER == "cloud"

OwnerOf(entity) ==
  IF entity \in DOMAIN OWNERSHIP THEN OWNERSHIP[entity] ELSE DEFAULT_OWNER

\* Mutant: an append-only table that may be updated.
DecideWhateverOp(entity, op, receiver) ==
  IF OwnerOf(entity) \in {"creator", "append"} \/ OwnerOf(entity) # receiver
  THEN "apply" ELSE "conflict"

\* "apply" or "conflict": what the receiver does with an entry.
Decide(entity, op, receiver) ==
  LET owner == OwnerOf(entity)
  IN IF \/ owner = "creator"
        \/ owner = "append" /\ op = "insert"
        \/ owner \notin {"creator", "append", receiver}
     THEN "apply" ELSE "conflict"

\* Does the statement's WHERE clause (or the primary key) let it act on cur?
Matches(kind, val, cur) ==
  CASE kind = "insert" -> cur = Absent
    [] kind = "claim"  -> cur # Absent /\ cur # val
    [] OTHER           -> cur # Absent

Effect(kind, val, cur) ==
  IF ~Matches(kind, val, cur) THEN cur
  ELSE CASE kind = "bump"   -> cur + 1
         [] kind = "delete" -> Absent
         [] OTHER           -> val

=============================================================================
