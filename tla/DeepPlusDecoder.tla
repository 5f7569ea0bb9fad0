---------------------------- MODULE DeepPlusDecoder ----------------------------
(***************************************************************************)
(* DeepPlusDecoder (src/src/deepplus.h): turns the venue's order-by-order   *)
(* DEEP+ messages into price-level updates.  An update carries the new      *)
(* total of its level, so the decoder has to remember every resting order:  *)
(* a delete names neither its price nor its size.                           *)
(*                                                                         *)
(* A venue message is a record; lengths and byte offsets are abstracted to  *)
(* the kind "other", which stands for every message decode() ignores.  The  *)
(* level of a price that is not in the map is 0.                            *)
(***************************************************************************)
EXTENDS Integers, Sequences, Functions

CONSTANTS
  Symbol, OrderId, Price,
  SizeLimit    \* 2^32: width of OrderMessage::size

Side == {"B", "S"}

ASSUME DecoderAssumption ==
  Price \subseteq Int /\ 0 \notin Price /\ SizeLimit \in Nat \ {0}

VARIABLES
  orders,              \* the resting orders the decoder knows
  levels,              \* the global `levels': total size per symbol, side and price
  unknown_references,
  out                  \* updates of the message just decoded, to be published

decoderVars == <<orders, levels, unknown_references, out>>

Order == [symbol : Symbol, side : Side, price : Price, size : Nat]

DecoderInit ==
  /\ orders = [id \in {} |-> 0]
  /\ levels = [s \in Symbol |-> [side \in Side |-> [p \in Price |-> 0]]]
  /\ unknown_references = 0
  /\ out = <<>>

Known(id) == id \in DOMAIN orders
Remember(id, o) == [i \in DOMAIN orders \cup {id} |-> IF i = id THEN o ELSE orders[i]]
Forget(id) == Restrict(orders, DOMAIN orders \ {id})

(* Seeded fault: a level may become negative.                               *)
NewTotalUnchecked(lv, o, delta) == lv[o.symbol][o.side][o.price] + delta

(* The total of the order's level in lv after delta; at or below 0 the      *)
(* level is erased.                                                         *)
NewTotal(lv, o, delta) ==
  LET total == lv[o.symbol][o.side][o.price] + delta
  IN  IF total <= 0 THEN 0 ELSE total

AddLevel(lv, o, delta) ==
  [lv EXCEPT ![o.symbol][o.side][o.price] = NewTotal(lv, o, delta)]

(* Seeded fault: the update carries the order's size, not the level's.      *)
LevelUpdateOfOrder(lv, o, delta) ==
  [type |-> o.side, symbol |-> o.symbol, price |-> o.price, size |-> o.size % SizeLimit]

LevelUpdate(lv, o, delta) ==
  [type |-> o.side, symbol |-> o.symbol, price |-> o.price,
   size |-> NewTotal(lv, o, delta) % SizeLimit]

Trade(symbol, price, size) ==
  [type |-> "T", symbol |-> symbol, price |-> price, size |-> size]

OrderAdd(m) ==
  LET o == [symbol |-> m.symbol, side |-> m.side, price |-> m.price, size |-> m.size] IN
  /\ m.kind = "add"
  /\ orders' = Remember(m.id, o)
  /\ levels' = AddLevel(levels, o, o.size)
  /\ out' = <<LevelUpdate(levels, o, o.size)>>
  /\ UNCHANGED unknown_references

OrderDelete(m) ==
  LET o == orders[m.id] IN
  /\ m.kind = "delete" /\ Known(m.id)
  /\ levels' = AddLevel(levels, o, -o.size)
  /\ out' = <<LevelUpdate(levels, o, -o.size)>>
  /\ orders' = Forget(m.id)
  /\ UNCHANGED unknown_references

(* Seeded fault: an order that changes its price stays on its old level.    *)
OrderModifyJoinsOnly(m) ==
  LET o == orders[m.id]
      moved == [o EXCEPT !.price = m.price, !.size = m.size] IN
  /\ m.kind = "modify" /\ Known(m.id)
  /\ levels' = AddLevel(levels, moved, m.size)
  /\ out' = <<LevelUpdate(levels, moved, m.size)>>
  /\ orders' = Remember(m.id, moved)
  /\ UNCHANGED unknown_references

(* One level changes by the difference, or the order leaves one level and   *)
(* joins another.                                                           *)
OrderModify(m) ==
  LET o == orders[m.id]
      moved == [o EXCEPT !.price = m.price, !.size = m.size]
      left == AddLevel(levels, o, -o.size) IN
  /\ m.kind = "modify" /\ Known(m.id)
  /\ \/ /\ m.price = o.price
        /\ levels' = AddLevel(levels, o, m.size - o.size)
        /\ out' = <<LevelUpdate(levels, o, m.size - o.size)>>
     \/ /\ m.price # o.price
        /\ levels' = AddLevel(left, moved, m.size)
        /\ out' = <<LevelUpdate(levels, o, -o.size), LevelUpdate(left, moved, m.size)>>
  /\ orders' = Remember(m.id, moved)
  /\ UNCHANGED unknown_references

(* Seeded fault: a filled order is kept, with nothing left of it.           *)
OrderExecutedKept(m) ==
  LET o == orders[m.id] IN
  /\ m.kind = "executed" /\ Known(m.id)
  /\ levels' = AddLevel(levels, o, -m.size)
  /\ out' = <<LevelUpdate(levels, o, -m.size), Trade(o.symbol, m.price, m.size)>>
  /\ orders' = Remember(m.id, [o EXCEPT !.size = o.size - m.size])
  /\ UNCHANGED unknown_references

(* Seeded fault: the level does not believe an execution of more than the   *)
(* order is known to have.                                                  *)
OrderExecutedIfPlausible(m) ==
  LET o == orders[m.id] IN
  /\ m.kind = "executed" /\ Known(m.id)
  /\ \/ /\ m.size <= o.size
        /\ levels' = AddLevel(levels, o, -m.size)
        /\ out' = <<LevelUpdate(levels, o, -m.size), Trade(o.symbol, m.price, m.size)>>
     \/ /\ m.size > o.size
        /\ out' = <<Trade(o.symbol, m.price, m.size)>>
        /\ UNCHANGED levels
  /\ orders' = IF m.size >= o.size THEN Forget(m.id)
               ELSE Remember(m.id, [o EXCEPT !.size = o.size - m.size])
  /\ UNCHANGED unknown_references

(* The filled shares leave the level; a filled order is forgotten.          *)
OrderExecuted(m) ==
  LET o == orders[m.id] IN
  /\ m.kind = "executed" /\ Known(m.id)
  /\ levels' = AddLevel(levels, o, -m.size)
  /\ out' = <<LevelUpdate(levels, o, -m.size), Trade(o.symbol, m.price, m.size)>>
  /\ orders' = IF m.size >= o.size THEN Forget(m.id)
               ELSE Remember(m.id, [o EXCEPT !.size = o.size - m.size])
  /\ UNCHANGED unknown_references

(* Delete, modify or execution of an order whose add was never seen.        *)
UnknownReference(m) ==
  /\ m.kind \in {"delete", "modify", "executed"} /\ ~Known(m.id)
  /\ unknown_references' = unknown_references + 1
  /\ UNCHANGED <<orders, levels, out>>

(* A match of hidden orders: no level changes.                              *)
TradeReport(m) ==
  /\ m.kind = "trade"
  /\ out' = <<Trade(m.symbol, m.price, m.size)>>
  /\ UNCHANGED <<orders, levels, unknown_references>>

Ignored(m) == m.kind = "other" /\ UNCHANGED decoderVars

Decode(m) ==
  \/ OrderAdd(m) \/ OrderDelete(m) \/ OrderModify(m) \/ OrderExecuted(m)
  \/ UnknownReference(m) \/ TradeReport(m) \/ Ignored(m)
=============================================================================
