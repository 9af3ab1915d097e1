------------------------------- MODULE Ledger -------------------------------
(***************************************************************************)
(* The records the bot and the exchange keep about one exchange/instrument *)
(* pair, and what the repositories do to them: rows of trading.orders with *)
(* their unique indexes (database/repository/orders.go, migrations 5, 20), *)
(* the position row (components/portfolio/position.go, repository          *)
(* positions.go, migration 11) and the orders of the exchange.             *)
(*                                                                         *)
(* A quantity counts lots: one lot is what one buy order obtains.  Less    *)
(* than PositionDeletionThreshold is no lot.  A row is identified by its   *)
(* place in the table (the serial id, also the order of created_at), an    *)
(* exchange order by its place in the exchange's book.  Prices are left    *)
(* to the strategy; 0 stands for a NULL id.                                *)
(***************************************************************************)
EXTENDS Integers, Sequences, FiniteSets

Sides       == {"buy", "sell"}
Kinds       == {"market", "stop"}
RowStatuses == {"new", "open", "closed", "canceled", "rejected"}

(* A row of trading.orders.                                                 *)
Row == [xid : Nat, side : Sides, kind : Kinds, status : RowStatuses, qty : Nat]

(* An order of the exchange.  cid is the row whose client order id it       *)
(* carries, 0 when it carries an id no row was written with before it was   *)
(* sent (the stop orders of the bot), Unnamed when it carries none (orders  *)
(* of the account's owner).  "transit": sent by the gateway but not yet     *)
(* seen by the exchange.                                                    *)
Unnamed == -1
ExchangeOrder == [cid : Nat \cup {Unnamed}, side : Sides, kind : Kinds, qty : Nat,
                  status : {"transit", "open", "closed", "canceled"}]

(* A position: absent, of unknown origin ("ghost"), or linked to an order.  *)
Position == [st : {"none", "ghost", "known"}, order : Nat, qty : Nat, sl : BOOLEAN]
NoPosition == [st |-> "none", order |-> 0, qty |-> 0, sl |-> FALSE]
----------------------------------------------------------------------------
(* Rows selected by GetOrders(statuses, types, sides). *)
Select(rs, statuses, kinds, sides) ==
    {i \in DOMAIN rs : rs[i].status \in statuses /\ rs[i].kind \in kinds /\ rs[i].side \in sides}

(* The newest 'new' row, when it has no exchange id. *)
Unresolved(rs) ==
    LET new == Select(rs, {"new"}, Kinds, Sides)
    IN  {i \in new : rs[i].xid = 0 /\ \A j \in new : j <= i}

Recorded(rs, x) == \E i \in DOMAIN rs : rs[i].xid = x

(* idx_orders_new_without_exchange_order_id: one unresolved row per instrument. *)
InsertAllowed(rs) == \A i \in DOMAIN rs : rs[i].status = "new" => rs[i].xid # 0

Inserted(rs, side, qty) ==
    Append(rs, [xid |-> 0, side |-> side, kind |-> "market", status |-> "new", qty |-> qty])

(* idx_orders_exchange_order_id_active: no other row has the exchange id x. *)
LinkAllowed(rs, x) == ~Recorded(rs, x)

(* UpdateOrder by id: exchange_order_id = COALESCE(exchange_order_id, x). *)
Linked(rs, r, x, status) ==
    [rs EXCEPT ![r].xid = IF @ = 0 THEN x ELSE @, ![r].status = status]

(* idx_orders_client_order_id_active: when no row has the exchange id x, the *)
(* insert is refused if the row whose client order id o carries exists.      *)
UpsertAllowed(rs, x, o) == Recorded(rs, x) \/ o.cid \notin DOMAIN rs

(* updateOrderResponse: UpdateOrder by exchange id, CreateOrder when no row has it. *)
Upserted(rs, x, o, status) ==
    IF Recorded(rs, x)
    THEN [i \in DOMAIN rs |-> IF rs[i].xid = x THEN [rs[i] EXCEPT !.status = status] ELSE rs[i]]
    ELSE Append(rs, [xid |-> x, side |-> o.side, kind |-> o.kind, status |-> status, qty |-> o.qty])
----------------------------------------------------------------------------
(* CreatePosition refuses a known position, and a ghost without an order id. *)
CreateAllowed(p, order) == p.st = "none" \/ (p.st = "ghost" /\ order > 0)

CreatedPosition(order, qty) ==
    [st |-> IF order = 0 THEN "ghost" ELSE "known", order |-> order, qty |-> qty, sl |-> FALSE]

(* UpdatePosition: the row must exist and keep check_position_origin_completeness. *)
UpdateAllowed(p, u) == p.st # "none" /\ (u.st = "ghost" \/ u.order > 0 \/ p.order > 0)

(* mutant: any update gives the position a known origin *)
UpdatedPositionKnown(p, u) ==
    [st    |-> "known",
     order |-> IF u.order > 0 THEN u.order ELSE p.order,
     qty   |-> IF u.qty > 0 THEN u.qty ELSE p.qty,
     sl    |-> u.sl]

(* Order and quantity are selective, the two flags are always overwritten.  *)
UpdatedPosition(p, u) ==
    [st    |-> IF u.st = "ghost" THEN "ghost" ELSE "known",
     order |-> IF u.order > 0 THEN u.order ELSE p.order,
     qty   |-> IF u.qty > 0 THEN u.qty ELSE p.qty,
     sl    |-> u.sl]

(* The update that only carries a balance: its flags are Go's zero values.  *)
QuantityOnly(qty) == [st |-> "none", order |-> 0, qty |-> qty, sl |-> FALSE]
=============================================================================
