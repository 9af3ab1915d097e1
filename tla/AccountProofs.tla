----------------------------- MODULE AccountProofs -----------------------------
(***************************************************************************)
(* The accounts of the pair, for any faults, tasks and bounds: no quantity *)
(* is ever negative, so that the types of the specification hold.  The sum *)
(* that makes it so is the exchange's: the lots offered by open sell       *)
(* orders in the market are never more than the lots held (NeverShort),    *)
(* because a sale is admitted against what is free and a triggered stop    *)
(* order against what is not offered.  Everybody else only copies: a row   *)
(* gets the quantity of an order or of a balance, a position that of its   *)
(* row or of a balance. The first part describes what each table write     *)
(* does to each row and each order (RowAdded, RowLinked, RowsStated;       *)
(* Placed, Turned) and shows that the steps of the specification do        *)
(* nothing else (RowWrites, BookWrites, PositionWrites, Copies); later     *)
(* proofs argue with these descriptions.                                   *)
(***************************************************************************)
EXTENDS ReconcilerProofs, FiniteSetTheorems

USE DEF Unnamed

(* The sum of the lots of orders X of the book xs. *)
LotsIn(xs, X) == Cardinality(UNION {{x} \X (1..xs[x].qty) : x \in X})

(* The open orders of one side and kind in the book xs. *)
LiveIn(xs, side, kind) ==
    {x \in 1..Len(xs) : xs[x].status = "open" /\ xs[x].side = side /\ xs[x].kind = kind}

(* A finite set of orders has finitely many lots. *)
LEMMA LotsFinite ==
    ASSUME NEW xs, NEW X, IsFiniteSet(X), \A x \in X : xs[x].qty \in Nat
    PROVE  IsFiniteSet(UNION {{x} \X (1..xs[x].qty) : x \in X}) /\ LotsIn(xs, X) \in Nat
<1> DEFINE lots == {{x} \X (1..xs[x].qty) : x \in X}
           f == [x \in X |-> {x} \X (1..xs[x].qty)]
<1>1. f \in Surjection(X, lots)
  BY DEF Surjection
<1> HIDE DEF f
<1>2. IsFiniteSet(lots)
  BY <1>1, FS_Surjection
<1>3. ASSUME NEW T \in lots PROVE IsFiniteSet(T)
  <2>1. PICK x \in X : T = {x} \X (1..xs[x].qty)
    OBVIOUS
  <2>2. IsFiniteSet({x}) /\ IsFiniteSet(1..xs[x].qty)
    <3>1. 1 \in Int /\ xs[x].qty \in Int
      OBVIOUS
    <3>2. QED
      BY <3>1, FS_Singleton, FS_Interval
  <2>3. QED
    BY <2>1, <2>2, FS_Product
<1> HIDE DEF lots
<1>4. IsFiniteSet(UNION lots)
  BY <1>2, <1>3, FS_UNION
<1>5. QED
  BY <1>4, FS_CardinalityType DEF lots, LotsIn

(* The lots of an order are counted beside those of the others. *)
LEMMA LotsSplit ==
    ASSUME NEW xs, NEW X, IsFiniteSet(X), \A x \in X : xs[x].qty \in Nat, NEW y \in X
    PROVE  LotsIn(xs, X) = LotsIn(xs, X \ {y}) + xs[y].qty
<1> DEFINE Lots(Y) == UNION {{x} \X (1..xs[x].qty) : x \in Y}
           own == {y} \X (1..xs[y].qty)
<1>1. IsFiniteSet(X \ {y})
  BY FS_RemoveElement
<1>2. IsFiniteSet(Lots(X \ {y})) /\ LotsIn(xs, X \ {y}) \in Nat
  BY <1>1, LotsFinite
<1>3. IsFiniteSet(own) /\ Cardinality(own) = xs[y].qty
  <2>1. IsFiniteSet({y}) /\ Cardinality({y}) = 1
    BY FS_Singleton
  <2>2. IsFiniteSet(1..xs[y].qty) /\ Cardinality(1..xs[y].qty) = xs[y].qty
    <3>1. 1 \in Int /\ xs[y].qty \in Int /\ xs[y].qty >= 0
      OBVIOUS
    <3>2. IsFiniteSet(1..xs[y].qty)
      BY <3>1, FS_Interval
    <3>3. Cardinality(1..xs[y].qty) = IF 1 > xs[y].qty THEN 0 ELSE xs[y].qty - 1 + 1
      BY <3>1, FS_Interval
    <3>4. QED
      BY <3>1, <3>2, <3>3
  <2>3. IsFiniteSet(own) /\ Cardinality(own) = 1 * xs[y].qty
    BY <2>1, <2>2, FS_Product
  <2>4. QED
    BY <2>3
<1>4. Lots(X) = Lots(X \ {y}) \cup own
  <2>1. ASSUME NEW e \in Lots(X) PROVE e \in Lots(X \ {y}) \cup own
    <3>1. PICK x \in X : e \in {x} \X (1..xs[x].qty)
      OBVIOUS
    <3>2. x = y \/ x \in X \ {y}
      OBVIOUS
    <3>3. QED
      BY <3>1, <3>2
  <2>2. Lots(X \ {y}) \subseteq Lots(X) /\ own \subseteq Lots(X)
    BY Zenon
  <2>3. QED
    BY <2>1, <2>2
<1>5. Lots(X \ {y}) \cap own = {}
  <2>1. ASSUME NEW e \in Lots(X \ {y}), e \in own PROVE FALSE
    <3>1. PICK x \in X \ {y} : e \in {x} \X (1..xs[x].qty)
      BY <2>1
    <3>2. e[1] = x /\ e[1] = y
      BY <2>1, <3>1
    <3>3. QED
      BY <3>1, <3>2
  <2>2. QED
    BY <2>1
<1> HIDE DEF own, Lots
<1>6. Cardinality(Lots(X)) = Cardinality(Lots(X \ {y})) + xs[y].qty
  <2> DEFINE rest == Lots(X \ {y})
  <2>1. IsFiniteSet(rest) /\ Cardinality(rest) \in Nat /\ rest \cap own = {}
    BY <1>2, <1>5, FS_CardinalityType
  <2> HIDE DEF rest
  <2>2. Cardinality(rest \cup own) = Cardinality(rest) + Cardinality(own) - Cardinality(rest \cap own)
    BY <1>3, <2>1, FS_Union
  <2>3. Cardinality(rest \cap own) = 0
    BY <2>1, FS_EmptySet
  <2>4. QED
    BY <1>3, <1>4, <2>1, <2>2, <2>3 DEF rest
<1>7. QED
  BY <1>6 DEF LotsIn, Lots

(* Only the quantities count. *)
LEMMA LotsSame ==
    ASSUME NEW xs, NEW xt, NEW X, \A x \in X : xs[x].qty = xt[x].qty
    PROVE  LotsIn(xs, X) = LotsIn(xt, X)
<1>1. {{x} \X (1..xs[x].qty) : x \in X} = {{x} \X (1..xt[x].qty) : x \in X}
  BY Zenon
<1>2. QED
  BY <1>1 DEF LotsIn

(* No orders, no lots. *)
LEMMA LotsNone == ASSUME NEW xs PROVE LotsIn(xs, {}) = 0
BY FS_EmptySet DEF LotsIn
----------------------------------------------------------------------------
(* Where a step leads the worker: on to place p with all its locals, ...    *)
Moves(p) ==
    /\ w'.pc = p /\ w'.h = w.h /\ w'.pos = w.pos /\ w'.bal = w.bal /\ w'.row = w.row
    /\ w'.x = w.x /\ w'.resp = w.resp /\ w'.todo = w.todo /\ strat' = strat

(* ... or out of processSignal without any. *)
Leaves(s) ==
    /\ w'.pc \in {"tick", "retire"} /\ (w'.pc = "retire" => w.h = "search" /\ term)
    /\ w'.h = "none" /\ w'.pos = NoPosition /\ w'.bal = 0 /\ w'.row = 0
    /\ w'.x = 0 /\ w'.resp = "none" /\ w'.todo = {} /\ strat' = s

(* Goto keeps the locals. *)
LEMMA GotoMoves == ASSUME w \in WorkerI PROVE \A p : Goto(p) => Moves(p)
BY DEF Goto, Moves, WorkerI

(* Return drops them. *)
LEMMA ReturnLeaves == \A s : Return(s) => Leaves(s)
BY DEF Return, Leaves, Idle

(* So does an error. *)
LEMMA ErrorLeaves == OnError => Leaves(IF w.h \in {"buy", "sell"} THEN Retry(strat) ELSE strat)
BY ReturnLeaves DEF OnError
(* By which action the worker comes to a place. *)
Arrival ==
    /\ w'.pc = "position" => Tick \/ CheckPending \/ Lookup \/ GiveUp
    /\ w'.pc = "pending" => Tick
    /\ w'.pc = "lookup" => CheckPending
    /\ w'.pc = "giveup" => Lookup
    /\ w'.pc = "orders" => CheckPosition
    /\ w'.pc = "stops" => CheckPosition \/ CheckBalance
    /\ w'.pc = "raise" => CheckPosition \/ DecideOnStop \/ PersistStop
    /\ w'.pc = "balance" => CheckOpenOrders
    /\ w'.pc = "persist" => CheckBalance \/ DecideOnStop \/ StoreCanceled
    /\ w'.pc = "delete" => CheckBalance \/ DecideOnStop \/ StoreCanceled
    /\ w'.pc = "send" => PersistOrder
    /\ w'.pc = "confirm" => SendOrder
    /\ w'.pc = "create" => ConfirmOrder
    /\ w'.pc = "close" => ConfirmOrder
    /\ w'.pc = "settle" => CreatePosition
    /\ w'.pc = "quantity" => SettleBalance
    /\ w'.pc = "record" => ListOpenOrders \/ RecordOpenOrder
    /\ w'.pc = "arm" => DecideOnStop
    /\ w'.pc = "cancel" => DecideOnStop
    /\ w'.pc = "stoprow" => ArmStop
    /\ w'.pc = "canceled" => CancelStop
    /\ w'.pc = "apply" => CheckTermination
    /\ w'.pc = "stopped" => ApplyDisable

(* The worker comes to a place by one of the actions that lead there. *)
LEMMA Arrivals == ASSUME IInv, WorkerStep PROVE Arrival
<1> USE GotoMoves, ReturnLeaves, ErrorLeaves DEF Moves, Leaves
<1>1. w \in WorkerI
  BY DEF IInv, WorkerIn
<1>2. Tick => w'.pc \in {"tick", "retire", "position", "pending"}
  BY <1>1 DEF Tick, Idle
<1>3. CheckPending => w'.pc \in {"tick", "retire", "lookup", "position"}
  BY <1>1 DEF CheckPending, WorkerI
<1>4. Lookup => w'.pc \in {"tick", "retire", "giveup", "position"}
  BY <1>1 DEF Lookup
<1>5. GiveUp => w'.pc \in {"tick", "retire", "position"}
  BY <1>1 DEF GiveUp
<1>6. CheckPosition => w'.pc \in {"tick", "retire", "orders", "stops", "raise"}
  BY <1>1 DEF CheckPosition, WorkerI
<1>7. CheckOpenOrders => w'.pc \in {"tick", "retire", "balance"}
  BY <1>1 DEF CheckOpenOrders
<1>8. CheckBalance => w'.pc \in {"tick", "retire", "persist", "delete", "stops"}
  BY <1>1 DEF CheckBalance, WorkerI
<1>9. PersistOrder => w'.pc \in {"tick", "retire", "send"}
  BY <1>1 DEF PersistOrder, WorkerI
<1>10. SendOrder => w'.pc \in {"tick", "retire", "confirm"}
  BY <1>1 DEF SendOrder, WorkerI
<1>11. ConfirmOrder => w'.pc \in {"tick", "retire", "create", "close"}
  BY <1>1 DEF ConfirmOrder
<1>12. CreatePosition => w'.pc \in {"tick", "retire", "settle"}
  BY <1>1 DEF CreatePosition
<1>13. SettleBalance => w'.pc \in {"tick", "retire", "quantity"}
  BY <1>1 DEF SettleBalance, WorkerI
<1>14. SettleQuantity => w'.pc \in {"tick", "retire"}
  BY <1>1 DEF SettleQuantity
<1>15. ClosePosition => w'.pc \in {"tick", "retire"}
  BY <1>1 DEF ClosePosition
<1>16. DropPosition => w'.pc \in {"tick", "retire"}
  BY <1>1 DEF DropPosition
<1>17. ListOpenOrders => w'.pc \in {"tick", "retire", "record"}
  BY <1>1 DEF ListOpenOrders, WorkerI
<1>18. RecordOpenOrder => w'.pc \in {"tick", "retire", "record"}
  BY <1>1 DEF RecordOpenOrder, WorkerI
<1>19. DecideOnStop => w'.pc \in {"tick", "retire", "arm", "raise", "cancel", "delete", "persist"}
  BY <1>1 DEF DecideOnStop, WorkerI
<1>20. ArmStop => w'.pc \in {"tick", "retire", "stoprow"}
  BY <1>1 DEF ArmStop, WorkerI
<1>21. PersistStop => w'.pc \in {"tick", "retire", "raise"}
  BY <1>1 DEF PersistStop, WorkerI
<1>22. RaisePosition => w'.pc \in {"tick", "retire"}
  BY <1>1 DEF RaisePosition
<1>23. CancelStop => w'.pc \in {"tick", "retire", "canceled"}
  BY <1>1 DEF CancelStop
<1>24. StoreCanceled => w'.pc \in {"tick", "retire", "delete", "persist"}
  BY <1>1 DEF StoreCanceled
<1>25. CheckTermination => w'.pc \in {"tick", "retire", "apply"}
  BY <1>1 DEF CheckTermination, WorkerI, Idle
<1>26. ApplyDisable => w'.pc \in {"tick", "retire", "stopped"}
  BY <1>1 DEF ApplyDisable, Idle
<1>27. QED
  BY <1>2, <1>3, <1>4, <1>5, <1>6, <1>7, <1>8, <1>9, <1>10, <1>11, <1>12, <1>13, <1>14, <1>15, <1>16, <1>17, <1>18, <1>19, <1>20, <1>21, <1>22, <1>23, <1>24, <1>25, <1>26 DEF WorkerStep, Arrival
----------------------------------------------------------------------------
(* What the operators on the tables do to each row: a row is added, ...     *)
RowAdded(rs, rt, xid, side, kind, status, qty) ==
    /\ Len(rt) = Len(rs) + 1
    /\ \A r \in 1..Len(rs) : rt[r] = rs[r]
    /\ rt[Len(rs) + 1] = [xid |-> xid, side |-> side, kind |-> kind, status |-> status, qty |-> qty]

(* ... row r is linked to order x, ... *)
RowLinked(rs, rt, r, x, status) ==
    /\ Len(rt) = Len(rs)
    /\ \A i \in 1..Len(rs) : i # r => rt[i] = rs[i]
    /\ rt[r].xid = x /\ rt[r].status = status
    /\ rt[r].side = rs[r].side /\ rt[r].kind = rs[r].kind /\ rt[r].qty = rs[r].qty

(* ... or the rows of order x get its status. *)
RowsStated(rs, rt, x, status) ==
    /\ Len(rt) = Len(rs)
    /\ \A r \in 1..Len(rs) : /\ rt[r].xid = rs[r].xid /\ rt[r].side = rs[r].side
                             /\ rt[r].kind = rs[r].kind /\ rt[r].qty = rs[r].qty
                             /\ rt[r].status = IF rs[r].xid = x THEN status ELSE rs[r].status

(* CreateOrder adds a row, ... *)
LEMMA InsertedRow ==
    ASSUME NEW rs \in Seq(RowI), NEW side, NEW qty
    PROVE  RowAdded(rs, Inserted(rs, side, qty), 0, side, "market", "new", qty)
<1> DEFINE row == [xid |-> 0, side |-> side, kind |-> "market", status |-> "new", qty |-> qty]
<1>1. /\ Len(Append(rs, row)) = Len(rs) + 1 /\ Append(rs, row)[Len(rs) + 1] = row
      /\ \A r \in 1..Len(rs) : Append(rs, row)[r] = rs[r]
  OBVIOUS
<1>2. QED
  BY <1>1 DEF RowAdded, Inserted

(* ... an update by id links one that has no exchange id yet, ... *)
LEMMA LinkedRow ==
    ASSUME NEW rs \in Seq(RowI), NEW r \in 1..Len(rs), rs[r].xid = 0, NEW x, NEW status
    PROVE  RowLinked(rs, Linked(rs, r, x, status), r, x, status)
<1> DEFINE b == [[rs[r] EXCEPT !.xid = x] EXCEPT !.status = status]
           mid == [rs EXCEPT ![r] = [rs[r] EXCEPT !.xid = x]]
           rt == Linked(rs, r, x, status)
<1>1. rs[r] \in RowI
  OBVIOUS
<1>2. /\ b.xid = x /\ b.status = status /\ b.side = rs[r].side
      /\ b.kind = rs[r].kind /\ b.qty = rs[r].qty
  BY <1>1 DEF RowI
<1>3. mid[r] = [rs[r] EXCEPT !.xid = x] /\ DOMAIN mid = DOMAIN rs /\ DOMAIN rs = 1..Len(rs)
  OBVIOUS
<1>4. rt = [mid EXCEPT ![r] = [mid[r] EXCEPT !.status = status]]
  BY DEF Linked
<1>5. rt = [rs EXCEPT ![r] = b]
  BY <1>3, <1>4
<1> HIDE DEF rt, b
<1>6. Len(rt) = Len(rs) /\ rt[r] = b /\ \A i \in 1..Len(rs) : i # r => rt[i] = rs[i]
  BY <1>5
<1>7. QED
  BY <1>2, <1>6 DEF RowLinked, rt

(* ... and an order is stored under its row, or in a new one. *)
LEMMA UpsertedRow ==
    ASSUME NEW rs \in Seq(RowI), NEW x, NEW o, NEW status
    PROVE  LET rt == Upserted(rs, x, o, status)
           IN  \/ Recorded(rs, x) /\ RowsStated(rs, rt, x, status)
               \/ ~Recorded(rs, x) /\ RowAdded(rs, rt, x, o.side, o.kind, status, o.qty)
<1> DEFINE rt == Upserted(rs, x, o, status)
<1>1. DOMAIN rs = 1..Len(rs) /\ Len(rs) \in Nat
  OBVIOUS
<1>2. CASE Recorded(rs, x)
  <2>1. rt = [i \in 1..Len(rs) |-> IF rs[i].xid = x THEN [rs[i] EXCEPT !.status = status] ELSE rs[i]]
    BY <1>1, <1>2 DEF Upserted
  <2>2. \A i \in 1..Len(rs) : rs[i] \in RowI
    OBVIOUS
  <2>3. ASSUME NEW row \in RowI
        PROVE  LET s == [row EXCEPT !.status = status]
               IN  /\ s.xid = row.xid /\ s.side = row.side /\ s.kind = row.kind
                   /\ s.qty = row.qty /\ s.status = status
    BY DEF RowI
  <2>4. Len(rt) = Len(rs)
    BY <1>1, <2>1
  <2>5. \A r \in 1..Len(rs) : rt[r] = IF rs[r].xid = x THEN [rs[r] EXCEPT !.status = status] ELSE rs[r]
    BY <2>1
  <2> HIDE DEF rt
  <2>6. ASSUME NEW r \in 1..Len(rs)
        PROVE  /\ rt[r].xid = rs[r].xid /\ rt[r].side = rs[r].side
               /\ rt[r].kind = rs[r].kind /\ rt[r].qty = rs[r].qty
               /\ rt[r].status = IF rs[r].xid = x THEN status ELSE rs[r].status
    <3>1. CASE rs[r].xid = x
      BY <2>2, <2>3, <2>5, <3>1
    <3>2. CASE rs[r].xid # x
      BY <2>5, <3>2
    <3>3. QED
      BY <3>1, <3>2
  <2>7. RowsStated(rs, rt, x, status)
    BY <2>4, <2>6 DEF RowsStated
  <2>8. QED
    BY <1>2, <2>7 DEF rt
<1>3. CASE ~Recorded(rs, x)
  <2> DEFINE row == [xid |-> x, side |-> o.side, kind |-> o.kind, status |-> status, qty |-> o.qty]
  <2>1. /\ Len(Append(rs, row)) = Len(rs) + 1 /\ Append(rs, row)[Len(rs) + 1] = row
        /\ \A r \in 1..Len(rs) : Append(rs, row)[r] = rs[r]
    OBVIOUS
  <2>2. rt = Append(rs, row)
    BY <1>3 DEF Upserted
  <2> HIDE DEF rt, row
  <2>3. RowAdded(rs, rt, x, o.side, o.kind, status, o.qty)
    BY <2>1, <2>2 DEF RowAdded, row
  <2>4. QED
    BY <1>3, <2>3 DEF rt
<1>4. QED
  BY <1>2, <1>3

(* What happens to the orders of the exchange: one is placed, ... *)
Placed(xs, xt, cid, side, kind, qty, status) ==
    /\ Len(xt) = Len(xs) + 1
    /\ \A x \in 1..Len(xs) : xt[x] = xs[x]
    /\ xt[Len(xs) + 1] = [cid |-> cid, side |-> side, kind |-> kind, qty |-> qty, status |-> status]

(* ... or order x changes its status. *)
Turned(xs, xt, x, status) ==
    /\ Len(xt) = Len(xs)
    /\ \A y \in 1..Len(xs) : y # x => xt[y] = xs[y]
    /\ xt[x].status = status
    /\ xt[x].cid = xs[x].cid /\ xt[x].side = xs[x].side /\ xt[x].kind = xs[x].kind /\ xt[x].qty = xs[x].qty

(* A new order is the last of the book. *)
LEMMA AppendedOrder ==
    ASSUME NEW xs \in Seq(OrderI), NEW cid, NEW side, NEW kind, NEW qty, NEW status
    PROVE  Placed(xs, Append(xs, [cid |-> cid, side |-> side, kind |-> kind, qty |-> qty, status |-> status]),
                  cid, side, kind, qty, status)
<1> DEFINE o == [cid |-> cid, side |-> side, kind |-> kind, qty |-> qty, status |-> status]
<1>1. /\ Len(Append(xs, o)) = Len(xs) + 1 /\ Append(xs, o)[Len(xs) + 1] = o
      /\ \A x \in 1..Len(xs) : Append(xs, o)[x] = xs[x]
  OBVIOUS
<1>2. QED
  BY <1>1 DEF Placed

(* Settling an order leaves the others alone. *)
LEMMA SettledOrder ==
    ASSUME xord \in Seq(OrderI), NEW x \in 1..Len(xord), NEW s, Settled(x, s)
    PROVE  Turned(xord, xord', x, s)
<1> DEFINE b == [xord[x] EXCEPT !.status = s]
<1>1. xord[x] \in OrderI
  OBVIOUS
<1>2. b.status = s /\ b.cid = xord[x].cid /\ b.side = xord[x].side /\ b.kind = xord[x].kind /\ b.qty = xord[x].qty
  BY <1>1 DEF OrderI
<1>3. xord' = [xord EXCEPT ![x] = b]
  BY DEF Settled
<1> HIDE DEF b
<1>4. Len(xord') = Len(xord) /\ xord'[x] = b /\ \A y \in 1..Len(xord) : y # x => xord'[y] = xord[y]
  BY <1>3
<1>5. QED
  BY <1>2, <1>4 DEF Turned

(* A new order is alive when it is open, ... *)
LEMMA PlacedLive ==
    ASSUME NEW xs \in Seq(OrderI), NEW xt, NEW cid, NEW side, NEW kind, NEW qty, NEW status,
           Placed(xs, xt, cid, side, kind, qty, status), NEW s, NEW k
    PROVE  /\ status = "open" /\ side = s /\ kind = k =>
                 LiveIn(xt, s, k) = LiveIn(xs, s, k) \cup {Len(xs) + 1}
           /\ ~(status = "open" /\ side = s /\ kind = k) => LiveIn(xt, s, k) = LiveIn(xs, s, k)
           /\ Len(xs) + 1 \notin LiveIn(xs, s, k)
<1>1. Len(xs) \in Nat
  OBVIOUS
<1>2. /\ Len(xt) = Len(xs) + 1 /\ \A x \in 1..Len(xs) : xt[x] = xs[x]
      /\ xt[Len(xs) + 1].status = status /\ xt[Len(xs) + 1].side = side /\ xt[Len(xs) + 1].kind = kind
  BY DEF Placed
<1>3. QED
  BY <1>1, <1>2 DEF LiveIn

(* ... and an order is alive or not by its new status. *)
LEMMA TurnedLive ==
    ASSUME NEW xs \in Seq(OrderI), NEW xt, NEW x \in 1..Len(xs), NEW status,
           Turned(xs, xt, x, status), NEW s, NEW k
    PROVE  /\ status = "open" /\ xs[x].side = s /\ xs[x].kind = k => LiveIn(xt, s, k) = LiveIn(xs, s, k) \cup {x}
           /\ status # "open" => LiveIn(xt, s, k) = LiveIn(xs, s, k) \ {x}
           /\ ~(xs[x].side = s /\ xs[x].kind = k) => LiveIn(xt, s, k) = LiveIn(xs, s, k)
BY DEF Turned, LiveIn

(* The orders alive are finitely many. *)
LEMMA LiveFinite ==
    ASSUME NEW xs \in Seq(OrderI), NEW s, NEW k
    PROVE  IsFiniteSet(LiveIn(xs, s, k)) /\ LiveIn(xs, s, k) \subseteq 1..Len(xs)
<1>1. 1 \in Int /\ Len(xs) \in Int
  OBVIOUS
<1>2. IsFiniteSet(1..Len(xs))
  BY <1>1, FS_Interval
<1>3. LiveIn(xs, s, k) \in SUBSET (1..Len(xs))
  BY DEF LiveIn
<1>4. QED
  BY <1>2, <1>3, FS_Subset

(* The lots of the module are those. *)
LEMMA LiveLots ==
    ASSUME xord \in Seq(OrderI)
    PROVE  /\ \A s, k : Live(s, k) = LiveIn(xord, s, k)
           /\ \A X : LotsOf(X) = LotsIn(xord, X)
BY DEF Live, LiveIn, LotsOf, LotsIn
----------------------------------------------------------------------------
(* A step of the worker, and of nobody else. *)
ByWorker == WorkerStep /\ UNCHANGED tasks

(* The ways in which trading.orders changes.                                *)
RowWritten ==
    \/ /\ ByWorker /\ PersistOrder /\ InsertAllowed(rows) /\ w'.pc = "send" /\ w'.row = Len(rows) + 1
       /\ RowAdded(rows, rows', 0, IF w.h = "buy" THEN "buy" ELSE "sell", "market", "new",
                   IF w.h = "buy" THEN 1 ELSE w.bal)
    \/ /\ ByWorker /\ Lookup
       /\ \E x \in Matches(w.row) : LinkAllowed(rows, x) /\ RowLinked(rows, rows', w.row, x, "new")
    \/ /\ ByWorker /\ GiveUp
       /\ RowLinked(rows, rows', w.row, 0, "rejected")
    \/ /\ ByWorker /\ ConfirmOrder
       /\ LinkAllowed(rows, w.x) /\ RowLinked(rows, rows', w.row, w.x, w.resp)
    \/ /\ ByWorker /\ RecordOpenOrder
       /\ \E x \in w.todo : \/ Recorded(rows, x) /\ RowsStated(rows, rows', x, "open")
                            \/ /\ ~Recorded(rows, x) /\ xord[x].cid = 0
                               /\ RowAdded(rows, rows', x, xord[x].side, xord[x].kind, "open", xord[x].qty)
    \/ /\ ByWorker /\ PersistStop
       /\ LinkAllowed(rows, w.x) /\ RowAdded(rows, rows', w.x, xord[w.x].side, "stop", "open", xord[w.x].qty)
    \/ /\ \/ ByWorker /\ StoreCanceled
          \/ (StopsFetch \/ StopsStore) /\ UNCHANGED <<w, so>>
       /\ \E x \in 1..Len(xord) :
             /\ xord[x].kind = "stop"
             /\ \/ Recorded(rows, x) /\ RowsStated(rows, rows', x, xord[x].status)
                \/ ~Recorded(rows, x) /\ RowAdded(rows, rows', x, xord[x].side, "stop", xord[x].status, xord[x].qty)
    \/ /\ OrdersFetch
       /\ \E r \in so.todo : /\ xord[rows[r].xid].status # "transit"
                             /\ RowsStated(rows, rows', rows[r].xid, xord[rows[r].xid].status)

(* Nobody else writes it. *)
LEMMA RowWrites ==
    ASSUME IInv, [SyncNext]_vars
    PROVE  UNCHANGED rows \/ (UNCHANGED <<pos, wallet, xord, hold, pair, term>> /\ RowWritten)
<1>1. rows \in Seq(RowI) /\ xord \in Seq(OrderI) /\ w \in WorkerI /\ Len(xord) \in Nat
  BY DEF IInv, BookIn, WorkerIn
<1>2. ASSUME ByWorker PROVE UNCHANGED rows \/ (UNCHANGED <<pos, wallet, xord, hold, pair, term>> /\ RowWritten)
  <2>1. CASE PersistOrder /\ rows' # rows
    <3>1. /\ InsertAllowed(rows) /\ w'.pc = "send" /\ w'.row = Len(rows) + 1
          /\ rows' = Inserted(rows, IF w.h = "buy" THEN "buy" ELSE "sell", IF w.h = "buy" THEN 1 ELSE w.bal)
          /\ UNCHANGED <<pos, wallet, xord, hold, pair, term>>
      BY <1>1, <2>1 DEF PersistOrder, WorkerI, exchange, control
    <3>2. QED
      BY <1>1, <1>2, <2>1, <3>1, InsertedRow DEF RowWritten
  <2>2. CASE Lookup /\ rows' # rows
    <3>1. w.row \in 1..Len(rows) /\ rows[w.row].xid = 0 /\ UNCHANGED <<pos, wallet, xord, hold, pair, term>>
      BY <2>2 DEF Lookup, IInv, WorkerIn, exchange, control
    <3>2. PICK x \in Matches(w.row) : LinkAllowed(rows, x) /\ rows' = Linked(rows, w.row, x, "new")
      BY <2>2 DEF Lookup
    <3>3. RowLinked(rows, rows', w.row, x, "new")
      BY <1>1, <3>1, <3>2, LinkedRow
    <3>4. QED
      BY <1>2, <2>2, <3>1, <3>2, <3>3 DEF RowWritten
  <2>3. CASE GiveUp /\ rows' # rows
    <3>1. w.row \in 1..Len(rows) /\ rows[w.row].xid = 0 /\ UNCHANGED <<pos, wallet, xord, hold, pair, term>>
      BY <2>3 DEF GiveUp, IInv, WorkerIn, exchange, control
    <3>2. rows' = Linked(rows, w.row, 0, "rejected")
      BY <2>3 DEF GiveUp
    <3>3. RowLinked(rows, rows', w.row, 0, "rejected")
      BY <1>1, <3>1, <3>2, LinkedRow
    <3>4. QED
      BY <1>2, <2>3, <3>1, <3>3 DEF RowWritten
  <2>4. CASE ConfirmOrder /\ rows' # rows
    <3>1. w.row \in 1..Len(rows) /\ rows[w.row].xid = 0 /\ UNCHANGED <<pos, wallet, xord, hold, pair, term>>
      BY <2>4 DEF ConfirmOrder, IInv, WorkerIn, exchange, control
    <3>2. LinkAllowed(rows, w.x) /\ rows' = Linked(rows, w.row, w.x, w.resp)
      BY <2>4 DEF ConfirmOrder
    <3>3. RowLinked(rows, rows', w.row, w.x, w.resp)
      BY <1>1, <3>1, <3>2, LinkedRow
    <3>4. QED
      BY <1>2, <2>4, <3>1, <3>2, <3>3 DEF RowWritten
  <2>5. CASE RecordOpenOrder /\ rows' # rows
    <3> DEFINE x == Min(w.todo)
    <3>1. x \in w.todo /\ x \in Own(xord) /\ x \in 1..Len(xord) /\ UNCHANGED <<pos, wallet, xord, hold, pair, term>>
      <4>1. w.todo \in SUBSET Nat /\ w.todo # {} /\ w.todo \subseteq Own(xord)
        BY <2>5 DEF RecordOpenOrder, IInv, WorkerIn, BookIn, Own
      <4>2. QED
        BY <2>5, <4>1, MinPlace DEF RecordOpenOrder, Own, exchange, control
    <3>2. UpsertAllowed(rows, x, xord[x]) /\ rows' = Upserted(rows, x, xord[x], "open")
      BY <2>5 DEF RecordOpenOrder
    <3> HIDE DEF x
    <3>3. ~Recorded(rows, x) => xord[x].cid = 0
      BY <1>1, <3>1, <3>2 DEF UpsertAllowed, IInv, BookIn, OrderIn, OrderI, Own
    <3>4. \/ Recorded(rows, x) /\ RowsStated(rows, rows', x, "open")
          \/ ~Recorded(rows, x) /\ RowAdded(rows, rows', x, xord[x].side, xord[x].kind, "open", xord[x].qty)
      BY <1>1, <3>2, UpsertedRow
    <3>5. QED
      BY <1>2, <2>5, <3>1, <3>3, <3>4 DEF RowWritten
  <2>6. CASE PersistStop /\ rows' # rows
    <3>1. /\ xord[w.x].kind = "stop" /\ LinkAllowed(rows, w.x) /\ rows' = Upserted(rows, w.x, xord[w.x], "open")
          /\ UNCHANGED <<pos, wallet, xord, hold, pair, term>>
      BY <2>6 DEF PersistStop, IInv, WorkerIn, exchange, control
    <3>2. RowAdded(rows, rows', w.x, xord[w.x].side, "stop", "open", xord[w.x].qty)
      BY <1>1, <3>1, UpsertedRow DEF LinkAllowed
    <3>3. QED
      BY <1>2, <2>6, <3>1, <3>2 DEF RowWritten
  <2>7. CASE StoreCanceled /\ rows' # rows
    <3>1. /\ w.x \in 1..Len(xord) /\ xord[w.x].kind = "stop"
          /\ rows' = Upserted(rows, w.x, xord[w.x], xord[w.x].status)
          /\ UNCHANGED <<pos, wallet, xord, hold, pair, term>>
      BY <2>7 DEF StoreCanceled, IInv, WorkerIn, exchange, control
    <3>2. \/ Recorded(rows, w.x) /\ RowsStated(rows, rows', w.x, xord[w.x].status)
          \/ /\ ~Recorded(rows, w.x)
             /\ RowAdded(rows, rows', w.x, xord[w.x].side, "stop", xord[w.x].status, xord[w.x].qty)
      BY <1>1, <3>1, UpsertedRow
    <3>3. QED
      BY <1>2, <2>7, <3>1, <3>2 DEF RowWritten
  <2>8. CASE ~(\/ PersistOrder \/ Lookup \/ GiveUp \/ ConfirmOrder \/ RecordOpenOrder
               \/ PersistStop \/ StoreCanceled)
    BY <1>2, <2>8 DEF ByWorker, WorkerStep, Tick, CheckPending, CheckPosition, CheckOpenOrders, CheckBalance,
       SendOrder, CreatePosition, SettleBalance, SettleQuantity, ClosePosition, DropPosition, ListOpenOrders,
       DecideOnStop, ArmStop, RaisePosition, CancelStop, CheckTermination, ApplyDisable, database
  <2>9. QED
    BY <2>1, <2>2, <2>3, <2>4, <2>5, <2>6, <2>7, <2>8
<1>3. CASE OrdersFetch
  <2> DEFINE r == Max(so.todo)
             x == rows[r].xid
  <2>1. r \in so.todo /\ r \in 1..Len(rows)
    <3>1. so.todo \in SUBSET (1..Len(rows)) /\ so.todo # {} /\ Len(rows) \in Nat
      BY <1>1, <1>3 DEF OrdersFetch, IInv, OrdersIn
    <3>2. QED
      BY <3>1, MaxPlace
  <2>2. CASE UNCHANGED rows
    BY <2>2
  <2>3. CASE xord[x].status # "transit" /\ rows' = Upserted(rows, x, xord[x], xord[x].status)
    <3>1. Recorded(rows, x) /\ UNCHANGED <<pos, wallet, xord, hold, pair, term>>
      BY <1>1, <1>3, <2>1 DEF Recorded, OrdersFetch, exchange, control
    <3> HIDE DEF r, x
    <3>2. RowsStated(rows, rows', x, xord[x].status)
      BY <1>1, <2>3, <3>1, UpsertedRow
    <3>3. QED
      BY <1>3, <2>1, <2>3, <3>1, <3>2 DEF RowWritten, x
  <2>4. QED
    BY <1>3, <2>2, <2>3 DEF OrdersFetch
<1>4. CASE StopsFetch
  <2> DEFINE x == rows[Max(ss.todo)].xid
  <2>1. x \in 1..Len(xord) /\ xord[x].kind = "stop" /\ UNCHANGED <<pos, wallet, xord, hold, pair, term, w, so>>
    BY <1>4, StopsNextRow DEF StopsFetch, exchange, control
  <2>2. CASE rows' = Upserted(rows, x, xord[x], xord[x].status)
    <3> HIDE DEF x
    <3>1. \/ Recorded(rows, x) /\ RowsStated(rows, rows', x, xord[x].status)
          \/ ~Recorded(rows, x) /\ RowAdded(rows, rows', x, xord[x].side, "stop", xord[x].status, xord[x].qty)
      BY <1>1, <2>1, <2>2, UpsertedRow
    <3>2. QED
      BY <1>4, <2>1, <3>1 DEF RowWritten
  <2>3. QED
    BY <1>4, <2>2 DEF StopsFetch
<1>5. CASE StopsStore
  <2> DEFINE x == ss.x
  <2>1. x \in 1..Len(xord) /\ xord[x].kind = "stop" /\ UNCHANGED <<pos, wallet, xord, hold, pair, term, w, so>>
    BY <1>5 DEF StopsStore, IInv, StopsIn, exchange, control
  <2>2. CASE rows' = Upserted(rows, x, xord[x], xord[x].status)
    <3> HIDE DEF x
    <3>1. \/ Recorded(rows, x) /\ RowsStated(rows, rows', x, xord[x].status)
          \/ ~Recorded(rows, x) /\ RowAdded(rows, rows', x, xord[x].side, "stop", xord[x].status, xord[x].qty)
      BY <1>1, <2>1, <2>2, UpsertedRow
    <3>2. QED
      BY <1>5, <2>1, <3>1 DEF RowWritten
  <2>3. QED
    BY <1>5, <2>2 DEF StopsStore
<1>6. CASE ~ByWorker /\ ~OrdersFetch /\ ~StopsFetch /\ ~StopsStore
  BY <1>6 DEF SyncNext, Pair, Exchange, StartWorker, UpdateWorker, Manage, Restarted, ByWorker,
     SyncOrders, OrdersStart, OrdersCreate, OrdersBalance, OrdersQuantity,
     SyncPositions, PositionsStart, PositionsRead, PositionsWallet, PositionsDelete, PositionsAdjust,
     PositionsPairs, PositionsOrders, PositionsAdopt,
     SyncStopOrders, StopsStart, StopsRead, StopsWallet, StopsRows, StopsLatest, StopsCancel, StopsRearm,
     Crash, CrashWorker, vars, pairVars, database
<1>7. QED
  BY <1>2, <1>3, <1>4, <1>5, <1>6

(* The ways in which the exchange moves.                                    *)
ExchangeAlone == UNCHANGED <<strat, w, so, sp, ss>>
OrderPlaced ==
    \/ /\ ByWorker /\ SendOrder
       /\ \E status \in {"transit", "open", "closed"} :
             /\ status = "transit" => "late" \in Faults
             /\ rows[w.row].side = "sell" => Free >= rows[w.row].qty
             /\ Placed(xord, xord', w.row, rows[w.row].side, "market", rows[w.row].qty, status)
             /\ hold' = IF status # "closed" THEN hold ELSE
                        IF rows[w.row].side = "buy" THEN hold + rows[w.row].qty ELSE hold - rows[w.row].qty
    \/ /\ ByWorker /\ ArmStop
       /\ Free >= w.pos.qty /\ Placed(xord, xord', 0, "sell", "stop", w.pos.qty, "open") /\ hold' = hold
    \/ /\ ExchangeAlone /\ "manual" \in Faults
       /\ \E side \in Sides, kind \in Kinds :
             /\ side = "sell" => Free >= 1
             /\ Placed(xord, xord', Unnamed, side, kind, 1, "closed")
             /\ hold' = IF side = "buy" THEN hold + 1 ELSE hold - 1
OrderTurned(x) ==
    \/ /\ ExchangeAlone /\ xord[x].status = "open" /\ xord[x].kind = "market"
       /\ Turned(xord, xord', x, "closed")
       /\ hold' = IF xord[x].side = "buy" THEN hold + xord[x].qty ELSE hold - xord[x].qty
    \/ /\ ExchangeAlone /\ xord[x].status = "open" /\ xord[x].kind = "stop" /\ xord[x].side = "sell"
       /\ hold - LotsOf(Live("sell", "market")) >= xord[x].qty
       /\ Turned(xord, xord', x, "closed") /\ hold' = hold - xord[x].qty
    \/ /\ ExchangeAlone /\ xord[x].status = "open"
       /\ Turned(xord, xord', x, "canceled")
       /\ hold' = hold \/ (xord[x].side = "buy" /\ hold' = hold + xord[x].qty)
    \/ /\ ExchangeAlone /\ xord[x].status = "transit"
       /\ \/ Turned(xord, xord', x, "canceled")
          \/ Turned(xord, xord', x, "open") /\ (xord[x].side = "sell" => ~(Free < xord[x].qty))
       /\ hold' = hold
    \/ /\ \/ ByWorker /\ CancelStop /\ x = w.x
          \/ StopsCancel /\ UNCHANGED w
       /\ xord[x].status = "open" /\ xord[x].kind = "stop"
       /\ Turned(xord, xord', x, "canceled") /\ hold' = hold

(* The exchange admits a market order. *)
LEMMA AcceptedOrder ==
    ASSUME xord \in Seq(OrderI), NEW side, NEW qty, NEW cid, NEW status, AcceptMarket(side, qty, cid, status)
    PROVE  /\ side = "sell" => Free >= qty
           /\ Placed(xord, xord', cid, side, "market", qty, status)
           /\ hold' = IF status # "closed" THEN hold ELSE IF side = "buy" THEN hold + qty ELSE hold - qty
<1>1. xord' = Append(xord, [cid |-> cid, side |-> side, kind |-> "market", qty |-> qty, status |-> status])
  BY DEF AcceptMarket
<1>2. Placed(xord, xord', cid, side, "market", qty, status)
  BY <1>1, AppendedOrder
<1>3. QED
  BY <1>2 DEF AcceptMarket

(* Only these steps touch the book of the exchange or the account. *)
LEMMA BookWrites ==
    ASSUME IInv, [SyncNext]_vars
    PROVE  \/ UNCHANGED <<xord, hold>>
           \/ /\ UNCHANGED <<rows, pos, wallet, pair, term>>
              /\ OrderPlaced \/ \E x \in 1..Len(xord) : OrderTurned(x)
<1>1. xord \in Seq(OrderI) /\ Len(xord) \in Nat /\ DOMAIN xord = 1..Len(xord)
  BY DEF IInv, BookIn
<1> DEFINE Goal == \/ UNCHANGED <<xord, hold>>
                   \/ /\ UNCHANGED <<rows, pos, wallet, pair, term>>
                      /\ OrderPlaced \/ \E x \in 1..Len(xord) : OrderTurned(x)
<1>2. ASSUME ByWorker PROVE Goal
  <2>1. CASE SendOrder /\ ~UNCHANGED <<xord, hold>>
    <3>1. PICK status \in {"transit", "open", "closed"} :
             /\ status = "transit" => "late" \in Faults
             /\ AcceptMarket(rows[w.row].side, rows[w.row].qty, w.row, status)
      BY <2>1 DEF SendOrder, Fails, exchange
    <3>2. UNCHANGED <<rows, pos, wallet, pair, term>>
      BY <2>1 DEF SendOrder, database, control
    <3>3. QED
      BY <1>1, <1>2, <2>1, <3>1, <3>2, AcceptedOrder DEF OrderPlaced
  <2>2. CASE ArmStop /\ ~UNCHANGED <<xord, hold>>
    <3>1. /\ Free >= w.pos.qty /\ hold' = hold
          /\ xord' = Append(xord, [cid |-> 0, side |-> "sell", kind |-> "stop",
                                   qty |-> w.pos.qty, status |-> "open"])
          /\ UNCHANGED <<rows, pos, wallet, pair, term>>
      BY <2>2 DEF ArmStop, database, control
    <3>2. Placed(xord, xord', 0, "sell", "stop", w.pos.qty, "open")
      BY <1>1, <3>1, AppendedOrder
    <3>3. QED
      BY <1>2, <2>2, <3>1, <3>2 DEF OrderPlaced
  <2>3. CASE CancelStop /\ ~UNCHANGED <<xord, hold>>
    <3>1. /\ w.x \in 1..Len(xord) /\ xord[w.x].kind = "stop" /\ xord[w.x].status = "open"
          /\ Settled(w.x, "canceled") /\ hold' = hold /\ UNCHANGED <<rows, pos, wallet, pair, term>>
      BY <2>3 DEF CancelStop, IInv, WorkerIn, database, control
    <3>2. Turned(xord, xord', w.x, "canceled")
      BY <1>1, <3>1, SettledOrder
    <3>3. QED
      BY <1>2, <2>3, <3>1, <3>2 DEF OrderTurned
  <2>4. CASE ~(SendOrder \/ ArmStop \/ CancelStop)
    BY <1>2, <2>4 DEF ByWorker, WorkerStep, Tick, CheckPending, Lookup, GiveUp, CheckPosition,
       CheckOpenOrders, CheckBalance, PersistOrder, ConfirmOrder, CreatePosition, SettleBalance,
       SettleQuantity, ClosePosition, DropPosition, ListOpenOrders, RecordOpenOrder, DecideOnStop,
       PersistStop, RaisePosition, StoreCanceled, CheckTermination, ApplyDisable, exchange
  <2>5. QED
    BY <2>1, <2>2, <2>3, <2>4
<1>3. ASSUME Exchange, UNCHANGED tasks PROVE Goal
  <2>1. ExchangeAlone /\ UNCHANGED <<rows, pos, wallet, pair, term>>
    BY <1>3 DEF Exchange, ExchangeAlone, tasks, database, control
  <2>2. ASSUME NEW x \in 1..Len(xord), Fill(x) PROVE Goal
    <3>1. /\ xord[x].status = "open" /\ xord[x].kind = "market" /\ Settled(x, "closed")
          /\ hold' = IF xord[x].side = "buy" THEN hold + xord[x].qty ELSE hold - xord[x].qty
      BY <2>2 DEF Fill, Live
    <3>2. Turned(xord, xord', x, "closed")
      BY <1>1, <3>1, SettledOrder
    <3>3. QED
      BY <2>1, <3>1, <3>2 DEF OrderTurned
  <2>3. ASSUME NEW x \in 1..Len(xord), Trigger(x) PROVE Goal
    <3>1. xord[x].status = "open" /\ xord[x].kind = "stop" /\ xord[x].side = "sell"
      BY <2>3 DEF Trigger, Live
    <3>2. CASE /\ hold - LotsOf(Live("sell", "market")) >= xord[x].qty
               /\ Settled(x, "closed") /\ hold' = hold - xord[x].qty
      BY <1>1, <2>1, <3>1, <3>2, SettledOrder DEF OrderTurned
    <3>3. CASE Settled(x, "canceled") /\ UNCHANGED hold
      BY <1>1, <2>1, <3>1, <3>3, SettledOrder DEF OrderTurned
    <3>4. QED
      BY <2>3, <3>2, <3>3 DEF Trigger
  <2>4. ASSUME NEW x \in 1..Len(xord), CancelOutside(x) PROVE Goal
    <3>1. /\ xord[x].status = "open" /\ Settled(x, "canceled")
          /\ hold' = hold \/ (xord[x].side = "buy" /\ hold' = hold + xord[x].qty)
      BY <2>4 DEF CancelOutside
    <3>2. QED
      BY <1>1, <2>1, <3>1, SettledOrder DEF OrderTurned
  <2>5. ASSUME NEW x \in 1..Len(xord), Deliver(x) PROVE Goal
    <3>1. CASE xord[x].side = "sell" /\ Free < xord[x].qty
      <4>1. xord[x].status = "transit" /\ Settled(x, "canceled") /\ hold' = hold
        BY <2>5, <3>1 DEF Deliver
      <4>2. QED
        BY <1>1, <2>1, <4>1, SettledOrder DEF OrderTurned
    <3>2. CASE ~(xord[x].side = "sell" /\ Free < xord[x].qty)
      <4>1. xord[x].status = "transit" /\ Settled(x, "open") /\ hold' = hold
        BY <2>5, <3>2 DEF Deliver
      <4>2. QED
        BY <1>1, <2>1, <3>2, <4>1, SettledOrder DEF OrderTurned
    <3>3. QED
      BY <3>1, <3>2
  <2>6. ASSUME ManualTrade PROVE Goal
    <3>1. PICK side \in Sides, kind \in Kinds :
                 /\ xord' = Append(xord, [cid |-> Unnamed, side |-> side, kind |-> kind, qty |-> 1,
                                          status |-> "closed"])
                 /\ side = "sell" => Free >= 1
                 /\ hold' = IF side = "buy" THEN hold + 1 ELSE hold - 1
      BY <2>6 DEF ManualTrade
    <3>2. Placed(xord, xord', Unnamed, side, kind, 1, "closed")
      BY <1>1, <3>1, AppendedOrder
    <3>3. QED
      BY <2>1, <2>6, <3>1, <3>2 DEF OrderPlaced, ManualTrade
  <2>7. QED
    BY <1>1, <1>3, <2>2, <2>3, <2>4, <2>5, <2>6 DEF Exchange
<1>4. CASE StopsCancel
  <2>1. CASE UNCHANGED xord
    BY <1>4, <2>1 DEF StopsCancel
  <2>2. CASE xord[ss.x].status = "open" /\ Settled(ss.x, "canceled")
    <3>1. /\ ss.x \in 1..Len(xord) /\ xord[ss.x].kind = "stop" /\ hold' = hold
          /\ UNCHANGED <<rows, pos, wallet, pair, term, w>>
      BY <1>4 DEF StopsCancel, IInv, StopsIn, database, control
    <3>2. Turned(xord, xord', ss.x, "canceled")
      BY <1>1, <2>2, <3>1, SettledOrder
    <3>3. QED
      BY <1>4, <2>2, <3>1, <3>2 DEF OrderTurned
  <2>3. QED
    BY <1>4, <2>1, <2>2 DEF StopsCancel
<1>5. CASE ~ByWorker /\ ~(Exchange /\ UNCHANGED tasks) /\ ~StopsCancel
  BY <1>5 DEF SyncNext, Pair, StartWorker, UpdateWorker, Manage, Restarted, ByWorker,
     SyncOrders, OrdersStart, OrdersFetch, OrdersCreate, OrdersBalance, OrdersQuantity,
     SyncPositions, PositionsStart, PositionsRead, PositionsWallet, PositionsDelete, PositionsAdjust,
     PositionsPairs, PositionsOrders, PositionsAdopt,
     SyncStopOrders, StopsStart, StopsRead, StopsWallet, StopsRows, StopsFetch, StopsLatest, StopsStore,
     StopsRearm, Crash, CrashWorker, vars, pairVars, exchange
<1>6. QED
  BY <1>2, <1>3, <1>4, <1>5

(* What SyncPositions and SyncStopOrders write back of the position as read. *)
AdjustedCopy == [sp.pos EXCEPT !.qty = sp.wallet, !.sl = FALSE]
RearmedCopy  == [ss.pos EXCEPT !.qty = ss.wallet, !.sl = FALSE]

(* The ways in which the position changes.                                  *)
PositionStored ==
    \/ /\ ByWorker /\ CreatePosition /\ CreateAllowed(pos, w.row)
       /\ pos' = CreatedPosition(w.row, rows[w.row].qty) /\ w'.pc = "settle"
    \/ /\ ByWorker /\ SettleQuantity /\ UpdateAllowed(pos, QuantityOnly(w.bal))
       /\ pos' = UpdatedPosition(pos, QuantityOnly(w.bal))
    \/ ByWorker /\ (ClosePosition \/ DropPosition) /\ pos' = NoPosition
    \/ /\ ByWorker /\ RaisePosition /\ UpdateAllowed(pos, w.pos)
       /\ pos' = UpdatedPosition(pos, w.pos)
    \/ /\ OrdersCreate /\ CreateAllowed(pos, so.row) /\ UNCHANGED w
       /\ pos' = CreatedPosition(so.row, rows[so.row].qty) /\ so'.pc = "balance"
    \/ /\ OrdersQuantity /\ UpdateAllowed(pos, QuantityOnly(so.bal)) /\ UNCHANGED w
       /\ pos' = UpdatedPosition(pos, QuantityOnly(so.bal))
    \/ PositionsDelete /\ pos' = NoPosition /\ UNCHANGED w
    \/ /\ PositionsAdjust /\ UNCHANGED w
       /\ UpdateAllowed(pos, AdjustedCopy) /\ pos' = UpdatedPosition(pos, AdjustedCopy)
    \/ PositionsAdopt /\ CreateAllowed(pos, 0) /\ pos' = CreatedPosition(0, sp.wallet) /\ UNCHANGED w
    \/ /\ StopsRearm /\ UNCHANGED w /\ ss.pos.st = "known" /\ ss.wallet > 0
       /\ UpdateAllowed(pos, RearmedCopy) /\ pos' = UpdatedPosition(pos, RearmedCopy)

(* Nobody else writes it. *)
LEMMA PositionWrites ==
    ASSUME IInv, [SyncNext]_vars
    PROVE  UNCHANGED pos \/ (UNCHANGED <<rows, xord, hold, pair, term>> /\ PositionStored)
<1> DEFINE Goal == UNCHANGED pos \/ (UNCHANGED <<rows, xord, hold, pair, term>> /\ PositionStored)
<1>1. ASSUME ByWorker PROVE Goal
  <2>1. w \in WorkerI
    BY DEF IInv, WorkerIn
  <2>2. CreatePosition => Goal
    BY <1>1, <2>1, GotoMoves DEF CreatePosition, PositionStored, Moves, exchange, control
  <2>3. SettleQuantity => Goal
    BY <1>1 DEF SettleQuantity, PositionStored, exchange, control
  <2>4. ClosePosition \/ DropPosition => Goal
    BY <1>1 DEF ClosePosition, DropPosition, PositionStored, exchange, control
  <2>5. RaisePosition => Goal
    BY <1>1 DEF RaisePosition, PositionStored, exchange, control
  <2>6. CASE ~(CreatePosition \/ SettleQuantity \/ ClosePosition \/ DropPosition \/ RaisePosition)
    BY <1>1, <2>6 DEF ByWorker, WorkerStep, Tick, CheckPending, Lookup, GiveUp, CheckPosition,
       CheckOpenOrders, CheckBalance, PersistOrder, SendOrder, ConfirmOrder, SettleBalance,
       ListOpenOrders, RecordOpenOrder, DecideOnStop, ArmStop, PersistStop, CancelStop,
       StoreCanceled, CheckTermination, ApplyDisable, database
  <2>7. QED
    BY <2>2, <2>3, <2>4, <2>5, <2>6
<1>2. OrdersCreate => Goal
  <2>1. so \in OrdersI
    BY DEF IInv, OrdersIn
  <2>2. QED
    BY <2>1 DEF OrdersCreate, PositionStored, OrdersI, exchange, control
<1>3. OrdersQuantity => Goal
  BY DEF OrdersQuantity, PositionStored, exchange, control
<1>4. PositionsDelete \/ PositionsAdjust \/ PositionsAdopt => Goal
  BY DEF PositionsDelete, PositionsAdjust, PositionsAdopt, PositionStored, AdjustedCopy, exchange, control
<1>5. StopsRearm => Goal
  BY DEF StopsRearm, PositionStored, RearmedCopy, exchange, control
<1>6. CASE /\ ~ByWorker /\ ~OrdersCreate /\ ~OrdersQuantity /\ ~StopsRearm
           /\ ~(PositionsDelete \/ PositionsAdjust \/ PositionsAdopt)
  BY <1>6 DEF SyncNext, Pair, Exchange, StartWorker, UpdateWorker, Manage, Restarted, ByWorker,
     SyncOrders, OrdersStart, OrdersFetch, OrdersBalance,
     SyncPositions, PositionsStart, PositionsRead, PositionsWallet, PositionsPairs, PositionsOrders,
     SyncStopOrders, StopsStart, StopsRead, StopsWallet, StopsRows, StopsFetch, StopsLatest, StopsCancel,
     StopsStore, Crash, CrashWorker, vars, pairVars, database
<1>7. QED
  BY <1>1, <1>2, <1>3, <1>4, <1>5, <1>6

(* A position that is read into a local. *)
Copied(p, q, from) == q = NoPosition \/ q = from \/ (q.st = p.st /\ q.order = p.order /\ q.qty = p.qty)

(* Balances and positions in locals are copies of the account's, of the     *)
(* stored balance and of the stored position.                               *)
Copying ==
    /\ wallet' \in {wallet, hold}
    /\ w'.bal \in {w.bal, 0, hold} /\ so'.bal \in {so.bal, 0, hold}
    /\ sp'.wallet \in {sp.wallet, 0, wallet} /\ ss'.wallet \in {ss.wallet, 0, wallet}
    /\ (w'.pos = pos /\ pos.st = "known") \/ Copied(w.pos, w'.pos, NoPosition)
    /\ Copied(sp.pos, sp'.pos, pos) /\ Copied(ss.pos, ss'.pos, pos)

(* The locals get nothing else. *)
LEMMA Copies == ASSUME IInv, [SyncNext]_vars PROVE Copying
<1> USE DEF Copied
<1>1. /\ w \in WorkerI /\ w.pos \in PositionI /\ so \in OrdersI
      /\ sp \in PositionsI /\ sp.pos \in PositionI /\ ss \in StopsI /\ ss.pos \in PositionI
  BY DEF IInv, WorkerIn, WorkerI, OrdersIn, PositionsIn, PositionsI, StopsIn, StopsI
<1>2. Idle.bal = 0 /\ Idle.pos = NoPosition /\ PositionsIdle.wallet = 0 /\ PositionsIdle.pos = NoPosition
      /\ StopsIdle.wallet = 0 /\ StopsIdle.pos = NoPosition /\ OrdersIdle.bal = 0
  BY DEF Idle, PositionsIdle, StopsIdle, OrdersIdle
<1>3. ASSUME ByWorker PROVE Copying
  <2>1. UNCHANGED <<so, sp, ss>>
    BY <1>3 DEF ByWorker, tasks
  <2> DEFINE Fine == /\ w'.bal \in {w.bal, 0, hold}
                     /\ (w'.pos = pos /\ pos.st = "known") \/ Copied(w.pos, w'.pos, NoPosition)
                     /\ wallet' \in {wallet, hold}
  <2> USE <1>1, GotoMoves, ReturnLeaves, ErrorLeaves DEF Moves, Leaves, database
  <2>2. Tick => Fine
    BY DEF Tick, Idle
  <2>3. CheckPending \/ Lookup \/ GiveUp \/ CheckOpenOrders => Fine
    BY DEF CheckPending, Lookup, GiveUp, CheckOpenOrders, WorkerI
  <2>4. CheckPosition => Fine
    BY DEF CheckPosition, WorkerI
  <2>5. CheckBalance \/ SettleBalance => Fine
    BY DEF CheckBalance, SettleBalance, WorkerI
  <2>6. PersistOrder \/ SendOrder \/ ConfirmOrder => Fine
    BY DEF PersistOrder, SendOrder, ConfirmOrder, WorkerI
  <2>7. CreatePosition \/ SettleQuantity \/ ClosePosition \/ DropPosition \/ RaisePosition => Fine
    BY DEF CreatePosition, SettleQuantity, ClosePosition, DropPosition, RaisePosition
  <2>8. ListOpenOrders \/ RecordOpenOrder \/ CancelStop \/ StoreCanceled \/ ArmStop => Fine
    BY DEF ListOpenOrders, RecordOpenOrder, CancelStop, StoreCanceled, ArmStop, WorkerI
  <2>9. w' = [w EXCEPT !.pc = "raise", !.pos.sl = TRUE] => w'.bal = w.bal /\ Copied(w.pos, w'.pos, NoPosition)
    BY DEF WorkerI, PositionI
  <2>10. DecideOnStop \/ PersistStop => Fine
    BY <2>9 DEF DecideOnStop, PersistStop
  <2>11. CheckTermination \/ ApplyDisable => Fine
    BY DEF CheckTermination, ApplyDisable, WorkerI, Idle
  <2>12. Fine
    BY <1>3, <2>2, <2>3, <2>4, <2>5, <2>6, <2>7, <2>8, <2>10, <2>11 DEF ByWorker, WorkerStep
  <2>13. QED
    BY <2>1, <2>12 DEF Copying
<1>4. CASE (Exchange \/ StartWorker \/ UpdateWorker \/ Manage) /\ UNCHANGED tasks
  BY <1>2, <1>4 DEF Exchange, StartWorker, UpdateWorker, Manage, Restarted, tasks, database, Copying
<1>5. CASE Crash
  BY <1>2, <1>5 DEF Crash, CrashWorker, Restarted, database, Copying
<1>6. CASE SyncOrders
  <2>1. so'.bal \in {so.bal, 0, hold}
    BY <1>1, <1>2, <1>6 DEF SyncOrders, OrdersStart, OrdersFetch, OrdersNext, OrdersCreate, OrdersBalance,
       OrdersQuantity, OrdersI, OrdersIdle
  <2>2. UNCHANGED <<w, sp, ss>> /\ wallet' \in {wallet, hold}
    BY <1>6 DEF SyncOrders, OrdersStart, OrdersFetch, OrdersCreate, OrdersBalance, OrdersQuantity, pairVars
  <2>3. QED
    BY <2>1, <2>2 DEF Copying
<1>7. CASE SyncPositions
  <2>1. sp'.wallet \in {sp.wallet, 0, wallet} /\ Copied(sp.pos, sp'.pos, pos)
    BY <1>1, <1>2, <1>7 DEF SyncPositions, PositionsStart, PositionsRead, PositionsWallet, PositionsDelete,
       PositionsAdjust, PositionsPairs, PositionsOrders, PositionsAdopt, PositionsI, PositionsIdle
  <2>2. UNCHANGED <<w, so, ss>> /\ wallet' \in {wallet, hold}
    BY <1>7 DEF SyncPositions, PositionsStart, PositionsRead, PositionsWallet, PositionsDelete,
       PositionsAdjust, PositionsPairs, PositionsOrders, PositionsAdopt, pairVars
  <2>3. QED
    BY <2>1, <2>2 DEF Copying
<1>8. CASE SyncStopOrders
  <2>1. ss'.wallet \in {ss.wallet, 0, wallet} /\ Copied(ss.pos, ss'.pos, pos)
    BY <1>1, <1>2, <1>8 DEF SyncStopOrders, StopsStart, StopsRead, StopsWallet, StopsRows, StopsFetch,
       StopsLatest, StopsDropped, StopsCancel, StopsStore, StopsRearm, StopsI, StopsIdle
  <2>2. UNCHANGED <<w, so, sp>> /\ wallet' \in {wallet, hold}
    BY <1>8 DEF SyncStopOrders, StopsStart, StopsRead, StopsWallet, StopsRows, StopsFetch,
       StopsLatest, StopsCancel, StopsStore, StopsRearm, pairVars, database
  <2>3. QED
    BY <2>1, <2>2 DEF Copying
<1>9. CASE UNCHANGED vars
  BY <1>9 DEF vars, pairVars, tasks, Copying
<1>10. QED
  BY <1>3, <1>4, <1>5, <1>6, <1>7, <1>8, <1>9 DEF SyncNext, Pair, ByWorker
----------------------------------------------------------------------------
(* The lots of the open orders of one side and kind.                        *)
OfferedIn(xs, s, k) == LotsIn(xs, LiveIn(xs, s, k))
CountedIn(xs) == \A x \in 1..Len(xs) : xs[x].qty \in Nat

(* They are a number. *)
LEMMA OfferedNat ==
    ASSUME NEW xs \in Seq(OrderI), CountedIn(xs), NEW s, NEW k
    PROVE  OfferedIn(xs, s, k) \in Nat
<1>1. IsFiniteSet(LiveIn(xs, s, k)) /\ LiveIn(xs, s, k) \subseteq 1..Len(xs)
  BY LiveFinite
<1>2. QED
  BY <1>1, LotsFinite DEF CountedIn, OfferedIn

(* A new order adds its lots when it is open. *)
LEMMA OfferedPlaced ==
    ASSUME NEW xs \in Seq(OrderI), NEW xt \in Seq(OrderI), NEW cid, NEW side, NEW kind, NEW qty \in Nat, NEW status,
           Placed(xs, xt, cid, side, kind, qty, status), CountedIn(xs), NEW s, NEW k
    PROVE  /\ CountedIn(xt)
           /\ OfferedIn(xt, s, k) = OfferedIn(xs, s, k)
                + (IF status = "open" /\ side = s /\ kind = k THEN qty ELSE 0)
<1> DEFINE n == Len(xs) + 1
           old == LiveIn(xs, s, k)
<1>1. /\ Len(xt) = n /\ \A x \in 1..Len(xs) : xt[x] = xs[x] /\ xs[x].qty = xt[x].qty
      /\ xt[n].qty = qty /\ Len(xs) \in Nat
  BY DEF Placed
<1>2. CountedIn(xt)
  BY <1>1 DEF CountedIn
<1>3. IsFiniteSet(old) /\ old \subseteq 1..Len(xs) /\ n \notin old /\ LotsIn(xs, old) \in Nat
  BY LiveFinite, PlacedLive, OfferedNat DEF OfferedIn
<1>4. LotsIn(xs, old) = LotsIn(xt, old)
  <2>1. \A x \in old : xs[x].qty = xt[x].qty
    BY <1>1, <1>3
  <2> HIDE DEF old
  <2>2. QED
    BY <2>1, LotsSame
<1>5. CASE status = "open" /\ side = s /\ kind = k
  <2>1. LiveIn(xt, s, k) = old \cup {n}
    BY <1>5, PlacedLive
  <2>2. IsFiniteSet(old \cup {n}) /\ (old \cup {n}) \ {n} = old
    BY <1>3, FS_AddElement
  <2>3. \A x \in old \cup {n} : xt[x].qty \in Nat
    BY <1>1, <1>2, <1>3 DEF CountedIn
  <2> HIDE DEF old, n
  <2>4. LotsIn(xt, old \cup {n}) = LotsIn(xt, old) + xt[n].qty
    BY <2>2, <2>3, LotsSplit
  <2>5. QED
    BY <1>1, <1>2, <1>4, <1>5, <2>1, <2>4 DEF OfferedIn, old
<1>6. CASE ~(status = "open" /\ side = s /\ kind = k)
  <2>1. LiveIn(xt, s, k) = old
    BY <1>6, PlacedLive
  <2>2. QED
    BY <1>2, <1>3, <1>4, <1>6, <2>1 DEF OfferedIn
<1>7. QED
  BY <1>5, <1>6

(* An order adds or takes away its lots when it opens or closes. *)
LEMMA OfferedTurned ==
    ASSUME NEW xs \in Seq(OrderI), NEW xt \in Seq(OrderI), NEW x \in 1..Len(xs), NEW status,
           Turned(xs, xt, x, status), CountedIn(xs), NEW s, NEW k
    PROVE  /\ CountedIn(xt)
           /\ xs[x].side = s /\ xs[x].kind = k =>
                 /\ xs[x].status = "open" /\ status # "open" =>
                       OfferedIn(xt, s, k) = OfferedIn(xs, s, k) - xs[x].qty
                 /\ xs[x].status # "open" /\ status = "open" =>
                       OfferedIn(xt, s, k) = OfferedIn(xs, s, k) + xs[x].qty
                 /\ xs[x].status # "open" /\ status # "open" =>
                       OfferedIn(xt, s, k) = OfferedIn(xs, s, k)
           /\ ~(xs[x].side = s /\ xs[x].kind = k) => OfferedIn(xt, s, k) = OfferedIn(xs, s, k)
<1> DEFINE old == LiveIn(xs, s, k)
           new == LiveIn(xt, s, k)
<1>1. Len(xt) = Len(xs) /\ \A y \in 1..Len(xs) : xt[y].qty = xs[y].qty
  BY DEF Turned
<1>2. CountedIn(xt)
  BY <1>1 DEF CountedIn
<1>3. /\ IsFiniteSet(old) /\ old \subseteq 1..Len(xs) /\ IsFiniteSet(new) /\ new \subseteq 1..Len(xs)
      /\ LotsIn(xs, old) \in Nat /\ LotsIn(xt, new) \in Nat
  <2>1. new \subseteq 1..Len(xs)
    BY <1>1, LiveFinite
  <2>2. QED
    BY <1>2, <2>1, LiveFinite, OfferedNat DEF OfferedIn
<1>4. \A X : X \subseteq 1..Len(xs) => LotsIn(xs, X) = LotsIn(xt, X)
  <2>1. ASSUME NEW X, X \subseteq 1..Len(xs) PROVE LotsIn(xs, X) = LotsIn(xt, X)
    <3>1. \A y \in X : xs[y].qty = xt[y].qty
      BY <1>1, <2>1
    <3>2. QED
      BY <3>1, LotsSame
  <2>2. QED
    BY <2>1
<1>5. x \in old <=> xs[x].status = "open" /\ xs[x].side = s /\ xs[x].kind = k
  BY DEF LiveIn
<1>6. CASE xs[x].side = s /\ xs[x].kind = k /\ xs[x].status = "open" /\ status # "open"
  <2>1. new = old \ {x} /\ x \in old
    BY <1>5, <1>6, TurnedLive
  <2>2. \A y \in old : xs[y].qty \in Nat
    BY <1>3 DEF CountedIn
  <2> HIDE DEF old, new
  <2>3. LotsIn(xs, old) = LotsIn(xs, old \ {x}) + xs[x].qty
    BY <1>3, <2>1, <2>2, LotsSplit
  <2>4. LotsIn(xs, new) = LotsIn(xt, new) /\ xs[x].qty \in Nat
    BY <1>3, <1>4 DEF CountedIn
  <2>5. LotsIn(xt, new) = LotsIn(xs, old) - xs[x].qty
    BY <1>3, <2>1, <2>3, <2>4
  <2>6. QED
    BY <1>2, <1>6, <2>5 DEF OfferedIn, old, new
<1>7. CASE xs[x].side = s /\ xs[x].kind = k /\ xs[x].status # "open" /\ status = "open"
  <2>1. new = old \cup {x} /\ x \notin old
    BY <1>5, <1>7, TurnedLive
  <2>2. \A y \in new : xt[y].qty \in Nat
    BY <1>1, <1>3 DEF CountedIn
  <2> HIDE DEF old, new
  <2>3. x \in new /\ new \ {x} = old
    BY <2>1
  <2>4. LotsIn(xt, new) = LotsIn(xt, old) + xt[x].qty
    BY <1>3, <2>2, <2>3, LotsSplit
  <2>5. LotsIn(xs, old) = LotsIn(xt, old) /\ xt[x].qty = xs[x].qty
    BY <1>1, <1>3, <1>4
  <2>6. QED
    BY <1>2, <1>7, <2>4, <2>5 DEF OfferedIn, old, new
<1>8. CASE \/ ~(xs[x].side = s /\ xs[x].kind = k)
           \/ xs[x].status # "open" /\ status # "open"
  <2>1. new = old
    <3>1. CASE ~(xs[x].side = s /\ xs[x].kind = k)
      BY <3>1 DEF Turned, LiveIn
    <3>2. CASE xs[x].status # "open" /\ status # "open"
      <4>1. new = old \ {x} /\ x \notin old
        BY <1>5, <3>2, TurnedLive
      <4>2. QED
        BY <4>1
    <3>3. QED
      BY <1>8, <3>1, <3>2
  <2> HIDE DEF old, new
  <2>2. LotsIn(xs, old) = LotsIn(xt, new)
    BY <1>3, <1>4, <2>1
  <2>3. QED
    BY <1>2, <1>8, <2>2 DEF OfferedIn, old, new
<1>9. CASE xs[x].side = s /\ xs[x].kind = k /\ xs[x].status = "open" /\ status = "open"
  BY <1>2, <1>9
<1>10. QED
  BY <1>6, <1>7, <1>8, <1>9
----------------------------------------------------------------------------
(* The accounts: quantities are never negative, the account never offers    *)
(* more lots than it holds.                                                 *)
RowsCounted   == \A r \in 1..Len(rows) : rows[r].qty \in Nat /\ rows[r].status # "transit"
OrdersCounted == /\ CountedIn(xord)
                 /\ \A x \in 1..Len(xord) : xord[x].status = "transit" => xord[x].kind = "market"
LocalsCounted == /\ pos.qty \in Nat /\ w.pos.qty \in Nat /\ sp.pos.qty \in Nat /\ ss.pos.qty \in Nat
                 /\ wallet \in Nat /\ w.bal \in Nat /\ so.bal \in Nat /\ sp.wallet \in Nat /\ ss.wallet \in Nat
NeverShort    == hold \in Nat /\ OfferedIn(xord, "sell", "market") <= hold
Controlled    == term \in BOOLEAN /\ pair \in {"enabled", "pending_disabled", "disabled"}

Accounted == RowsCounted /\ OrdersCounted /\ LocalsCounted /\ NeverShort /\ Controlled

(* What is free is at most what is not offered in the market. *)
LEMMA FreeBound ==
    ASSUME IInv, OrdersCounted
    PROVE  /\ Free \in Int /\ Free <= hold - OfferedIn(xord, "sell", "market")
           /\ OfferedIn(xord, "sell", "market") \in Nat
<1>1. xord \in Seq(OrderI) /\ CountedIn(xord) /\ hold \in Int
  BY DEF IInv, BookIn, OrdersCounted
<1>2. OfferedIn(xord, "sell", "market") \in Nat /\ OfferedIn(xord, "sell", "stop") \in Nat
  BY <1>1, OfferedNat
<1>3. /\ LotsOf(Live("sell", "market")) = OfferedIn(xord, "sell", "market")
      /\ LotsOf(Live("sell", "stop")) = OfferedIn(xord, "sell", "stop")
  BY <1>1, LiveLots DEF OfferedIn
<1> DEFINE mk == OfferedIn(xord, "sell", "market")
           st == OfferedIn(xord, "sell", "stop")
<1> HIDE DEF mk, st
<1>4. mk \in Nat /\ st \in Nat /\ StopsLock \in BOOLEAN
  BY <1>2, ExchangeAssumption DEF mk, st
<1>5. Free = hold - mk - IF StopsLock THEN st ELSE 0
  BY <1>3 DEF Free, mk, st
<1>6. Free \in Int /\ Free <= hold - mk
  BY <1>1, <1>4, <1>5
<1>7. QED
  BY <1>2, <1>6 DEF mk

(* Rows take their quantity from a row's order, a balance or the lot of a   *)
(* buy, and never the status of an order on its way.                        *)
LEMMA RowsCountedKept == ASSUME IInv, Accounted, [SyncNext]_vars PROVE RowsCounted'
<1>1. /\ Len(rows) \in Nat /\ Len(xord) \in Nat /\ w.bal \in Nat /\ w.todo \subseteq 1..Len(xord)
      /\ \A x \in 1..Len(xord) : xord[x].qty \in Nat /\ (xord[x].kind = "stop" => xord[x].status # "transit")
      /\ \A r \in 1..Len(rows) : rows[r].qty \in Nat /\ rows[r].status # "transit"
  <2>1. Len(rows) \in Nat /\ Len(xord) \in Nat /\ w.todo \subseteq 1..Len(xord)
    BY DEF IInv, BookIn, WorkerIn, Own
  <2>2. QED
    BY <2>1 DEF Accounted, RowsCounted, OrdersCounted, LocalsCounted, CountedIn
<1>2. ASSUME NEW x, NEW status, status # "transit", RowLinked(rows, rows', w.row, x, status)
      PROVE  RowsCounted'
  BY <1>1, <1>2 DEF RowLinked, RowsCounted
<1>3. ASSUME NEW x, NEW status, status # "transit", RowsStated(rows, rows', x, status) PROVE RowsCounted'
  BY <1>1, <1>3 DEF RowsStated, RowsCounted
<1>4. ASSUME NEW xid, NEW side, NEW kind, NEW status, NEW qty \in Nat, status # "transit",
             RowAdded(rows, rows', xid, side, kind, status, qty)
      PROVE  RowsCounted'
  <2>1. /\ Len(rows') = Len(rows) + 1 /\ \A r \in 1..Len(rows) : rows'[r] = rows[r]
        /\ rows'[Len(rows) + 1].qty = qty /\ rows'[Len(rows) + 1].status = status
    BY <1>4 DEF RowAdded
  <2>2. QED
    BY <1>1, <1>4, <2>1 DEF RowsCounted
<1>5. CASE UNCHANGED rows
  BY <1>5 DEF Accounted, RowsCounted
<1>6. CASE RowWritten
  <2>1. w.resp # "transit" /\ (PersistStop => w.x \in 1..Len(xord))
    BY DEF IInv, WorkerIn, WorkerI, PersistStop
  <2>2. QED
    BY <1>1, <1>2, <1>3, <1>4, <1>6, <2>1 DEF RowWritten
<1>7. QED
  BY <1>5, <1>6, RowWrites

(* Orders take their quantity from a row or from the position read.         *)
LEMMA OrdersCountedKept ==
    ASSUME IInv, Accounted, [SyncNext]_vars PROVE OrdersCounted' /\ NeverShort'
<1> DEFINE sold == OfferedIn(xord, "sell", "market")
<1>1. /\ xord \in Seq(OrderI) /\ xord' \in Seq(OrderI) /\ Len(xord) \in Nat
      /\ CountedIn(xord) /\ \A x \in 1..Len(xord) : xord[x].qty \in Nat /\ xord[x] \in OrderI
      /\ hold \in Nat /\ sold <= hold
  <2>1. IInv'
    BY NextKept
  <2>2. QED
    BY <2>1 DEF IInv, BookIn, Accounted, OrdersCounted, NeverShort, CountedIn
<1>2. /\ Free \in Int /\ Free <= hold - sold /\ sold \in Nat
      /\ sold = LotsOf(Live("sell", "market"))
  <2>1. LotsOf(Live("sell", "market")) = sold
    BY <1>1, LiveLots DEF OfferedIn
  <2>2. QED
    BY <2>1, FreeBound DEF Accounted
<1>3. ASSUME NEW cid, NEW side \in Sides, NEW kind \in Kinds, NEW qty \in Nat, NEW status,
             Placed(xord, xord', cid, side, kind, qty, status), status = "transit" => kind = "market",
             side = "sell" => Free >= qty,
             \/ status # "closed" /\ hold' = hold
             \/ status = "closed" /\ hold' = IF side = "buy" THEN hold + qty ELSE hold - qty
      PROVE  OrdersCounted' /\ NeverShort'
  <2>1. CountedIn(xord') /\ OfferedIn(xord', "sell", "market") = sold
           + (IF status = "open" /\ side = "sell" /\ kind = "market" THEN qty ELSE 0)
    <3>1. xord \in Seq(OrderI) /\ xord' \in Seq(OrderI) /\ CountedIn(xord)
      BY <1>1
    <3>2. Placed(xord, xord', cid, side, kind, qty, status)
      BY <1>3
    <3>3. QED
      BY <3>1, <3>2, OfferedPlaced
  <2>2. \A x \in 1..Len(xord') : xord'[x].status = "transit" => xord'[x].kind = "market"
    <3>1. /\ Len(xord') = Len(xord) + 1 /\ \A x \in 1..Len(xord) : xord'[x] = xord[x]
          /\ xord'[Len(xord) + 1].status = status /\ xord'[Len(xord) + 1].kind = kind
      BY <1>3 DEF Placed
    <3>2. QED
      BY <1>1, <1>3, <3>1 DEF Accounted, OrdersCounted
  <2> HIDE DEF sold
  <2>3. hold' \in Nat /\ OfferedIn(xord', "sell", "market") <= hold'
    <3>1. CASE side = "buy"
      BY <1>1, <1>2, <1>3, <2>1, <3>1
    <3>2. CASE side = "sell"
      BY <1>1, <1>2, <1>3, <2>1, <3>2
    <3>3. QED
      BY <3>1, <3>2 DEF Sides
  <2>4. QED
    BY <2>1, <2>2, <2>3 DEF OrdersCounted, NeverShort
<1>4. CASE OrderPlaced
  <2>1. CASE \E side \in Sides, kind \in Kinds :
               /\ side = "sell" => Free >= 1
               /\ Placed(xord, xord', Unnamed, side, kind, 1, "closed")
               /\ hold' = IF side = "buy" THEN hold + 1 ELSE hold - 1
    BY <1>3, <2>1
  <2>2. CASE /\ ArmStop /\ Free >= w.pos.qty /\ hold' = hold
             /\ Placed(xord, xord', 0, "sell", "stop", w.pos.qty, "open")
    BY <1>3, <2>2 DEF Kinds, Sides, Accounted, LocalsCounted
  <2>3. ASSUME NEW status \in {"transit", "open", "closed"}, SendOrder,
               rows[w.row].side = "sell" => Free >= rows[w.row].qty,
               Placed(xord, xord', w.row, rows[w.row].side, "market", rows[w.row].qty, status),
               hold' = IF status # "closed" THEN hold ELSE
                       IF rows[w.row].side = "buy" THEN hold + rows[w.row].qty ELSE hold - rows[w.row].qty
        PROVE  OrdersCounted' /\ NeverShort'
    <3>1. w.row \in 1..Len(rows) /\ rows \in Seq(RowI)
      BY <2>3 DEF SendOrder, IInv, WorkerIn, BookIn
    <3>2. rows[w.row] \in RowI /\ rows[w.row].qty \in Nat
      BY <3>1 DEF Accounted, RowsCounted
    <3>3. QED
      BY <1>3, <2>3, <3>2 DEF Kinds, RowI
  <2>4. QED
    BY <1>4, <2>1, <2>2, <2>3 DEF OrderPlaced
<1>5. ASSUME NEW x \in 1..Len(xord), NEW status \in {"open", "closed", "canceled"},
             Turned(xord, xord', x, status),
             \/ /\ xord[x].status = "open" /\ status # "open"
                /\ \/ hold' = hold
                   \/ xord[x].side = "buy" /\ hold' = hold + xord[x].qty
                   \/ xord[x].side = "sell" /\ xord[x].kind = "market" /\ hold' = hold - xord[x].qty
                   \/ xord[x].side = "sell" /\ xord[x].kind = "stop"
                      /\ hold - sold >= xord[x].qty /\ hold' = hold - xord[x].qty
             \/ /\ xord[x].status = "transit" /\ hold' = hold
                /\ status = "open" => (xord[x].side = "sell" => ~(Free < xord[x].qty))
      PROVE  OrdersCounted' /\ NeverShort'
  <2> DEFINE now == OfferedIn(xord', "sell", "market")
             mine == xord[x].side = "sell" /\ xord[x].kind = "market"
  <2>1. /\ CountedIn(xord')
        /\ mine => /\ xord[x].status = "open" /\ status # "open" => now = sold - xord[x].qty
                   /\ xord[x].status # "open" /\ status = "open" => now = sold + xord[x].qty
                   /\ xord[x].status # "open" /\ status # "open" => now = sold
        /\ ~mine => now = sold
    BY <1>1, <1>5, OfferedTurned
  <2>2. now \in Nat
    BY <1>1, <2>1, OfferedNat
  <2>3. \A y \in 1..Len(xord') : xord'[y].status = "transit" => xord'[y].kind = "market"
    BY <1>5 DEF Turned, Accounted, OrdersCounted
  <2>4. xord[x].qty \in Nat /\ xord[x].status # "closed"
    BY <1>1, <1>5
  <2> HIDE DEF now, mine, sold
  <2> DEFINE q == xord[x].qty
  <2>5. /\ q \in Nat /\ hold \in Nat /\ sold \in Nat /\ now \in Nat /\ Free \in Int
        /\ sold <= hold /\ Free <= hold - sold
    BY <1>1, <1>2, <2>2, <2>4
  <2>6. hold' \in Nat /\ now <= hold'
    <3>1. CASE mine
      <4>1. xord[x].side = "sell" /\ xord[x].kind = "market"
        BY <3>1 DEF mine
      <4>2. CASE xord[x].status = "open" /\ status # "open"
        <5>1. now = sold - q
          BY <2>1, <3>1, <4>2
        <5>2. hold' = hold \/ hold' = hold - q
          BY <1>5, <4>1, <4>2
        <5>3. QED
          BY <2>5, <5>1, <5>2
      <4>3. CASE xord[x].status = "transit" /\ hold' = hold
        <5>1. \/ now = sold
              \/ now = sold + q /\ ~(Free < q)
          BY <1>5, <2>1, <3>1, <4>1, <4>3
        <5>2. QED
          BY <2>5, <4>3, <5>1
      <4>4. QED
        BY <1>5, <4>2, <4>3
    <3>2. CASE ~mine
      <4>1. ~(xord[x].side = "sell" /\ xord[x].kind = "market")
        BY <3>2 DEF mine
      <4>2. now = sold
        BY <2>1, <3>2
      <4>3. \/ hold' = hold
            \/ hold' = hold + q
            \/ hold - sold >= q /\ hold' = hold - q
        BY <1>5, <4>1
      <4>4. QED
        BY <2>5, <4>2, <4>3
    <3>3. QED
      BY <3>1, <3>2
  <2>7. QED
    BY <2>1, <2>3, <2>6 DEF OrdersCounted, NeverShort, now
<1>6. ASSUME NEW x \in 1..Len(xord), OrderTurned(x) PROVE OrdersCounted' /\ NeverShort'
  <2>1. xord[x].side \in {"buy", "sell"}
    BY <1>1 DEF OrderI, Sides
  <2> HIDE DEF sold
  <2>2. QED
    BY <1>2, <1>5, <1>6, <2>1 DEF OrderTurned
<1>7. CASE UNCHANGED <<xord, hold>>
  BY <1>7 DEF Accounted, OrdersCounted, NeverShort
<1>8. QED
  BY <1>4, <1>6, <1>7, BookWrites

(* A position's quantity is a row's, a balance, or one it had before.       *)
LEMMA PositionCounted == ASSUME IInv, Accounted, [SyncNext]_vars PROVE pos'.qty \in Nat
<1>1. /\ pos.qty \in Nat /\ w.pos.qty \in Nat /\ sp.pos.qty \in Nat /\ ss.pos.qty \in Nat
      /\ w.bal \in Nat /\ so.bal \in Nat /\ sp.wallet \in Nat /\ ss.wallet \in Nat
      /\ \A r \in 1..Len(rows) : rows[r].qty \in Nat
      /\ sp.pos \in PositionI /\ ss.pos \in PositionI
  BY DEF Accounted, LocalsCounted, RowsCounted, IInv, PositionsIn, PositionsI, StopsIn, StopsI
<1>2. \A u : u.qty \in Nat => UpdatedPosition(pos, u).qty \in Nat
  BY <1>1 DEF UpdatedPosition
<1>3. AdjustedCopy.qty = sp.wallet /\ RearmedCopy.qty = ss.wallet
  BY <1>1 DEF PositionI, AdjustedCopy, RearmedCopy
<1>4. \A q : QuantityOnly(q).qty = q
  BY DEF QuantityOnly
<1>5. \A r, q : CreatedPosition(r, q).qty = q
  BY DEF CreatedPosition
<1>6. CreatePosition => w.row \in 1..Len(rows)
  BY DEF CreatePosition, IInv, WorkerIn, BackedIn
<1>7. OrdersCreate => so.row \in 1..Len(rows)
  BY DEF OrdersCreate, IInv, OrdersIn, BackedIn
<1>8. NoPosition.qty = 0
  BY DEF NoPosition
<1>9. CASE PositionStored
  <2>1. /\ UpdatedPosition(pos, QuantityOnly(w.bal)).qty \in Nat
        /\ UpdatedPosition(pos, QuantityOnly(so.bal)).qty \in Nat
        /\ UpdatedPosition(pos, w.pos).qty \in Nat
        /\ UpdatedPosition(pos, AdjustedCopy).qty \in Nat
        /\ UpdatedPosition(pos, RearmedCopy).qty \in Nat
    BY <1>1, <1>2, <1>3, <1>4
  <2>2. /\ CreatePosition => CreatedPosition(w.row, rows[w.row].qty).qty \in Nat
        /\ OrdersCreate => CreatedPosition(so.row, rows[so.row].qty).qty \in Nat
        /\ CreatedPosition(0, sp.wallet).qty \in Nat /\ NoPosition.qty \in Nat
    BY <1>1, <1>5, <1>6, <1>7, <1>8
  <2>3. QED
    BY <1>9, <2>1, <2>2 DEF PositionStored
<1>10. QED
  BY <1>1, <1>9, PositionWrites

(* The locals get copies of what is counted. *)
LEMMA LocalsCountedKept == ASSUME IInv, Accounted, [SyncNext]_vars PROVE LocalsCounted'
<1>1. NoPosition.qty = 0
  BY DEF NoPosition
<1>2. QED
  BY <1>1, Copies, PositionCounted DEF Copying, Copied, Accounted, LocalsCounted, NeverShort

(* The flag and the pair's status are only set to what they may be.         *)
LEMMA ControlledKept == ASSUME Accounted, [SyncNext]_vars PROVE Controlled'
BY DEF Accounted, Controlled, SyncNext, Pair, WorkerStep, Exchange, StartWorker, UpdateWorker, Manage,
   RequestDisable, EnableStrategy, Restarted, Crash, CrashWorker, control, vars, pairVars,
   Tick, CheckPending, Lookup, GiveUp, CheckPosition, CheckOpenOrders, CheckBalance, PersistOrder,
   SendOrder, ConfirmOrder, CreatePosition, SettleBalance, SettleQuantity, ClosePosition, DropPosition,
   ListOpenOrders, RecordOpenOrder, DecideOnStop, ArmStop, PersistStop, RaisePosition, CancelStop,
   StoreCanceled, CheckTermination, ApplyDisable,
   SyncOrders, OrdersStart, OrdersFetch, OrdersCreate, OrdersBalance, OrdersQuantity,
   SyncPositions, PositionsStart, PositionsRead, PositionsWallet, PositionsDelete, PositionsAdjust,
   PositionsPairs, PositionsOrders, PositionsAdopt,
   SyncStopOrders, StopsStart, StopsRead, StopsWallet, StopsRows, StopsFetch, StopsLatest, StopsCancel,
   StopsStore, StopsRearm

(* Nothing is counted at first. *)
LEMMA AccountedAtFirst == SyncInit => Accounted
<1> SUFFICES ASSUME SyncInit PROVE Accounted
  OBVIOUS
<1>1. xord = <<>> /\ rows = <<>> /\ hold = 0
  BY DEF SyncInit, Init
<1>2. LiveIn(xord, "sell", "market") = {}
  BY <1>1 DEF LiveIn
<1>3. OfferedIn(xord, "sell", "market") = 0
  BY <1>2, LotsNone DEF OfferedIn
<1>4. RowsCounted /\ OrdersCounted /\ NeverShort
  BY <1>1, <1>3 DEF RowsCounted, OrdersCounted, CountedIn, NeverShort
<1>5. LocalsCounted /\ Controlled
  BY DEF SyncInit, Init, Idle, OrdersIdle, PositionsIdle, StopsIdle, NoPosition, LocalsCounted, Controlled
<1>6. QED
  BY <1>4, <1>5 DEF Accounted

(* No quantity is ever negative and the account never offers more lots than *)
(* it holds, whatever the owner trades and however late an order arrives.   *)
THEOREM AccountsKept == SyncSpec => []Accounted
<1>1. IInv /\ Accounted /\ [SyncNext]_vars => Accounted'
  BY RowsCountedKept, OrdersCountedKept, LocalsCountedKept, ControlledKept DEF Accounted
<1>2. QED
  BY <1>1, AccountedAtFirst, Consistent, PTL DEF SyncSpec

(* The types of the pair and of the three tasks. *)
THEOREM SyncTyped == SyncSpec => []SyncTypeOK
<1>1. ASSUME IInv, Accounted PROVE SyncTypeOK
  <2>1. rows \in Seq(Row)
    <3>1. ASSUME NEW r \in 1..Len(rows) PROVE rows[r] \in Row
      <4>1. rows[r] \in RowI /\ rows[r].qty \in Nat /\ rows[r].status # "transit"
        BY <1>1 DEF IInv, BookIn, Accounted, RowsCounted
      <4>2. QED
        BY <4>1 DEF RowI, Row, Statuses
    <3>2. QED
      BY <1>1, <3>1 DEF IInv, BookIn
  <2>2. xord \in Seq(ExchangeOrder)
    <3>1. ASSUME NEW x \in 1..Len(xord) PROVE xord[x] \in ExchangeOrder
      <4>1. xord[x] \in OrderI /\ xord[x].qty \in Nat
        BY <1>1 DEF IInv, BookIn, Accounted, OrdersCounted, CountedIn
      <4>2. QED
        BY <4>1 DEF OrderI, ExchangeOrder
    <3>2. QED
      BY <1>1, <3>1 DEF IInv, BookIn
  <2>3. \A p : p \in PositionI /\ p.qty \in Nat => p \in Position
    BY DEF PositionI, Position
  <2>4. pos \in Position /\ w.pos \in Position /\ sp.pos \in Position /\ ss.pos \in Position
    BY <1>1, <2>3 DEF IInv, PositionIn, WorkerIn, PositionsIn, StopsIn, Accounted, LocalsCounted
  <2>5. w \in Worker
    BY <1>1, <2>4 DEF IInv, WorkerIn, WorkerI, Worker, Accounted, LocalsCounted
  <2>6. TypeOK
    BY <1>1, <2>1, <2>2, <2>4, <2>5 DEF TypeOK, IInv, Accounted, LocalsCounted, NeverShort, Controlled
  <2>7. /\ so \in [pc : {"idle", "fetch", "create", "balance", "quantity"},
                   todo : SUBSET Nat, row : Nat, bal : Nat]
        /\ sp \in [pc : {"idle", "read", "wallet", "delete", "adjust", "pairs", "orders", "adopt"},
                   pos : Position, wallet : Nat]
        /\ ss \in [pc : {"idle", "read", "wallet", "rows", "next", "latest", "cancel", "store"},
                   pos : Position, wallet : Nat, todo : SUBSET Nat, x : Nat, protected : BOOLEAN]
    BY <1>1, <2>4 DEF IInv, OrdersIn, OrdersI, PositionsIn, PositionsI, StopsIn, StopsI, Accounted, LocalsCounted
  <2>8. QED
    BY <2>6, <2>7 DEF SyncTypeOK
<1>2. QED
  BY <1>1, AccountsKept, Consistent, PTL
=============================================================================
