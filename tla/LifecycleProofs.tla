---------------------------- MODULE LifecycleProofs ----------------------------
(***************************************************************************)
(* What one pair promises, under the faults for which it does.  The faults *)
(* that are excluded are hypotheses of the theorems; each layer adds one   *)
(* invariant to the book and the accounts:                                 *)
(*   Unsent     an order is sent once, and a row that is about to be sent  *)
(*              or given up has no order ("link", "late" excluded);        *)
(*   OneLot     everything counts one lot, the row of an open market order *)
(*              is still open, and nothing is bought while a lot is held   *)
(*              or being bought ("manual" excluded);                       *)
(*   StopKnown  a worker that looks for the stop order sees it, whatever   *)
(*              the others do since it listed the orders ("db" excluded);  *)
(*   Covered    a stop order covers a held lot that is not offered twice.  *)
(* From OneLot on every step of the exchange is one of a few (MarketMoves);*)
(* with Covered these are steps of Lifecycle, which the pair implements.   *)
(***************************************************************************)
EXTENDS AccountProofs

USE DEF Unnamed

(* Who moves the worker: itself, or a start, which leaves it idle.          *)
LEMMA Movers ==
    ASSUME [SyncNext]_vars
    PROVE  ByWorker \/ (UNCHANGED <<w, strat>>) \/ (w' = Idle /\ UNCHANGED <<database, exchange, pair>>)
BY DEF SyncNext, Pair, ByWorker, Exchange, StartWorker, UpdateWorker, Manage, Restarted, Crash, CrashWorker,
   SyncOrders, OrdersStart, OrdersFetch, OrdersCreate, OrdersBalance, OrdersQuantity,
   SyncPositions, PositionsStart, PositionsRead, PositionsWallet, PositionsDelete, PositionsAdjust,
   PositionsPairs, PositionsOrders, PositionsAdopt,
   SyncStopOrders, StopsStart, StopsRead, StopsWallet, StopsRows, StopsFetch, StopsLatest, StopsCancel,
   StopsStore, StopsRearm, vars, pairVars
----------------------------------------------------------------------------
(* No order is on its way, no two orders carry the same client order id,    *)
(* and the order of a row that is about to be sent or given up is not there. *)
Unsent ==
    /\ \A x \in 1..Len(xord) : xord[x].status # "transit"
    /\ \A x, y \in 1..Len(xord) : xord[x].cid = xord[y].cid /\ xord[x].cid \notin {0, Unnamed} => x = y
    /\ w.pc \in {"giveup", "send"} => \A x \in 1..Len(xord) : xord[x].cid # w.row

(* An order is sent at most once, ... *)
LEMMA BookUnsent ==
    ASSUME IInv, Unsent, "late" \notin Faults, [SyncNext]_vars
    PROVE  /\ \A x \in 1..Len(xord') : xord'[x].status # "transit"
           /\ \A x, y \in 1..Len(xord') : xord'[x].cid = xord'[y].cid /\ xord'[x].cid \notin {0, Unnamed} => x = y
<1>1. /\ Len(xord) \in Nat
      /\ \A x \in 1..Len(xord) : xord[x].status # "transit"
      /\ \A x, y \in 1..Len(xord) : xord[x].cid = xord[y].cid /\ xord[x].cid \notin {0, Unnamed} => x = y
  BY DEF IInv, BookIn, Unsent
<1>2. CASE UNCHANGED <<xord, hold>>
  BY <1>1, <1>2
<1>3. ASSUME NEW x \in 1..Len(xord), NEW status, status # "transit", Turned(xord, xord', x, status)
      PROVE  /\ \A y \in 1..Len(xord') : xord'[y].status # "transit"
             /\ \A y, z \in 1..Len(xord') : xord'[y].cid = xord'[z].cid /\ xord'[y].cid \notin {0, Unnamed} => y = z
  <2>1. Len(xord') = Len(xord) /\ \A y \in 1..Len(xord) : xord'[y].cid = xord[y].cid
    BY <1>3 DEF Turned
  <2>2. \A y \in 1..Len(xord) : xord'[y].status # "transit"
    BY <1>1, <1>3 DEF Turned
  <2>3. QED
    BY <1>1, <2>1, <2>2
<1>4. CASE \E x \in 1..Len(xord) : OrderTurned(x)
  BY <1>3, <1>4 DEF OrderTurned
<1>5. ASSUME NEW cid, NEW side, NEW kind, NEW qty, NEW status, status # "transit",
             Placed(xord, xord', cid, side, kind, qty, status),
             cid \notin {0, Unnamed} => \A x \in 1..Len(xord) : xord[x].cid # cid
      PROVE  /\ \A y \in 1..Len(xord') : xord'[y].status # "transit"
             /\ \A y, z \in 1..Len(xord') : xord'[y].cid = xord'[z].cid /\ xord'[y].cid \notin {0, Unnamed} => y = z
  <2>1. /\ Len(xord') = Len(xord) + 1 /\ \A x \in 1..Len(xord) : xord'[x] = xord[x]
        /\ xord'[Len(xord) + 1].cid = cid /\ xord'[Len(xord) + 1].status = status
    BY <1>5 DEF Placed
  <2>2. QED
    BY <1>1, <1>5, <2>1
<1>6. CASE OrderPlaced
  <2>1. SendOrder => \A x \in 1..Len(xord) : xord[x].cid # w.row
    BY DEF SendOrder, Unsent
  <2>2. QED
    BY <1>5, <1>6, <2>1 DEF OrderPlaced
<1>7. QED
  BY <1>2, <1>4, <1>6, BookWrites

(* ... and a row is given up when none of the orders carries its id.        *)
LEMMA WorkerUnsent ==
    ASSUME IInv, Unsent, "link" \notin Faults, [SyncNext]_vars, w'.pc \in {"giveup", "send"}
    PROVE  \A x \in 1..Len(xord') : xord'[x].cid # w'.row
<1>1. /\ Len(xord) \in Nat /\ DOMAIN xord = 1..Len(xord) /\ Len(rows) \in Nat /\ DOMAIN rows = 1..Len(rows)
      /\ w \in WorkerI
      /\ \A x \in 1..Len(xord) : xord[x].cid \notin {0, Unnamed} => xord[x].cid \in 1..Len(rows)
      /\ w.pc \in {"lookup", "giveup", "send"} => w.row \in 1..Len(rows) /\ rows[w.row].xid = 0
  BY DEF IInv, BookIn, OrderIn, WorkerIn
<1>2. CASE ByWorker
  <2>1. CASE w'.pc = "giveup"
    <3>1. Lookup
      BY <1>2, <2>1, Arrivals DEF ByWorker, Arrival
    <3>2. /\ w'.row = w.row /\ xord' = xord
          /\ {x \in Matches(w.row) : LinkAllowed(rows, x)} = {}
      BY <1>1, <2>1, <3>1, GotoMoves, ErrorLeaves DEF Lookup, Moves, Leaves, Fails, exchange
    <3>3. ASSUME NEW x \in 1..Len(xord), xord[x].cid = w.row PROVE FALSE
      <4>1. x \in Matches(w.row)
        BY <1>1, <3>3 DEF Matches, Unsent
      <4>2. PICK r \in 1..Len(rows) : rows[r].xid = x
        BY <1>1, <3>2, <4>1 DEF LinkAllowed, Recorded
      <4>3. xord[x].cid \in {0, r, Unnamed}
        BY <4>2 DEF IInv, BookIn, LinkIn
      <4>4. w.row \in 1..Len(rows) /\ rows[w.row].xid = 0
        BY <1>1, <3>1 DEF Lookup
      <4>5. QED
        BY <3>3, <4>2, <4>3, <4>4
    <3>4. QED
      BY <3>2, <3>3
  <2>2. CASE w'.pc = "send"
    <3>1. PersistOrder
      BY <1>2, <2>2, Arrivals DEF ByWorker, Arrival
    <3>2. w'.row = Len(rows) + 1 /\ xord' = xord
      BY <1>1, <2>2, <3>1, ReturnLeaves DEF PersistOrder, Leaves, WorkerI, exchange
    <3>3. QED
      BY <1>1, <3>2
  <2>3. QED
    BY <2>1, <2>2
<1>3. CASE w' = w /\ ~ByWorker
  <2>1. w.pc \in {"giveup", "send"} /\ w.row \in 1..Len(rows) /\ \A x \in 1..Len(xord) : xord[x].cid # w.row
    BY <1>1, <1>3 DEF Unsent
  <2>2. CASE UNCHANGED <<xord, hold>>
    BY <1>3, <2>1, <2>2
  <2>3. CASE OrderPlaced
    <3>1. PICK cid \in {0, Unnamed} : \E side, kind, qty, status : Placed(xord, xord', cid, side, kind, qty, status)
      BY <1>3, <2>3 DEF OrderPlaced
    <3>2. QED
      BY <1>1, <1>3, <2>1, <3>1 DEF Placed
  <2>4. ASSUME NEW x \in 1..Len(xord), OrderTurned(x) PROVE \A y \in 1..Len(xord') : xord'[y].cid # w'.row
    <3>1. PICK status : Turned(xord, xord', x, status)
      BY <2>4 DEF OrderTurned
    <3>2. QED
      BY <1>3, <2>1, <3>1 DEF Turned
  <2>5. QED
    BY <2>2, <2>3, <2>4, BookWrites
<1>4. CASE w' = Idle
  BY <1>4 DEF Idle
<1>5. QED
  BY <1>2, <1>3, <1>4, Movers

(* What follows from an order list that is answered and stored.             *)
THEOREM SentOnce == ASSUME {"link", "late"} \cap Faults = {} PROVE SyncSpec => []Unsent
<1>1. SyncInit => Unsent
  BY DEF SyncInit, Init, Idle, Unsent
<1>2. IInv /\ Unsent /\ [SyncNext]_vars => Unsent'
  BY BookUnsent, WorkerUnsent DEF Unsent
<1>3. QED
  BY <1>1, <1>2, Consistent, PTL DEF SyncSpec

(* A row is given up only when no order was sent for it, provided the       *)
(* gateway does not deliver late and the found id can be stored.            *)
THEOREM RejectsOnlyUnsent == ASSUME {"link", "late"} \cap Faults = {} PROVE SyncSpec => RejectOnlyUnsent
<1>1. ASSUME IInv, Unsent, [SyncNext]_vars,
             NEW r \in DOMAIN rows, rows[r].status = "new", rows'[r].status = "rejected"
      PROVE  \A x \in DOMAIN xord : xord[x].cid # r
  <2>1. DOMAIN rows = 1..Len(rows) /\ DOMAIN xord = 1..Len(xord)
    BY <1>1 DEF IInv, BookIn
  <2>2. RowWritten
    BY <1>1, RowWrites
  <2>3. \A xid, side, kind, status, qty : ~RowAdded(rows, rows', xid, side, kind, status, qty)
    BY <1>1, <2>1 DEF RowAdded
  <2>4. \A x, status : RowsStated(rows, rows', x, status) => status = "rejected"
    BY <1>1, <2>1 DEF RowsStated
  <2>5. \A k, x, status : RowLinked(rows, rows', k, x, status) => r = k /\ status = "rejected"
    BY <1>1, <2>1 DEF RowLinked
  <2>6. \A x \in 1..Len(xord) : xord[x].status # "rejected"
    <3>1. \A x \in 1..Len(xord) : xord[x] \in OrderI
      BY <1>1 DEF IInv, BookIn
    <3>2. QED
      BY <3>1 DEF OrderI
  <2>7. w.resp # "rejected"
    BY <1>1 DEF IInv, WorkerIn, WorkerI
  <2>8. GiveUp /\ r = w.row
    <3>1. \A k \in so.todo : rows[k].xid \in 1..Len(xord)
      BY <1>1 DEF IInv, OrdersIn, BookIn, LinkIn
    <3>2. QED
      BY <2>2, <2>3, <2>4, <2>5, <2>6, <2>7, <3>1 DEF RowWritten
  <2>9. QED
    BY <1>1, <2>1, <2>8 DEF GiveUp, Unsent
<1>2. IInv /\ Unsent /\ [SyncNext]_vars =>
        [\A r \in DOMAIN rows : rows[r].status = "new" /\ rows'[r].status = "rejected" =>
            \A x \in DOMAIN xord : xord[x].cid # r]_pairVars
  BY <1>1
<1>3. QED
  BY <1>2, SentOnce, Consistent, PTL DEF SyncSpec, RejectOnlyUnsent
----------------------------------------------------------------------------
(* The market buys, market sells and stop orders that are alive.            *)
Buys  == LiveIn(xord, "buy", "market")
Sells == LiveIn(xord, "sell", "market")
Stops == LiveIn(xord, "sell", "stop")

(* Whether a stored position comes with its lot. *)
HasLot(p) == p.st # "none" => p.qty = 1

(* Everything counts one lot, and a market order has its row.               *)
SingleLots ==
    /\ \A r \in 1..Len(rows) : rows[r].qty = 1
    /\ \A x \in 1..Len(xord) : /\ xord[x].qty = 1 /\ xord[x].cid # Unnamed
                               /\ IF xord[x].kind = "market" THEN xord[x].cid # 0 ELSE xord[x].side = "sell"
    /\ hold \in {0, 1} /\ wallet \in {0, 1} /\ w.bal \in {0, 1} /\ so.bal \in {0, 1}
    /\ sp.wallet \in {0, 1} /\ ss.wallet \in {0, 1}
    /\ HasLot(pos) /\ HasLot(w.pos) /\ HasLot(sp.pos) /\ HasLot(ss.pos)

(* For which signal, position and balance the worker is at its place.       *)
Placement ==
    /\ w.pc \in {"stops", "record"} => w.h \in {"track", "sell", "waitsell"}
    /\ w.pc \in {"cancel", "canceled"} => w.h \in {"sell", "waitsell"}
    /\ w.pc \in {"arm", "stoprow"} => w.h = "track"
    /\ w.pc \in {"persist", "send"} => w.h \in {"buy", "sell", "waitsell"}
    /\ w.pc \in {"stops", "record"} /\ w.h = "track" => w.pos.st = "known"
    /\ w.pc \in {"arm", "stoprow", "raise"} => w.pos.st = "known"
    /\ w.pc = "persist" /\ w.h # "buy" => w.bal = 1
    /\ sp.pc # "adjust" /\ (sp.pc \in {"pairs", "orders", "adopt"} => sp.wallet = 1)

(* The row of an open market order is open too, and linked to no other.     *)
Tracked(x) ==
    LET row == rows[xord[x].cid]
    IN  row.xid \in {0, x} /\ row.status \in {"new", "open"} /\ (row.xid = 0 => row.status = "new")
Tracking == \A x \in 1..Len(xord) : xord[x].kind = "market" /\ xord[x].status = "open" => Tracked(x)

(* A lot is held or being bought, and the worker knows before it buys.      *)
SingleBuy ==
    /\ \A x, y \in Buys : x = y
    /\ Buys # {} => hold = 0
    /\ w.pc \in {"balance", "persist", "send"} /\ w.h = "buy" => Buys = {}
    /\ w.pc \in {"persist", "send"} /\ w.h = "buy" => hold = 0
    /\ w.pc = "send" => rows[w.row].status = "new" /\ (rows[w.row].side = "buy" <=> w.h = "buy")

OneLot == SingleLots /\ Placement /\ Tracking /\ SingleBuy

(* An open order offers at least its lot. *)
LEMMA OfferedLive ==
    ASSUME NEW xs \in Seq(OrderI), \A x \in 1..Len(xs) : xs[x].qty = 1, NEW s, NEW k, NEW y \in LiveIn(xs, s, k)
    PROVE  OfferedIn(xs, s, k) \in Nat /\ OfferedIn(xs, s, k) >= 1
<1> DEFINE X == LiveIn(xs, s, k)
<1>1. IsFiniteSet(X) /\ X \subseteq 1..Len(xs)
  BY LiveFinite
<1>2. y \in X /\ xs[y].qty = 1 /\ \A x \in X : xs[x].qty \in Nat
  BY <1>1
<1>3. OfferedIn(xs, s, k) = LotsIn(xs, X)
  BY DEF OfferedIn
<1> HIDE DEF X
<1>4. LotsIn(xs, X) = LotsIn(xs, X \ {y}) + xs[y].qty
  BY <1>1, <1>2, LotsSplit
<1>5. IsFiniteSet(X \ {y})
  BY <1>1, FS_RemoveElement
<1>6. LotsIn(xs, X \ {y}) \in Nat
  BY <1>2, <1>5, LotsFinite
<1>7. QED
  BY <1>2, <1>3, <1>4, <1>6

(* One order is sent by the worker, ... *)
OrderSent(side, status) ==
    /\ ByWorker /\ SendOrder /\ side = rows[w.row].side
    /\ side \in {"buy", "sell"} /\ status \in {"open", "closed"}
    /\ Placed(xord, xord', w.row, side, "market", 1, status)
    /\ hold' = IF status = "open" THEN hold ELSE IF side = "buy" THEN 1 ELSE 0
    /\ IF side = "buy" THEN w.h = "buy" /\ hold = 0 /\ Buys = {} ELSE w.h # "buy" /\ hold = 1 /\ Sells = {}

(* ... or a stop order is placed on the lot held, ... *)
OrderArmed ==
    /\ ByWorker /\ ArmStop /\ Placed(xord, xord', 0, "sell", "stop", 1, "open")
    /\ hold' = hold /\ hold = 1 /\ Sells = {}

(* ... or an open order ends. *)
OrderEnded(x, status) ==
    /\ xord[x].status = "open" /\ status \in {"closed", "canceled"}
    /\ Turned(xord, xord', x, status)
    /\ IF xord[x].kind = "stop"
       THEN \/ ExchangeAlone /\ status = "closed" /\ hold = 1 /\ hold' = 0 /\ Sells = {}
            \/ /\ status = "canceled" /\ hold' = hold
               /\ \/ ExchangeAlone
                  \/ ByWorker /\ CancelStop /\ x = w.x
                  \/ StopsCancel /\ UNCHANGED w
       ELSE /\ ExchangeAlone
            /\ IF xord[x].side = "buy" THEN hold = 0 /\ hold' \in {0, 1} /\ (status = "closed" => hold' = 1)
               ELSE hold = 1 /\ hold' = IF status = "closed" THEN 0 ELSE 1

MarketMoved ==
    \/ UNCHANGED <<xord, hold>>
    \/ /\ UNCHANGED <<rows, pos, wallet, pair, term>>
       /\ \/ \E side, status : OrderSent(side, status)
          \/ OrderArmed
          \/ \E x \in 1..Len(xord) : \E status : OrderEnded(x, status)

(* With single lots there are no other moves.                               *)
LEMMA MarketMoves ==
    ASSUME IInv, Accounted, Unsent, OneLot, {"manual", "late"} \cap Faults = {}, [SyncNext]_vars
    PROVE  MarketMoved
<1>1. /\ xord \in Seq(OrderI) /\ Len(xord) \in Nat /\ hold \in {0, 1}
      /\ \A x \in 1..Len(xord) : xord[x].qty = 1 /\ xord[x] \in OrderI /\ xord[x].status # "transit"
      /\ \A x \in 1..Len(xord) : xord[x].kind = "stop" => xord[x].side = "sell"
  <2>1. xord \in Seq(OrderI)
    BY DEF IInv, BookIn
  <2>2. QED
    BY <2>1 DEF Unsent, OneLot, SingleLots
<1> DEFINE sold == OfferedIn(xord, "sell", "market")
<1>2. /\ Free \in Int /\ Free <= hold - sold /\ sold \in Nat /\ sold <= hold
      /\ sold = LotsOf(Live("sell", "market"))
      /\ Sells # {} => sold >= 1
  <2>1. LotsOf(Live("sell", "market")) = sold
    BY <1>1, LiveLots DEF OfferedIn
  <2>2. Sells # {} => sold >= 1
    BY <1>1, OfferedLive DEF Sells
  <2>3. QED
    BY <2>1, <2>2, FreeBound DEF Accounted, NeverShort
<1> HIDE DEF sold
<1>3. Free >= 1 => hold = 1 /\ Sells = {}
  BY <1>1, <1>2
<1>4. Sells # {} => hold = 1
  BY <1>1, <1>2
<1>5. CASE UNCHANGED <<xord, hold>>
  BY <1>5 DEF MarketMoved
<1>6. CASE UNCHANGED <<rows, pos, wallet, pair, term>> /\ OrderPlaced
  <2>1. ASSUME ByWorker, SendOrder, NEW status \in {"transit", "open", "closed"},
               status = "transit" => "late" \in Faults,
               rows[w.row].side = "sell" => Free >= rows[w.row].qty,
               Placed(xord, xord', w.row, rows[w.row].side, "market", rows[w.row].qty, status),
               hold' = IF status # "closed" THEN hold ELSE
                       IF rows[w.row].side = "buy" THEN hold + rows[w.row].qty ELSE hold - rows[w.row].qty
        PROVE  OrderSent(rows[w.row].side, status)
    <3>1. /\ w.pc = "send" /\ w.row \in 1..Len(rows) /\ rows[w.row] \in RowI
          /\ rows[w.row].qty = 1 /\ (rows[w.row].side = "buy" <=> w.h = "buy")
          /\ w.h = "buy" => hold = 0 /\ Buys = {}
      <4>1. w.pc = "send" /\ w.row \in 1..Len(rows) /\ rows \in Seq(RowI)
        BY <2>1 DEF SendOrder, IInv, WorkerIn, BookIn
      <4>2. QED
        BY <4>1 DEF OneLot, SingleLots, SingleBuy
    <3>2. rows[w.row].side \in {"buy", "sell"}
      BY <3>1 DEF RowI, Sides
    <3>3. QED
      BY <1>1, <1>3, <2>1, <3>1, <3>2 DEF OrderSent
  <2>2. ASSUME ByWorker, ArmStop, Free >= w.pos.qty,
               Placed(xord, xord', 0, "sell", "stop", w.pos.qty, "open"), hold' = hold
        PROVE  OrderArmed
    <3>1. w.pos.qty = 1
      BY <2>2 DEF ArmStop, OneLot, SingleLots, Placement, HasLot
    <3>2. Free >= 1 /\ Placed(xord, xord', 0, "sell", "stop", 1, "open")
      BY <2>2, <3>1
    <3>3. QED
      BY <1>3, <2>2, <3>2 DEF OrderArmed
  <2>3. (\E side, status : OrderSent(side, status)) \/ OrderArmed
    <3>1. "manual" \notin Faults /\ ~(SendOrder /\ ArmStop)
      BY DEF SendOrder, ArmStop
    <3>2. CASE ByWorker /\ SendOrder
      <4>1. PICK status \in {"transit", "open", "closed"} : OrderSent(rows[w.row].side, status)
        BY <1>6, <2>1, <3>1, <3>2 DEF OrderPlaced
      <4>2. QED
        BY <4>1
    <3>3. CASE ~(ByWorker /\ SendOrder)
      BY <1>6, <2>2, <3>1, <3>3 DEF OrderPlaced
    <3>4. QED
      BY <3>2, <3>3
  <2>4. QED
    BY <1>6, <2>3 DEF MarketMoved
<1>7. ASSUME UNCHANGED <<rows, pos, wallet, pair, term>>, NEW x \in 1..Len(xord), OrderTurned(x)
      PROVE  \E status : OrderEnded(x, status)
  <2>1. /\ xord[x].qty = 1 /\ xord[x].status # "transit"
        /\ xord[x].side \in {"buy", "sell"} /\ xord[x].kind \in {"market", "stop"}
    BY <1>1 DEF OrderI, Sides, Kinds
  <2>2. CASE xord[x].status = "open" /\ xord[x].kind = "stop"
    <3>1. xord[x].side = "sell"
      BY <1>1, <2>2
    <3>2. CASE /\ ExchangeAlone /\ hold - sold >= 1
               /\ Turned(xord, xord', x, "closed") /\ hold' = hold - 1
      <4>1. hold = 1 /\ hold' = 0 /\ Sells = {}
        BY <1>1, <1>2, <3>2
      <4>2. OrderEnded(x, "closed")
        BY <2>2, <3>2, <4>1 DEF OrderEnded
      <4>3. QED
        BY <4>2
    <3>3. CASE /\ Turned(xord, xord', x, "canceled") /\ hold' = hold
               /\ \/ ExchangeAlone
                  \/ ByWorker /\ CancelStop /\ x = w.x
                  \/ StopsCancel /\ UNCHANGED w
      <4>1. OrderEnded(x, "canceled")
        BY <2>2, <3>3 DEF OrderEnded
      <4>2. QED
        BY <4>1
    <3>4. QED
      BY <1>2, <1>7, <2>1, <2>2, <3>1, <3>2, <3>3 DEF OrderTurned
  <2>3. CASE xord[x].status = "open" /\ xord[x].kind = "market" /\ xord[x].side = "buy"
    <3>1. x \in Buys /\ hold = 0
      BY <2>3 DEF Buys, LiveIn, OneLot, SingleBuy
    <3>2. CASE ExchangeAlone /\ Turned(xord, xord', x, "closed") /\ hold' = hold + 1
      <4>1. OrderEnded(x, "closed")
        BY <2>3, <3>1, <3>2 DEF OrderEnded
      <4>2. QED
        BY <4>1
    <3>3. CASE ExchangeAlone /\ Turned(xord, xord', x, "canceled") /\ (hold' = hold \/ hold' = hold + 1)
      <4>1. OrderEnded(x, "canceled")
        BY <2>3, <3>1, <3>3 DEF OrderEnded
      <4>2. QED
        BY <4>1
    <3>4. QED
      BY <1>7, <2>1, <2>3, <3>2, <3>3 DEF OrderTurned
  <2>4. CASE xord[x].status = "open" /\ xord[x].kind = "market" /\ xord[x].side = "sell"
    <3>1. hold = 1
      <4>1. x \in Sells
        BY <2>4 DEF Sells, LiveIn
      <4>2. QED
        BY <1>4, <4>1
    <3>2. CASE ExchangeAlone /\ Turned(xord, xord', x, "closed") /\ hold' = hold - 1
      <4>1. OrderEnded(x, "closed")
        BY <2>4, <3>1, <3>2 DEF OrderEnded
      <4>2. QED
        BY <4>1
    <3>3. CASE ExchangeAlone /\ Turned(xord, xord', x, "canceled") /\ hold' = hold
      <4>1. OrderEnded(x, "canceled")
        BY <2>4, <3>1, <3>3 DEF OrderEnded
      <4>2. QED
        BY <4>1
    <3>4. QED
      BY <1>7, <2>1, <2>4, <3>2, <3>3 DEF OrderTurned
  <2>5. QED
    BY <1>7, <2>1, <2>2, <2>3, <2>4 DEF OrderTurned
<1>8. QED
  BY <1>5, <1>6, <1>7, BookWrites DEF MarketMoved
----------------------------------------------------------------------------
(* What the lemmas of this layer assume. *)
LotsBefore == IInv /\ Accounted /\ Unsent /\ OneLot /\ {"manual", "late"} \cap Faults = {}

(* A row is written for one lot: of a buy, of the balance that was found,   *)
(* or of an order.                                                          *)
LEMMA RowLotsKept == ASSUME LotsBefore, [SyncNext]_vars PROVE \A r \in 1..Len(rows') : rows'[r].qty = 1
<1>1. /\ Len(rows) \in Nat /\ w.todo \subseteq 1..Len(xord)
      /\ \A x \in 1..Len(xord) : xord[x].qty = 1
      /\ \A r \in 1..Len(rows) : rows[r].qty = 1
  BY DEF LotsBefore, IInv, BookIn, WorkerIn, Own, OneLot, SingleLots
<1>2. ASSUME NEW x, NEW status, RowLinked(rows, rows', w.row, x, status) \/ RowsStated(rows, rows', x, status)
      PROVE  \A r \in 1..Len(rows') : rows'[r].qty = 1
  BY <1>1, <1>2 DEF RowLinked, RowsStated
<1>3. ASSUME NEW xid, NEW side, NEW kind, NEW status, RowAdded(rows, rows', xid, side, kind, status, 1)
      PROVE  \A r \in 1..Len(rows') : rows'[r].qty = 1
  <2>1. /\ Len(rows') = Len(rows) + 1 /\ \A r \in 1..Len(rows) : rows'[r] = rows[r]
        /\ rows'[Len(rows) + 1].qty = 1
    BY <1>3 DEF RowAdded
  <2>2. QED
    BY <1>1, <2>1
<1>4. PersistOrder => (IF w.h = "buy" THEN 1 ELSE w.bal) = 1
  BY DEF PersistOrder, LotsBefore, OneLot, Placement
<1>5. PersistStop => w.x \in 1..Len(xord)
  BY DEF LotsBefore, IInv, WorkerIn, PersistStop
<1>6. RowWritten => \A r \in 1..Len(rows') : rows'[r].qty = 1
  BY <1>1, <1>2, <1>3, <1>4, <1>5 DEF RowWritten
<1>7. QED
  BY <1>1, <1>6, RowWrites DEF LotsBefore

(* An order is sent for a row, and the account gets a lot when it has none. *)
LEMMA OrderLotsKept ==
    ASSUME LotsBefore, [SyncNext]_vars
    PROVE  /\ hold' \in {0, 1}
           /\ \A x \in 1..Len(xord') :
                 /\ xord'[x].qty = 1 /\ xord'[x].cid # Unnamed
                 /\ IF xord'[x].kind = "market" THEN xord'[x].cid # 0 ELSE xord'[x].side = "sell"
<1> DEFINE Goal == /\ hold' \in {0, 1}
                   /\ \A x \in 1..Len(xord') :
                         /\ xord'[x].qty = 1 /\ xord'[x].cid # Unnamed
                         /\ IF xord'[x].kind = "market" THEN xord'[x].cid # 0 ELSE xord'[x].side = "sell"
<1>1. /\ Len(xord) \in Nat /\ hold \in {0, 1}
      /\ \A x \in 1..Len(xord) : /\ xord[x].qty = 1 /\ xord[x].cid # Unnamed
                                 /\ IF xord[x].kind = "market" THEN xord[x].cid # 0 ELSE xord[x].side = "sell"
  BY DEF LotsBefore, IInv, BookIn, OneLot, SingleLots
<1>2. CASE UNCHANGED <<xord, hold>>
  BY <1>1, <1>2
<1>3. ASSUME NEW cid, NEW side, NEW kind, NEW status, Placed(xord, xord', cid, side, kind, 1, status),
             cid # Unnamed, IF kind = "market" THEN cid # 0 ELSE side = "sell", hold' \in {0, 1}
      PROVE  Goal
  <2>1. /\ Len(xord') = Len(xord) + 1 /\ \A x \in 1..Len(xord) : xord'[x] = xord[x]
        /\ xord'[Len(xord) + 1] = [cid |-> cid, side |-> side, kind |-> kind, qty |-> 1, status |-> status]
    BY <1>3 DEF Placed
  <2>2. QED
    BY <1>1, <1>3, <2>1
<1>4. ASSUME NEW side, NEW status, OrderSent(side, status) PROVE Goal
  <2>1. w.row # 0 /\ w.row # Unnamed
    BY <1>4 DEF OrderSent, SendOrder, LotsBefore, IInv, WorkerIn
  <2>2. hold' \in {0, 1}
    BY <1>1, <1>4 DEF OrderSent
  <2>3. Placed(xord, xord', w.row, side, "market", 1, status)
    BY <1>4 DEF OrderSent
  <2>4. QED
    BY <1>3, <2>1, <2>2, <2>3
<1>5. CASE OrderArmed
  BY <1>1, <1>3, <1>5 DEF OrderArmed
<1>6. ASSUME NEW x \in 1..Len(xord), NEW status, OrderEnded(x, status) PROVE Goal
  <2>1. hold' \in {0, 1}
    BY <1>1, <1>6 DEF OrderEnded
  <2>2. Turned(xord, xord', x, status)
    BY <1>6 DEF OrderEnded
  <2>3. QED
    BY <1>1, <2>1, <2>2 DEF Turned
<1>7. QED
  BY <1>2, <1>4, <1>5, <1>6, MarketMoves DEF MarketMoved, LotsBefore

(* A position is stored with a lot. *)
LEMMA PositionLotKept == ASSUME LotsBefore, [SyncNext]_vars PROVE HasLot(pos')
<1>1. /\ HasLot(pos) /\ HasLot(w.pos) /\ HasLot(sp.pos) /\ HasLot(ss.pos)
      /\ w.bal \in {0, 1} /\ so.bal \in {0, 1} /\ sp.wallet \in {0, 1} /\ ss.wallet \in {0, 1}
      /\ \A r \in 1..Len(rows) : rows[r].qty = 1
      /\ sp.pos \in PositionI /\ ss.pos \in PositionI
  BY DEF LotsBefore, OneLot, SingleLots, IInv, PositionsIn, PositionsI, StopsIn, StopsI
<1>2. \A u : UpdateAllowed(pos, u) /\ u.qty \in {0, 1} => HasLot(UpdatedPosition(pos, u))
  BY <1>1 DEF UpdateAllowed, UpdatedPosition, HasLot
<1>3. \A q : QuantityOnly(q).qty = q
  BY DEF QuantityOnly
<1>4. \A r : HasLot(CreatedPosition(r, 1))
  BY DEF CreatedPosition, HasLot
<1>5. RearmedCopy.qty = ss.wallet
  BY <1>1 DEF PositionI, RearmedCopy
<1>6. CreatePosition => w.row \in 1..Len(rows)
  BY DEF CreatePosition, LotsBefore, IInv, WorkerIn, BackedIn
<1>7. OrdersCreate => so.row \in 1..Len(rows)
  BY DEF OrdersCreate, LotsBefore, IInv, OrdersIn, BackedIn
<1>8. HasLot(NoPosition)
  BY DEF NoPosition, HasLot
<1>9. RaisePosition => w.pos.qty = 1
  BY <1>1 DEF RaisePosition, HasLot, LotsBefore, OneLot, Placement
<1>10. ~PositionsAdjust /\ (PositionsAdopt => sp.wallet = 1)
  BY DEF PositionsAdjust, PositionsAdopt, LotsBefore, OneLot, Placement
<1>11. CASE PositionStored
  <2>1. /\ UpdateAllowed(pos, QuantityOnly(w.bal)) => HasLot(UpdatedPosition(pos, QuantityOnly(w.bal)))
        /\ UpdateAllowed(pos, QuantityOnly(so.bal)) => HasLot(UpdatedPosition(pos, QuantityOnly(so.bal)))
        /\ UpdateAllowed(pos, w.pos) /\ w.pos.qty = 1 => HasLot(UpdatedPosition(pos, w.pos))
        /\ UpdateAllowed(pos, RearmedCopy) => HasLot(UpdatedPosition(pos, RearmedCopy))
    BY <1>1, <1>2, <1>3, <1>5
  <2>2. /\ CreatePosition => HasLot(CreatedPosition(w.row, rows[w.row].qty))
        /\ OrdersCreate => HasLot(CreatedPosition(so.row, rows[so.row].qty))
        /\ PositionsAdopt => HasLot(CreatedPosition(0, sp.wallet))
    BY <1>1, <1>4, <1>6, <1>7, <1>10
  <2>3. QED
    BY <1>8, <1>9, <1>10, <1>11, <2>1, <2>2 DEF PositionStored
<1>12. QED
  BY <1>1, <1>11, PositionWrites DEF LotsBefore

(* So every lot is one, wherever it is kept. *)
LEMMA SingleLotsKept == ASSUME LotsBefore, [SyncNext]_vars PROVE SingleLots'
<1>1. HasLot(NoPosition)
  BY DEF NoPosition, HasLot
<1>2. /\ HasLot(pos) /\ HasLot(w.pos) /\ HasLot(sp.pos) /\ HasLot(ss.pos)
      /\ hold \in {0, 1} /\ wallet \in {0, 1} /\ w.bal \in {0, 1} /\ so.bal \in {0, 1}
      /\ sp.wallet \in {0, 1} /\ ss.wallet \in {0, 1}
  BY DEF LotsBefore, OneLot, SingleLots
<1>3. Copying
  BY Copies DEF LotsBefore
<1>4. /\ wallet' \in {0, 1} /\ w'.bal \in {0, 1} /\ so'.bal \in {0, 1}
      /\ sp'.wallet \in {0, 1} /\ ss'.wallet \in {0, 1}
  BY <1>2, <1>3 DEF Copying
<1>5. \A p, q, from : Copied(p, q, from) /\ HasLot(p) /\ HasLot(from) => HasLot(q)
  BY <1>1 DEF Copied, HasLot
<1>6. HasLot(w'.pos) /\ HasLot(sp'.pos) /\ HasLot(ss'.pos)
  BY <1>1, <1>2, <1>3, <1>5 DEF Copying
<1>7. QED
  BY <1>4, <1>6, RowLotsKept, OrderLotsKept, PositionLotKept DEF SingleLots

(* A worker that leaves processSignal is at none of its places. *)
LEMMA Left == (\A s : Return(s) => w'.pc \in {"tick", "retire"}) /\ (OnError => w'.pc \in {"tick", "retire"})
BY ReturnLeaves, ErrorLeaves DEF Leaves

(* Going on keeps the signal, ... *)
LEMMA GotoOn == ASSUME w \in WorkerI PROVE \A p : Goto(p) => w'.pc = p /\ w'.h = w.h
BY GotoMoves DEF Moves

(* ... and the position and the balance that were read. *)
LEMMA GotoKeeps == ASSUME w \in WorkerI PROVE \A p : Goto(p) => w'.pc = p /\ w'.pos = w.pos /\ w'.bal = w.bal
BY GotoMoves DEF Moves

(* The worker looks for a stop order with a position, or to sell, ... *)
LEMMA StopsPlaced ==
    ASSUME LotsBefore, WorkerStep, w'.pc \in {"stops", "record"}
    PROVE  w'.h \in {"track", "sell", "waitsell"} /\ (w'.h = "track" => w'.pos.st = "known")
<1>1. w \in WorkerI /\ Arrival /\ Placement
  BY Arrivals DEF LotsBefore, IInv, WorkerIn, OneLot
<1>2. CASE w'.pc = "stops" /\ CheckPosition
  <2>1. w' = [w EXCEPT !.pc = "stops", !.pos = pos] => w'.h = w.h /\ w'.pos = pos
    BY <1>1 DEF WorkerI
  <2>2. w' = [w EXCEPT !.pc = "raise", !.pos = pos] \/ w' = [w EXCEPT !.pc = "orders", !.pos = pos] => w'.pc # "stops"
    BY <1>1 DEF WorkerI
  <2>3. QED
    BY <1>1, <1>2, <2>1, <2>2, Left, GotoOn DEF CheckPosition
<1>3. CASE w'.pc = "stops" /\ CheckBalance
  <2>1. w' = [w EXCEPT !.pc = "stops", !.bal = hold] => w'.h = w.h
    BY <1>1 DEF WorkerI
  <2>2. QED
    BY <1>1, <1>3, <2>1, Left, GotoOn DEF CheckBalance
<1>4. CASE w'.pc = "record"
  <2>1. ListOpenOrders \/ RecordOpenOrder => w'.h = w.h /\ w'.pos = w.pos /\ w.pc \in {"stops", "record"}
    BY <1>1, <1>4, Left DEF ListOpenOrders, RecordOpenOrder, WorkerI
  <2>2. QED
    BY <1>1, <1>4, <2>1 DEF Arrival, Placement
<1>5. QED
  BY <1>1, <1>2, <1>3, <1>4 DEF Arrival

(* ... decides by the signal what to do about it, ... *)
LEMMA DecisionPlaced ==
    ASSUME LotsBefore, WorkerStep
    PROVE  /\ w'.pc \in {"cancel", "canceled"} => w'.h \in {"sell", "waitsell"}
           /\ w'.pc \in {"arm", "stoprow"} => w'.h = "track"
           /\ w'.pc \in {"arm", "stoprow", "raise"} => w'.pos.st = "known"
<1>1. w \in WorkerI /\ Arrival /\ Placement
  BY Arrivals DEF LotsBefore, IInv, WorkerIn, OneLot
<1>2. w' = [w EXCEPT !.pc = "raise", !.pos.sl = TRUE] => w'.pc = "raise" /\ w'.pos.st = w.pos.st
  BY <1>1 DEF WorkerI, PositionI
<1>3. ASSUME DecideOnStop
      PROVE  /\ w'.pc = "arm" => w'.h = "track" /\ w.h = "track" /\ w'.pos = w.pos
             /\ w'.pc = "cancel" => w'.h \in {"sell", "waitsell"}
             /\ w'.pc = "raise" => w.h = "track" /\ w'.pos.st = w.pos.st
             /\ w.pc = "record"
  BY <1>1, <1>2, <1>3, Left, GotoOn, GotoKeeps DEF DecideOnStop
<1>4. CASE w'.pc \in {"arm", "cancel"}
  BY <1>1, <1>3, <1>4 DEF Arrival, Placement
<1>5. CASE w'.pc = "canceled"
  BY <1>1, <1>5, Left, GotoOn DEF Arrival, Placement, CancelStop
<1>6. CASE w'.pc = "stoprow"
  <2>1. ArmStop /\ w.pc = "arm"
    BY <1>1, <1>6 DEF Arrival, ArmStop
  <2>2. w' = [w EXCEPT !.pc = "stoprow", !.x = Len(xord) + 1] => w'.h = w.h /\ w'.pos = w.pos
    BY <1>1 DEF WorkerI
  <2>3. QED
    BY <1>1, <1>6, <2>1, <2>2, Left DEF Placement, ArmStop
<1>7. CASE w'.pc = "raise"
  <2>1. CheckPosition => w'.pos.st = "known"
    <3>1. w' = [w EXCEPT !.pc = "raise", !.pos = pos] => w'.pos = pos
      BY <1>1 DEF WorkerI
    <3>2. w' = [w EXCEPT !.pc = "stops", !.pos = pos] \/ w' = [w EXCEPT !.pc = "orders", !.pos = pos] => w'.pc # "raise"
      BY <1>1 DEF WorkerI
    <3>3. QED
      BY <1>1, <1>7, <3>1, <3>2, Left, GotoOn DEF CheckPosition
  <2>2. PersistStop => w'.pos.st = "known"
    BY <1>1, <1>2, <1>7, Left DEF PersistStop, Placement
  <2>3. QED
    BY <1>1, <1>3, <1>7, <2>1, <2>2 DEF Arrival, Placement
<1>8. QED
  BY <1>4, <1>5, <1>6, <1>7

(* ... and sells what it found.                                             *)
LEMMA OrderPlacedBy ==
    ASSUME LotsBefore, WorkerStep
    PROVE  /\ w'.pc \in {"persist", "send"} => w'.h \in {"buy", "sell", "waitsell"}
           /\ w'.pc = "persist" /\ w'.h # "buy" => w'.bal = 1
<1>1. w \in WorkerI /\ w.bal \in {0, 1} /\ Arrival /\ Placement
  BY Arrivals DEF LotsBefore, IInv, WorkerIn, OneLot, SingleLots
<1>2. CASE w'.pc = "send"
  <2>1. PersistOrder /\ w.pc = "persist"
    BY <1>1, <1>2 DEF Arrival, PersistOrder
  <2>2. w' = [w EXCEPT !.pc = "send", !.row = Len(rows) + 1] => w'.h = w.h
    BY <1>1 DEF WorkerI
  <2>3. QED
    BY <1>1, <1>2, <2>1, <2>2, Left DEF Placement, PersistOrder
<1>3. CASE w'.pc = "persist" /\ CheckBalance
  <2>1. w' = [w EXCEPT !.pc = "stops", !.bal = hold] => w'.pc # "persist"
    BY <1>1 DEF WorkerI
  <2>2. QED
    BY <1>1, <1>3, <2>1, Left, GotoOn DEF CheckBalance
<1>4. CASE w'.pc = "persist" /\ DecideOnStop
  <2>1. w' = [w EXCEPT !.pc = "raise", !.pos.sl = TRUE] => w'.pc # "persist"
    BY <1>1 DEF WorkerI
  <2>2. QED
    BY <1>1, <1>4, <2>1, Left, GotoOn, GotoKeeps DEF DecideOnStop
<1>5. CASE w'.pc = "persist" /\ StoreCanceled
  BY <1>1, <1>5, Left, GotoOn, GotoKeeps DEF StoreCanceled, Placement
<1>6. QED
  BY <1>1, <1>2, <1>3, <1>4, <1>5 DEF Arrival

(* SyncPositions finds nothing to adjust: the balance is no other lot. *)
LEMMA PositionsPlaced ==
    ASSUME LotsBefore, [SyncNext]_vars
    PROVE  sp'.pc # "adjust" /\ (sp'.pc \in {"pairs", "orders", "adopt"} => sp'.wallet = 1)
<1>1. /\ sp \in PositionsI /\ wallet \in {0, 1} /\ HasLot(sp.pos)
      /\ sp.pc # "adjust" /\ (sp.pc \in {"pairs", "orders", "adopt"} => sp.wallet = 1)
  BY DEF LotsBefore, IInv, PositionsIn, OneLot, SingleLots, Placement
<1>2. SyncPositions => sp'.pc # "adjust" /\ (sp'.pc \in {"pairs", "orders", "adopt"} => sp'.wallet = 1)
  <2>1. PositionsIdle.pc = "idle"
    BY DEF PositionsIdle
  <2>2. PositionsStart \/ PositionsRead \/ PositionsDelete \/ PositionsAdjust \/ PositionsAdopt
           => sp'.pc \in {"idle", "read", "wallet"}
    BY <1>1, <2>1 DEF PositionsStart, PositionsRead, PositionsDelete, PositionsAdjust, PositionsAdopt,
       PositionsI, PositionsIdle
  <2>3. PositionsWallet => sp'.pc # "adjust" /\ (sp'.pc \in {"pairs", "orders", "adopt"} => sp'.wallet = 1)
    <3>1. sp.pos.st # "none" => sp.pos.qty = 1
      BY <1>1 DEF HasLot
    <3>2. PositionsWallet => \/ sp' = PositionsIdle \/ sp' = [sp EXCEPT !.pc = "delete"]
                             \/ sp' = [sp EXCEPT !.pc = "pairs", !.wallet = wallet] /\ wallet = 1
      BY <1>1, <3>1 DEF PositionsWallet
    <3>3. QED
      BY <1>1, <2>1, <3>2 DEF PositionsI
  <2>4. PositionsPairs \/ PositionsOrders => sp'.pc # "adjust" /\ (sp'.pc \in {"pairs", "orders", "adopt"} => sp'.wallet = 1)
    BY <1>1, <2>1 DEF PositionsPairs, PositionsOrders, PositionsI
  <2>5. QED
    BY <2>2, <2>3, <2>4 DEF SyncPositions
<1>3. ~SyncPositions => UNCHANGED sp \/ sp' = PositionsIdle
  BY DEF SyncNext, Pair, tasks, Crash, vars, SyncOrders, OrdersStart, OrdersFetch, OrdersCreate, OrdersBalance,
     OrdersQuantity, SyncStopOrders, StopsStart, StopsRead, StopsWallet, StopsRows, StopsFetch, StopsLatest,
     StopsCancel, StopsStore, StopsRearm
<1>4. QED
  BY <1>1, <1>2, <1>3 DEF PositionsIdle

(* Together. *)
LEMMA PlacementKept == ASSUME LotsBefore, [SyncNext]_vars PROVE Placement'
<1>1. CASE ByWorker
  BY <1>1, StopsPlaced, DecisionPlaced, OrderPlacedBy, PositionsPlaced DEF ByWorker, Placement
<1>2. CASE UNCHANGED w
  BY <1>2, PositionsPlaced DEF LotsBefore, OneLot, Placement
<1>3. CASE w' = Idle
  BY <1>3, PositionsPlaced DEF Idle, Placement
<1>4. QED
  BY <1>1, <1>2, <1>3, Movers
----------------------------------------------------------------------------
(* What an open market order has. *)
LEMMA OpenMarket ==
    ASSUME LotsBefore, NEW x \in 1..Len(xord), xord[x].kind = "market", xord[x].status = "open"
    PROVE  /\ xord[x].cid \in 1..Len(rows) /\ xord[x].cid # 0
           /\ rows[xord[x].cid].side = xord[x].side /\ rows[xord[x].cid].kind = "market"
           /\ Tracked(x)
<1>1. Tracked(x) /\ xord[x].cid \notin {0, Unnamed}
  BY DEF LotsBefore, OneLot, Tracking, SingleLots
<1>2. xord[x].cid \in 1..Len(rows) /\ rows[xord[x].cid].side = xord[x].side
  BY <1>1 DEF LotsBefore, IInv, BookIn, OrderIn
<1>3. rows[xord[x].cid].kind = "market"
  BY <1>1 DEF LotsBefore, IInv, BookIn, OrderIn
<1>4. QED
  BY <1>1, <1>2, <1>3

(* What is written to its row leaves the row open.                          *)
LEMMA TrackedRowKept ==
    ASSUME LotsBefore, UNCHANGED xord, RowWritten,
           NEW x \in 1..Len(xord), xord[x].kind = "market", xord[x].status = "open"
    PROVE  Tracked(x)'
<1> DEFINE c == xord[x].cid
<1>1. /\ c \in 1..Len(rows) /\ c # 0 /\ Len(rows) \in Nat /\ DOMAIN xord = 1..Len(xord)
      /\ rows[c].xid \in {0, x} /\ rows[c].status \in {"new", "open"} /\ (rows[c].xid = 0 => rows[c].status = "new")
      /\ xord'[x].cid = c
  <2>1. c \in 1..Len(rows) /\ c # 0 /\ Tracked(x)
    BY OpenMarket
  <2>2. QED
    BY <2>1 DEF Tracked, LotsBefore, IInv, BookIn
<1> HIDE DEF c
<1>2. SUFFICES rows'[c].xid \in {0, x} /\ rows'[c].status \in {"new", "open"}
               /\ (rows'[c].xid = 0 => rows'[c].status = "new")
  BY <1>1 DEF Tracked
<1>3. ASSUME NEW xid, NEW side, NEW kind, NEW status, NEW qty, RowAdded(rows, rows', xid, side, kind, status, qty)
      PROVE  rows'[c] = rows[c]
  BY <1>1, <1>3 DEF RowAdded
<1>4. ASSUME NEW y, NEW status, RowsStated(rows, rows', y, status),
             rows[c].xid = y => status = "open" /\ y # 0
      PROVE  /\ rows'[c].xid = rows[c].xid
             /\ rows'[c].status = rows[c].status \/ (rows'[c].status = "open" /\ rows[c].xid # 0)
  BY <1>1, <1>4 DEF RowsStated
<1>5. ASSUME NEW r, NEW y, NEW status, RowLinked(rows, rows', r, y, status), r # c
      PROVE  rows'[c] = rows[c]
  BY <1>1, <1>5 DEF RowLinked
<1>6. CASE /\ ByWorker /\ Lookup
           /\ \E y \in Matches(w.row) : LinkAllowed(rows, y) /\ RowLinked(rows, rows', w.row, y, "new")
  <2>1. PICK y \in Matches(w.row) : RowLinked(rows, rows', w.row, y, "new")
    BY <1>6
  <2>2. CASE w.row = c
    <3>1. y \in 1..Len(xord) /\ xord[y].cid = c
      <4>1. w.row # 0
        BY <1>1, <2>2
      <4>2. y \in 1..Len(xord) /\ xord[y].cid \in {w.row, Unnamed}
        BY <1>1, <2>1 DEF Matches
      <4>3. QED
        BY <2>2, <4>2 DEF LotsBefore, OneLot, SingleLots
    <3>2. y = x
      BY <1>1, <3>1 DEF LotsBefore, Unsent, c
    <3>3. rows'[c].xid = y /\ rows'[c].status = "new"
      BY <2>1, <2>2 DEF RowLinked
    <3>4. QED
      BY <3>2, <3>3
  <2>3. CASE w.row # c
    BY <1>1, <1>5, <2>1, <2>3
  <2>4. QED
    BY <2>2, <2>3
<1>7. CASE ByWorker /\ GiveUp /\ RowLinked(rows, rows', w.row, 0, "rejected")
  <2>1. w.row # c
    BY <1>7 DEF GiveUp, LotsBefore, Unsent, c
  <2>2. QED
    BY <1>1, <1>5, <1>7, <2>1
<1>8. CASE ByWorker /\ ConfirmOrder /\ RowLinked(rows, rows', w.row, w.x, w.resp)
  <2>1. /\ w.x \in 1..Len(xord) /\ xord[w.x].cid = w.row
        /\ w.resp = "open" \/ (w.resp = "closed" /\ xord[w.x].status = "closed")
    BY <1>8 DEF ConfirmOrder, LotsBefore, IInv, WorkerIn
  <2>2. CASE w.row = c
    <3>1. w.x = x
      BY <1>1, <2>1, <2>2 DEF LotsBefore, Unsent, c
    <3>2. w.resp = "open" /\ x # 0
      BY <2>1, <3>1
    <3>3. rows'[c].xid = x /\ rows'[c].status = "open"
      BY <1>8, <2>2, <3>1, <3>2 DEF RowLinked
    <3>4. QED
      BY <3>2, <3>3
  <2>3. QED
    BY <1>1, <1>5, <1>8, <2>2
<1>9. CASE OrdersFetch /\ \E r \in so.todo : RowsStated(rows, rows', rows[r].xid, xord[rows[r].xid].status)
  <2>1. PICK r \in so.todo : RowsStated(rows, rows', rows[r].xid, xord[rows[r].xid].status)
    BY <1>9
  <2>2. rows[r].xid # 0
    BY DEF LotsBefore, IInv, OrdersIn
  <2>3. rows[c].xid = rows[r].xid => xord[rows[r].xid].status = "open"
    BY <1>1, <2>2
  <2>4. QED
    BY <1>1, <1>4, <2>1, <2>2, <2>3
<1>10. ASSUME NEW y \in 1..Len(xord), xord[y].kind = "stop", RowsStated(rows, rows', y, xord[y].status)
       PROVE  rows'[c].xid \in {0, x} /\ rows'[c].status \in {"new", "open"}
              /\ (rows'[c].xid = 0 => rows'[c].status = "new")
  <2>1. rows[c].xid # y
    BY <1>1, <1>10
  <2>2. QED
    BY <1>1, <1>4, <1>10, <2>1
<1>11. ASSUME NEW y \in w.todo, RowsStated(rows, rows', y, "open")
       PROVE  rows'[c].xid \in {0, x} /\ rows'[c].status \in {"new", "open"}
              /\ (rows'[c].xid = 0 => rows'[c].status = "new")
  <2>1. y # 0
    BY <1>11 DEF LotsBefore, IInv, WorkerIn, Own
  <2>2. QED
    BY <1>1, <1>4, <1>11, <2>1
<1>12. QED
  BY <1>1, <1>3, <1>6, <1>7, <1>8, <1>9, <1>10, <1>11 DEF RowWritten

(* A row under way is there when an order is sent; nothing reopens one.     *)
LEMMA TrackingKept == ASSUME LotsBefore, [SyncNext]_vars PROVE Tracking'
<1>1. CASE UNCHANGED <<rows, xord>>
  BY <1>1 DEF LotsBefore, OneLot, Tracking, Tracked
<1>2. CASE UNCHANGED xord /\ RowWritten
  BY <1>2, TrackedRowKept DEF Tracking
<1>3. ASSUME UNCHANGED rows, NEW cid, NEW side, NEW kind, NEW status,
             Placed(xord, xord', cid, side, kind, 1, status),
             kind = "market" => rows[cid].xid = 0 /\ rows[cid].status = "new"
      PROVE  Tracking'
  <2>1. /\ Len(xord') = Len(xord) + 1 /\ \A x \in 1..Len(xord) : xord'[x] = xord[x] /\ Len(xord) \in Nat
        /\ xord'[Len(xord) + 1] = [cid |-> cid, side |-> side, kind |-> kind, qty |-> 1, status |-> status]
    BY <1>3 DEF Placed, LotsBefore, IInv, BookIn
  <2>2. ASSUME NEW x \in 1..Len(xord'), xord'[x].kind = "market", xord'[x].status = "open" PROVE Tracked(x)'
    <3>1. CASE x \in 1..Len(xord)
      BY <1>3, <2>1, <2>2, <3>1 DEF LotsBefore, OneLot, Tracking, Tracked
    <3>2. CASE x = Len(xord) + 1
      BY <1>3, <2>1, <2>2, <3>2 DEF Tracked
    <3>3. Len(xord) \in Nat
      BY DEF LotsBefore, IInv, BookIn
    <3>4. QED
      BY <2>1, <3>1, <3>2, <3>3
  <2>3. QED
    BY <2>2 DEF Tracking
<1>4. ASSUME UNCHANGED rows, NEW side, NEW status, OrderSent(side, status) PROVE Tracking'
  <2>1. rows[w.row].xid = 0 /\ rows[w.row].status = "new"
    BY <1>4 DEF OrderSent, SendOrder, LotsBefore, IInv, WorkerIn, OneLot, SingleBuy
  <2>2. Placed(xord, xord', w.row, side, "market", 1, status)
    BY <1>4 DEF OrderSent
  <2>3. QED
    BY <1>3, <1>4, <2>1, <2>2
<1>5. CASE UNCHANGED rows /\ OrderArmed
  <2>1. Placed(xord, xord', 0, "sell", "stop", 1, "open")
    BY <1>5 DEF OrderArmed
  <2>2. "stop" # "market"
    OBVIOUS
  <2>3. QED
    BY <1>3, <1>5, <2>1, <2>2
<1>6. ASSUME UNCHANGED rows, NEW x \in 1..Len(xord), NEW status, OrderEnded(x, status) PROVE Tracking'
  <2>1. Turned(xord, xord', x, status) /\ status # "open"
    BY <1>6 DEF OrderEnded
  <2>2. QED
    BY <1>6, <2>1 DEF Turned, LotsBefore, OneLot, Tracking, Tracked
<1>7. QED
  BY <1>1, <1>2, <1>4, <1>5, <1>6, RowWrites, MarketMoves DEF LotsBefore, MarketMoved
----------------------------------------------------------------------------
(* At most one buy is open, and none while a lot is held; only the worker   *)
(* makes the first.                                                         *)
LEMMA BuysKept ==
    ASSUME LotsBefore, [SyncNext]_vars
    PROVE  /\ \A x, y \in Buys' : x = y
           /\ Buys' # {} => hold' = 0
           /\ Buys = {} /\ ~(ByWorker /\ SendOrder) => Buys' = {} /\ (hold = 0 => hold' = 0)
<1> DEFINE Goal == /\ \A x, y \in Buys' : x = y
                   /\ Buys' # {} => hold' = 0
                   /\ Buys = {} /\ ~(ByWorker /\ SendOrder) => Buys' = {} /\ (hold = 0 => hold' = 0)
<1>1. xord \in Seq(OrderI) /\ (\A x, y \in Buys : x = y) /\ (Buys # {} => hold = 0)
  BY DEF LotsBefore, IInv, BookIn, OneLot, SingleBuy
<1>2. CASE UNCHANGED <<xord, hold>>
  BY <1>1, <1>2 DEF Buys
<1>3. ASSUME NEW side, NEW status, OrderSent(side, status) PROVE Goal
  <2>1. Placed(xord, xord', w.row, side, "market", 1, status)
    BY <1>3 DEF OrderSent
  <2>2. /\ status = "open" /\ side = "buy" => Buys' = Buys \cup {Len(xord) + 1}
        /\ ~(status = "open" /\ side = "buy") => Buys' = Buys
    BY <1>1, <2>1, PlacedLive DEF Buys
  <2>3. CASE side = "buy"
    BY <1>3, <2>2, <2>3 DEF OrderSent
  <2>4. CASE side = "sell"
    BY <1>1, <1>3, <2>2, <2>4 DEF OrderSent
  <2>5. QED
    BY <1>3, <2>3, <2>4 DEF OrderSent
<1>4. CASE OrderArmed
  <2>1. Buys' = Buys
    BY <1>1, <1>4, PlacedLive DEF Buys, OrderArmed
  <2>2. QED
    BY <1>1, <1>4, <2>1 DEF OrderArmed
<1>5. ASSUME NEW x \in 1..Len(xord), NEW status, OrderEnded(x, status) PROVE Goal
  <2>1. Turned(xord, xord', x, status) /\ status # "open" /\ xord[x].status = "open"
    BY <1>5 DEF OrderEnded
  <2>2. Buys' = Buys \ {x}
    BY <1>1, <2>1, TurnedLive DEF Buys
  <2>3. x \in Buys => Buys' = {}
    BY <1>1, <2>2
  <2>4. xord[x].side \in {"buy", "sell"} /\ xord[x].kind \in {"market", "stop"}
    <3>1. xord[x] \in OrderI
      BY <1>1
    <3>2. QED
      BY <3>1 DEF OrderI, Sides, Kinds
  <2>5. xord[x].kind # "stop" /\ xord[x].side = "buy" => x \in Buys
    BY <2>1, <2>4 DEF Buys, LiveIn
  <2>6. CASE x \in Buys
    BY <2>3, <2>6
  <2>7. CASE x \notin Buys
    <3>1. hold' = hold \/ hold = 1
      BY <1>5, <2>5, <2>7 DEF OrderEnded
    <3>2. QED
      BY <1>1, <2>2, <2>7, <3>1
  <2>8. QED
    BY <2>6, <2>7
<1>6. QED
  BY <1>2, <1>3, <1>4, <1>5, MarketMoves DEF LotsBefore, MarketMoved

(* The worker looks for an open buy before it buys, and for a lot.          *)
LEMMA BuyerKept ==
    ASSUME LotsBefore, WorkerStep, UNCHANGED tasks
    PROVE  /\ w'.pc \in {"balance", "persist", "send"} /\ w'.h = "buy" => Buys' = {}
           /\ w'.pc \in {"persist", "send"} /\ w'.h = "buy" => hold' = 0
<1>1. w \in WorkerI /\ Arrival /\ Placement
  BY Arrivals DEF LotsBefore, IInv, WorkerIn, OneLot
<1>2. CASE w'.pc = "balance" /\ w'.h = "buy"
  <2>1. CheckOpenOrders /\ UNCHANGED <<xord, hold>>
    BY <1>1, <1>2 DEF Arrival, CheckOpenOrders, exchange
  <2>2. w.h = "buy" /\ Select(rows, {"new", "open"}, {"market"}, {"buy"}) = {}
    BY <1>1, <1>2, <2>1, Left, GotoOn DEF CheckOpenOrders
  <2>3. ASSUME NEW x \in Buys PROVE FALSE
    <3>1. x \in 1..Len(xord) /\ xord[x].kind = "market" /\ xord[x].status = "open" /\ xord[x].side = "buy"
      BY DEF Buys, LiveIn
    <3>2. xord[x].cid \in Select(rows, {"new", "open"}, {"market"}, {"buy"})
      BY <3>1, OpenMarket DEF Tracked, Select, LotsBefore, IInv, BookIn
    <3>3. QED
      BY <2>2, <3>2
  <2>4. QED
    BY <1>2, <2>1, <2>3 DEF Buys
<1>3. CASE w'.pc = "persist" /\ w'.h = "buy"
  <2>1. DecideOnStop => w'.h # "buy"
    <3>1. w' = [w EXCEPT !.pc = "raise", !.pos.sl = TRUE] => w'.pc # "persist"
      BY <1>1 DEF WorkerI
    <3>2. QED
      BY <1>1, <1>3, <3>1, Left, GotoOn DEF DecideOnStop
  <2>2. StoreCanceled => w'.h # "buy"
    BY <1>1, <1>3, Left, GotoOn DEF StoreCanceled, Placement
  <2>3. CheckBalance /\ UNCHANGED <<xord, hold>> /\ w.pc = "balance"
    BY <1>1, <1>3, <2>1, <2>2 DEF Arrival, CheckBalance, exchange
  <2>4. w.h = "buy" /\ hold = 0
    <3>1. w' = [w EXCEPT !.pc = "stops", !.bal = hold] => w'.pc # "persist"
      BY <1>1 DEF WorkerI
    <3>2. QED
      BY <1>1, <1>3, <2>3, <3>1, Left, GotoOn DEF CheckBalance
  <2>5. QED
    BY <2>3, <2>4 DEF LotsBefore, OneLot, SingleBuy, Buys
<1>4. CASE w'.pc = "send" /\ w'.h = "buy"
  <2>1. PersistOrder /\ UNCHANGED <<xord, hold>> /\ w.pc = "persist"
    BY <1>1, <1>4 DEF Arrival, PersistOrder, exchange
  <2>2. w' = [w EXCEPT !.pc = "send", !.row = Len(rows) + 1] => w'.h = w.h
    BY <1>1 DEF WorkerI
  <2>3. w.h = "buy"
    BY <1>4, <2>1, <2>2, Left DEF PersistOrder
  <2>4. QED
    BY <2>1, <2>3 DEF LotsBefore, OneLot, SingleBuy, Buys
<1>5. QED
  BY <1>2, <1>3, <1>4

(* Nobody touches the row that is about to be sent. *)
LEMMA SentRowKept ==
    ASSUME LotsBefore, [SyncNext]_vars, w'.pc = "send"
    PROVE  rows'[w'.row].status = "new" /\ (rows'[w'.row].side = "buy" <=> w'.h = "buy")
<1>1. w \in WorkerI /\ rows \in Seq(RowI) /\ Len(rows) \in Nat
  BY DEF LotsBefore, IInv, WorkerIn, BookIn
<1>2. CASE ByWorker
  <2>1. Arrival
    BY <1>2, Arrivals DEF LotsBefore, ByWorker
  <2>2. PersistOrder
    BY <2>1 DEF Arrival
  <2>3. /\ w'.row = Len(rows) + 1 /\ w'.h = w.h
        /\ rows' = Inserted(rows, IF w.h = "buy" THEN "buy" ELSE "sell", IF w.h = "buy" THEN 1 ELSE w.bal)
    <3>1. w' = [w EXCEPT !.pc = "send", !.row = Len(rows) + 1] => w'.row = Len(rows) + 1 /\ w'.h = w.h
      BY <1>1 DEF WorkerI
    <3>2. QED
      BY <2>2, <3>1, Left DEF PersistOrder
  <2>4. RowAdded(rows, rows', 0, IF w.h = "buy" THEN "buy" ELSE "sell", "market", "new",
                 IF w.h = "buy" THEN 1 ELSE w.bal)
    BY <1>1, <2>3, InsertedRow
  <2>5. rows'[w'.row].status = "new" /\ rows'[w'.row].side = IF w.h = "buy" THEN "buy" ELSE "sell"
    BY <2>3, <2>4 DEF RowAdded
  <2>6. QED
    BY <2>3, <2>5
<1>3. CASE ~ByWorker /\ UNCHANGED w
  <2>1. /\ w.row \in 1..Len(rows) /\ rows[w.row].xid = 0
        /\ rows[w.row].status = "new" /\ (rows[w.row].side = "buy" <=> w.h = "buy")
    BY <1>3 DEF LotsBefore, IInv, WorkerIn, OneLot, SingleBuy
  <2>2. CASE UNCHANGED rows
    BY <1>3, <2>1, <2>2
  <2>3. ASSUME NEW x, NEW status, x # 0, RowsStated(rows, rows', x, status)
        PROVE  rows'[w.row].status = rows[w.row].status /\ rows'[w.row].side = rows[w.row].side
    BY <2>1, <2>3 DEF RowsStated
  <2>4. ASSUME NEW xid, NEW side, NEW kind, NEW status, NEW qty, RowAdded(rows, rows', xid, side, kind, status, qty)
        PROVE  rows'[w.row].status = rows[w.row].status /\ rows'[w.row].side = rows[w.row].side
    BY <2>1, <2>4 DEF RowAdded
  <2>5. \A r \in so.todo : rows[r].xid # 0
    BY DEF LotsBefore, IInv, OrdersIn
  <2>6. CASE RowWritten
    BY <1>3, <2>1, <2>3, <2>4, <2>5, <2>6 DEF RowWritten
  <2>7. QED
    BY <2>2, <2>6, RowWrites DEF LotsBefore
<1>4. QED
  BY <1>2, <1>3, Movers DEF Idle

(* Together. *)
LEMMA SingleBuyKept == ASSUME LotsBefore, [SyncNext]_vars PROVE SingleBuy'
<1>1. /\ w'.pc \in {"balance", "persist", "send"} /\ w'.h = "buy" => Buys' = {}
      /\ w'.pc \in {"persist", "send"} /\ w'.h = "buy" => hold' = 0
  <2>1. CASE ByWorker
    BY <2>1, BuyerKept DEF ByWorker
  <2>2. CASE UNCHANGED w /\ ~ByWorker
    BY <2>2, BuysKept DEF LotsBefore, OneLot, SingleBuy
  <2>3. QED
    BY <2>1, <2>2, Movers DEF Idle
<1>2. QED
  BY <1>1, BuysKept, SentRowKept DEF SingleBuy

(* Nothing is there at first. *)
LEMMA OneLotAtFirst == SyncInit => OneLot
<1> SUFFICES ASSUME SyncInit PROVE OneLot
  OBVIOUS
<1>1. xord = <<>> /\ rows = <<>> /\ hold = 0 /\ wallet = 0 /\ pos = NoPosition
      /\ w = Idle /\ so = OrdersIdle /\ sp = PositionsIdle /\ ss = StopsIdle
  BY DEF SyncInit, Init
<1>2. Buys = {}
  BY <1>1 DEF Buys, LiveIn
<1>3. QED
  BY <1>1, <1>2 DEF OneLot, SingleLots, Placement, Tracking, SingleBuy, HasLot, Idle, OrdersIdle,
     PositionsIdle, StopsIdle, NoPosition

(* The accounts of a pair that nobody else trades come down to one lot.     *)
THEOREM OneLotKept == ASSUME {"link", "late", "manual"} \cap Faults = {} PROVE SyncSpec => []OneLot
<1>1. IInv /\ Accounted /\ Unsent /\ OneLot /\ [SyncNext]_vars => OneLot'
  <2>1. {"manual", "late"} \cap Faults = {}
    OBVIOUS
  <2>2. QED
    BY <2>1, SingleLotsKept, PlacementKept, TrackingKept, SingleBuyKept DEF OneLot, LotsBefore
<1>2. {"link", "late"} \cap Faults = {}
  OBVIOUS
<1>3. SyncSpec => []Unsent
  BY <1>2, SentOnce
<1>4. QED
  BY <1>1, <1>3, OneLotAtFirst, Consistent, AccountsKept, PTL DEF SyncSpec

(* Never more than one lot is bought or being bought, whatever fails, is    *)
(* lost, canceled or filled in part, and wherever the bot restarts.         *)
THEOREM NeverDoubleBuy == ASSUME {"link", "late", "manual"} \cap Faults = {} PROVE SyncSpec => []NoDoubleBuy
<1>1. ASSUME IInv, OneLot PROVE NoDoubleBuy
  <2>1. /\ xord \in Seq(OrderI) /\ \A x \in 1..Len(xord) : xord[x].qty = 1
        /\ hold \in {0, 1} /\ \A x, y \in Buys : x = y /\ (Buys # {} => hold = 0)
    BY <1>1 DEF IInv, BookIn, OneLot, SingleLots, SingleBuy
  <2>2. LotsOf(Live("buy", "market")) = LotsIn(xord, Buys)
    BY <2>1, LiveLots DEF Buys
  <2>3. CASE Buys = {}
    BY <2>1, <2>2, <2>3, LotsNone DEF NoDoubleBuy
  <2>4. CASE Buys # {}
    <3>1. PICK x \in Buys : Buys = {x}
      BY <2>1, <2>4
    <3>2. IsFiniteSet(Buys) /\ Buys \subseteq 1..Len(xord)
      BY <2>1, LiveFinite DEF Buys
    <3>3. \A y \in Buys : xord[y].qty \in Nat
      BY <2>1, <3>2
    <3>4. LotsIn(xord, Buys) = LotsIn(xord, Buys \ {x}) + xord[x].qty /\ Buys \ {x} = {} /\ xord[x].qty = 1
      BY <2>1, <3>1, <3>2, <3>3, LotsSplit
    <3>5. LotsIn(xord, {}) = 0
      BY LotsNone
    <3>6. hold = 0
      BY <1>1, <2>4 DEF OneLot, SingleBuy
    <3>7. QED
      BY <2>2, <3>4, <3>5, <3>6 DEF NoDoubleBuy
  <2>5. QED
    BY <2>3, <2>4
<1>2. SyncSpec => []OneLot
  BY OneLotKept
<1>3. QED
  BY <1>1, <1>2, Consistent, PTL
----------------------------------------------------------------------------
(* The open orders the worker has listed and not passed over yet.           *)
Picked == w.todo \cup ({w.x} \ {0})

(* There is one stop order at most; the worker that looks for it misses     *)
(* none, and at the places that follow it has it or there is none.          *)
StopKnown ==
    /\ \A x, y \in Stops : x = y
    /\ w.pc = "record" => /\ \A x, y \in Picked : xord[x].kind = "stop" /\ xord[y].kind = "stop" => x = y
                          /\ Stops \subseteq Picked
    /\ w.pc = "cancel" => Stops \subseteq {w.x}
    /\ w.pc \in {"arm", "canceled"} => Stops = {}
    /\ w.pc \in {"persist", "send"} /\ w.h # "buy" => Stops = {}

StopsBefore == LotsBefore /\ StopKnown /\ "db" \notin Faults

(* What becomes of the stop orders: one is placed where there is none, one  *)
(* ends, or nothing changes.                                                *)
LEMMA StopsMoved ==
    ASSUME StopsBefore, [SyncNext]_vars
    PROVE  \/ ByWorker /\ ArmStop /\ Stops = {} /\ Stops' = {Len(xord) + 1}
           \/ /\ Stops' \subseteq Stops
              /\ \A x \in 1..Len(xord) : xord'[x].kind = xord[x].kind
<1> DEFINE Goal == \/ ByWorker /\ ArmStop /\ Stops = {} /\ Stops' = {Len(xord) + 1}
                   \/ /\ Stops' \subseteq Stops
                      /\ \A x \in 1..Len(xord) : xord'[x].kind = xord[x].kind
<1>1. xord \in Seq(OrderI) /\ LotsBefore
  BY DEF StopsBefore, LotsBefore, IInv, BookIn
<1>2. CASE UNCHANGED <<xord, hold>>
  BY <1>2 DEF Stops
<1>3. ASSUME NEW side, NEW status, OrderSent(side, status) PROVE Goal
  <2>1. Placed(xord, xord', w.row, side, "market", 1, status)
    BY <1>3 DEF OrderSent
  <2>2. Stops' = Stops
    BY <1>1, <2>1, PlacedLive DEF Stops
  <2>3. QED
    BY <2>1, <2>2 DEF Placed
<1>4. CASE OrderArmed
  <2>1. Stops' = Stops \cup {Len(xord) + 1} /\ ByWorker /\ ArmStop
    BY <1>1, <1>4, PlacedLive DEF Stops, OrderArmed
  <2>2. Stops = {}
    BY <2>1 DEF ArmStop, StopsBefore, StopKnown
  <2>3. QED
    BY <2>1, <2>2
<1>5. ASSUME NEW x \in 1..Len(xord), NEW status, OrderEnded(x, status) PROVE Goal
  <2>1. Turned(xord, xord', x, status) /\ status # "open"
    BY <1>5 DEF OrderEnded
  <2>2. Stops' = Stops \ {x}
    BY <1>1, <2>1, TurnedLive DEF Stops
  <2>3. QED
    BY <2>1, <2>2 DEF Turned
<1>6. QED
  BY <1>1, <1>2, <1>3, <1>4, <1>5, MarketMoves DEF LotsBefore, MarketMoved

(* The worker misses no stop order: it lists all that are open and leaves   *)
(* out only those whose row is another's, which are market orders.          *)
LEMMA PickedKept ==
    ASSUME StopsBefore, WorkerStep, UNCHANGED tasks, w'.pc = "record"
    PROVE  /\ \A x, y \in Picked' : xord'[x].kind = "stop" /\ xord'[y].kind = "stop" => x = y
           /\ Stops' \subseteq Picked'
<1>1. w \in WorkerI /\ Arrival /\ xord \in Seq(OrderI) /\ DOMAIN xord = 1..Len(xord) /\ DOMAIN rows = 1..Len(rows)
  BY Arrivals DEF StopsBefore, LotsBefore, IInv, WorkerIn, BookIn
<1>2. CASE ListOpenOrders
  <2> DEFINE open == {x \in DOMAIN xord : xord[x].status = "open"}
  <2>1. w.x = 0 /\ UNCHANGED xord
    BY <1>2 DEF ListOpenOrders, exchange, StopsBefore, LotsBefore, IInv, WorkerIn, Fresh
  <2>2. w'.todo = open /\ w'.x = w.x
    <3>1. w' = [w EXCEPT !.pc = "record", !.todo = open] => w'.todo = open /\ w'.x = w.x
      BY <1>1 DEF WorkerI
    <3>2. QED
      BY <1>2, <3>1, Left DEF ListOpenOrders
  <2>3. Picked' = open /\ Stops' = Stops
    BY <2>1, <2>2 DEF Picked, Stops
  <2>4. Stops \subseteq open
    BY <1>1 DEF Stops, LiveIn
  <2>5. \A x \in open : xord[x].kind = "stop" => x \in Stops
    BY <1>1 DEF Stops, LiveIn, StopsBefore, LotsBefore, OneLot, SingleLots
  <2>6. \A x, y \in Stops : x = y
    BY DEF StopsBefore, StopKnown
  <2> HIDE DEF open
  <2>7. QED
    BY <2>1, <2>3, <2>4, <2>5, <2>6
<1>3. CASE RecordOpenOrder
  <2> DEFINE x == Min(w.todo)
  <2>1. x \in w.todo /\ x \in 1..Len(xord) /\ w.pc = "record" /\ UNCHANGED xord
    <3>1. w.todo \in SUBSET Nat /\ w.todo # {} /\ w.todo \subseteq 1..Len(xord)
      BY <1>3 DEF RecordOpenOrder, StopsBefore, LotsBefore, IInv, WorkerIn, BookIn, Own
    <3>2. QED
      BY <1>3, <3>1, MinPlace DEF RecordOpenOrder, exchange
  <2>2. /\ \A y, z \in Picked : xord[y].kind = "stop" /\ xord[z].kind = "stop" => y = z
        /\ Stops \subseteq Picked /\ Stops' = Stops
        /\ w.x # 0 => xord[w.x].kind = "stop"
    BY <2>1 DEF StopsBefore, StopKnown, LotsBefore, IInv, WorkerIn, Stops
  <2>3. w'.todo = w.todo \ {x} /\ w'.x \in {w.x, x} /\ (w.x # 0 => w'.x = w.x)
        /\ (xord[x].kind = "stop" /\ w.x = 0 => w'.x = x)
    <3>1. ASSUME w' = [w EXCEPT !.todo = @ \ {x}, !.x = IF @ = 0 /\ xord[x].kind = "stop" THEN x ELSE @]
          PROVE  w'.todo = w.todo \ {x} /\ w'.x = IF w.x = 0 /\ xord[x].kind = "stop" THEN x ELSE w.x
      BY <1>1, <3>1 DEF WorkerI
    <3>2. ASSUME w' = [w EXCEPT !.todo = @ \ {x}] PROVE w'.todo = w.todo \ {x} /\ w'.x = w.x
      BY <1>1, <3>2 DEF WorkerI
    <3>3. ~UpsertAllowed(rows, x, xord[x]) => xord[x].kind # "stop"
      <4>1. xord[x].cid \in 1..Len(rows) => xord[x].kind = "market"
        BY <2>1 DEF StopsBefore, LotsBefore, IInv, BookIn, OrderIn
      <4>2. QED
        BY <1>1, <4>1 DEF UpsertAllowed
    <3>4. ~Fails({"db"})
      BY DEF StopsBefore, Fails
    <3>5. \/ w' = [w EXCEPT !.todo = @ \ {x}, !.x = IF @ = 0 /\ xord[x].kind = "stop" THEN x ELSE @]
          \/ ~UpsertAllowed(rows, x, xord[x]) /\ w' = [w EXCEPT !.todo = @ \ {x}]
      BY <1>3, <3>4 DEF RecordOpenOrder
    <3> HIDE DEF x
    <3>6. QED
      BY <3>1, <3>2, <3>3, <3>5
  <2> HIDE DEF x
  <2>4. Picked' \subseteq Picked
    BY <2>1, <2>3 DEF Picked
  <2>5. ASSUME NEW y \in Stops PROVE y \in Picked'
    <3>1. y \in Picked /\ y # 0 /\ xord[y].kind = "stop"
      BY <2>2 DEF Stops, LiveIn
    <3>2. y = x => y \in Picked'
      BY <2>1, <2>2, <2>3, <3>1 DEF Picked
    <3>3. QED
      BY <2>3, <3>1, <3>2 DEF Picked
  <2>6. QED
    BY <2>1, <2>2, <2>4, <2>5
<1>4. QED
  BY <1>1, <1>2, <1>3 DEF Arrival

(* At the places after the list there is none but the one found. *)
LEMMA FoundKept ==
    ASSUME StopsBefore, WorkerStep, UNCHANGED tasks
    PROVE  /\ w'.pc = "cancel" => Stops' \subseteq {w'.x}
           /\ w'.pc \in {"arm", "canceled"} => Stops' = {}
           /\ w'.pc \in {"persist", "send"} /\ w'.h # "buy" => Stops' = {}
<1>1. w \in WorkerI /\ Arrival /\ xord \in Seq(OrderI) /\ Placement
  BY Arrivals DEF StopsBefore, LotsBefore, IInv, WorkerIn, BookIn, OneLot
<1>2. CASE DecideOnStop
  <2>1. w.pc = "record" /\ Stops' = Stops /\ Stops \subseteq ({w.x} \ {0})
    BY <1>2 DEF DecideOnStop, exchange, StopsBefore, StopKnown, Picked, Stops
  <2>2. /\ w'.pc = "cancel" => w'.x = w.x
        /\ w'.pc \in {"arm", "persist"} => w.x = 0
        /\ w'.pc \notin {"send", "canceled"}
    <3>1. w' = [w EXCEPT !.pc = "raise", !.pos.sl = TRUE] => w'.pc = "raise"
      BY <1>1 DEF WorkerI
    <3>2. \A p : Goto(p) => w'.pc = p /\ w'.x = w.x
      BY <1>1, GotoMoves DEF Moves
    <3>3. QED
      BY <1>2, <3>1, <3>2, Left DEF DecideOnStop
  <2>3. QED
    BY <2>1, <2>2
<1>3. CASE CancelStop
  <2>1. w.pc = "cancel" /\ Stops \subseteq {w.x} /\ w.x \in 1..Len(xord)
    BY <1>3 DEF CancelStop, StopsBefore, StopKnown, LotsBefore, IInv, WorkerIn
  <2>2. w'.pc = "canceled" => IF xord[w.x].status = "open" THEN Settled(w.x, "canceled") ELSE UNCHANGED xord
    BY <1>3, Left DEF CancelStop
  <2>3. w'.pc = "canceled" => Stops' = {}
    <3>1. CASE xord[w.x].status = "open" /\ w'.pc = "canceled"
      <4>1. Turned(xord, xord', w.x, "canceled")
        BY <1>1, <2>1, <2>2, <3>1, SettledOrder
      <4>2. Stops' = Stops \ {w.x}
        BY <1>1, <2>1, <4>1, TurnedLive DEF Stops
      <4>3. QED
        BY <2>1, <4>2
    <3>2. CASE xord[w.x].status # "open" /\ w'.pc = "canceled"
      BY <2>1, <2>2, <3>2 DEF Stops, LiveIn
    <3>3. QED
      BY <3>1, <3>2
  <2>4. w'.pc \notin {"cancel", "arm", "persist", "send"}
    BY <1>1, <1>3, Left, GotoOn DEF CancelStop
  <2>5. QED
    BY <2>3, <2>4
<1>4. CASE StoreCanceled
  <2>1. Stops' = Stops /\ Stops = {}
    BY <1>4 DEF StoreCanceled, exchange, StopsBefore, StopKnown, Stops
  <2>2. w'.pc # "cancel"
    BY <1>1, <1>4, Left, GotoOn DEF StoreCanceled
  <2>3. QED
    BY <2>1, <2>2
<1>5. CASE PersistOrder
  <2>1. Stops' = Stops /\ (w.h # "buy" => Stops = {})
    BY <1>5 DEF PersistOrder, exchange, StopsBefore, StopKnown, Stops
  <2>2. w' = [w EXCEPT !.pc = "send", !.row = Len(rows) + 1] => w'.pc = "send" /\ w'.h = w.h
    BY <1>1 DEF WorkerI
  <2>3. w'.pc \in {"tick", "retire"} \/ (w'.pc = "send" /\ w'.h = w.h)
    BY <1>5, <2>2, Left DEF PersistOrder
  <2>4. QED
    BY <2>1, <2>3
<1>6. CASE CheckBalance
  <2>1. w' = [w EXCEPT !.pc = "stops", !.bal = hold] => w'.pc = "stops"
    BY <1>1 DEF WorkerI
  <2>2. w'.pc \in {"tick", "retire", "delete", "stops"} \/ (w'.pc = "persist" /\ w'.h = "buy")
    BY <1>1, <1>6, <2>1, Left, GotoOn DEF CheckBalance
  <2>3. QED
    BY <2>2
<1>7. QED
  BY <1>1, <1>2, <1>3, <1>4, <1>5, <1>6 DEF Arrival

(* Together. *)
LEMMA StopKnownKept == ASSUME StopsBefore, [SyncNext]_vars PROVE StopKnown'
<1>1. \A x, y \in Stops' : x = y
  BY StopsMoved DEF StopsBefore, StopKnown
<1>2. CASE ByWorker
  BY <1>1, <1>2, PickedKept, FoundKept DEF ByWorker, StopKnown
<1>3. CASE UNCHANGED w /\ ~ByWorker
  <2>1. Stops' \subseteq Stops /\ \A x \in 1..Len(xord) : xord'[x].kind = xord[x].kind
    BY <1>3, StopsMoved
  <2>2. Picked' = Picked
    BY <1>3 DEF Picked
  <2>3. w.pc = "record" => Picked \subseteq 1..Len(xord)
    BY DEF Picked, StopsBefore, LotsBefore, IInv, WorkerIn, Own
  <2>4. w.pc = "record" => \A x, y \in Picked' : xord'[x].kind = "stop" /\ xord'[y].kind = "stop" => x = y
    BY <2>1, <2>2, <2>3 DEF StopsBefore, StopKnown
  <2>5. QED
    BY <1>1, <1>3, <2>1, <2>2, <2>4 DEF StopsBefore, StopKnown
<1>4. CASE w' = Idle
  BY <1>1, <1>4 DEF Idle, StopKnown
<1>5. QED
  BY <1>2, <1>3, <1>4, Movers

(* While the database answers, the stop order that is found, placed or      *)
(* canceled is the only one.                                                *)
THEOREM StopsKnown ==
    ASSUME {"link", "late", "manual", "db"} \cap Faults = {}
    PROVE  SyncSpec => [](IInv /\ Accounted /\ Unsent /\ OneLot /\ StopKnown)
<1>1. SyncInit => StopKnown
  BY DEF SyncInit, Init, Idle, StopKnown, Stops, LiveIn
<1>2. IInv /\ Accounted /\ Unsent /\ OneLot /\ StopKnown /\ [SyncNext]_vars => StopKnown'
  <2>1. {"manual", "late"} \cap Faults = {} /\ "db" \notin Faults
    OBVIOUS
  <2>2. QED
    BY <2>1, StopKnownKept DEF StopsBefore, LotsBefore
<1>3. {"link", "late"} \cap Faults = {} /\ {"link", "late", "manual"} \cap Faults = {}
  OBVIOUS
<1>4. (SyncSpec => []Unsent) /\ (SyncSpec => []OneLot)
  BY <1>3, SentOnce, OneLotKept
<1>5. QED
  BY <1>1, <1>2, <1>4, Consistent, AccountsKept, PTL DEF SyncSpec

(* At most one stop order protects the pair. *)
THEOREM StopsUnique == ASSUME {"link", "late", "manual", "db"} \cap Faults = {} PROVE SyncSpec => []OneStop
<1>1. ASSUME IInv, StopKnown PROVE OneStop
  <2>1. Live("sell", "stop") = Stops /\ \A x, y \in Stops : x = y
    BY <1>1 DEF IInv, BookIn, Live, Stops, LiveIn, StopKnown
  <2>2. CASE Stops = {}
    BY <2>1, <2>2, FS_EmptySet DEF OneStop
  <2>3. CASE Stops # {}
    <3>1. PICK x \in Stops : Stops = {x}
      BY <2>1, <2>3
    <3>2. Cardinality({x}) = 1
      BY FS_Singleton
    <3>3. QED
      BY <2>1, <3>1, <3>2 DEF OneStop
  <2>4. QED
    BY <2>2, <2>3
<1>2. SyncSpec => [](IInv /\ Accounted /\ Unsent /\ OneLot /\ StopKnown)
  BY StopsKnown
<1>3. QED
  BY <1>1, <1>2, PTL
----------------------------------------------------------------------------
(* A stop order is open only on a lot that is held and not offered in the   *)
(* market.                                                                  *)
Covered == Stops # {} => hold = 1 /\ Sells = {}

CoverBefore == StopsBefore /\ Covered

(* At most one sale is open: the account does not offer a second lot. *)
LEMMA SellsUnique == ASSUME LotsBefore PROVE \A x, y \in Sells : x = y
<1> SUFFICES ASSUME NEW x \in Sells, NEW y \in Sells, x # y PROVE FALSE
  OBVIOUS
<1>1. /\ xord \in Seq(OrderI) /\ \A z \in 1..Len(xord) : xord[z].qty = 1
      /\ OfferedIn(xord, "sell", "market") = LotsIn(xord, Sells)
      /\ OfferedIn(xord, "sell", "market") <= hold /\ hold \in {0, 1}
  BY DEF LotsBefore, IInv, BookIn, OneLot, SingleLots, Accounted, NeverShort, OfferedIn, Sells
<1>2. IsFiniteSet(Sells) /\ Sells \subseteq 1..Len(xord)
  BY <1>1, LiveFinite DEF Sells
<1> DEFINE rest == Sells \ {x}
           last == rest \ {y}
<1>3. IsFiniteSet(rest) /\ y \in rest
  BY <1>2, FS_RemoveElement
<1>4. /\ \A z \in Sells : xord[z].qty \in Nat
      /\ \A z \in rest : xord[z].qty \in Nat
      /\ \A z \in last : xord[z].qty \in Nat
      /\ xord[x].qty = 1 /\ xord[y].qty = 1
  BY <1>1, <1>2
<1>5. LotsIn(xord, Sells) = LotsIn(xord, rest) + xord[x].qty
  BY <1>2, <1>4, LotsSplit
<1> HIDE DEF rest
<1>6. LotsIn(xord, rest) = LotsIn(xord, last) + xord[y].qty
  BY <1>3, <1>4, LotsSplit
<1>7. IsFiniteSet(last)
  BY <1>3, FS_RemoveElement
<1> HIDE DEF last
<1>8. LotsIn(xord, last) \in Nat
  BY <1>4, <1>7, LotsFinite
<1>9. QED
  BY <1>1, <1>4, <1>5, <1>6, <1>8

(* The stage of the position, from what is open and what is held. *)
StageOf(buys, sells, n) ==
    IF buys # {} THEN "buying" ELSE IF sells # {} THEN "selling" ELSE IF n = 1 THEN "holding" ELSE "flat"

(* The same, as the refinement puts it. *)
StageShown(buys, sells, n) ==
    IF buys # {} THEN IF n = 0 /\ Cardinality(buys) = 1 THEN "buying" ELSE "two lots"
    ELSE IF n > 1 THEN "two lots"
    ELSE IF sells # {} THEN "selling"
    ELSE IF n = 1 THEN "holding" ELSE "flat"

(* With one lot at most, neither shows two. *)
LEMMA Staged ==
    ASSUME NEW n \in {0, 1}, NEW buys, NEW sells, \A x, y \in buys : x = y, buys # {} => n = 0
    PROVE  StageShown(buys, sells, n) = StageOf(buys, sells, n)
<1>1. CASE buys # {}
  <2>1. PICK x \in buys : buys = {x}
    BY <1>1
  <2>2. Cardinality({x}) = 1
    BY FS_Singleton
  <2>3. Cardinality(buys) = 1
    BY <2>1, <2>2
  <2>4. QED
    BY <1>1, <2>3 DEF StageOf, StageShown
<1>2. CASE buys = {}
  <2>1. ~(n > 1)
    OBVIOUS
  <2>2. QED
    BY <1>2, <2>1 DEF StageOf, StageShown
<1>3. QED
  BY <1>1, <1>2

(* What the exchange shows of the pair, before a step ... *)
LEMMA ShownBefore ==
    ASSUME LotsBefore
    PROVE  Stage = StageOf(Buys, Sells, hold) /\ (Live("sell", "stop") # {} <=> Stops # {})
<1>1. /\ xord \in Seq(OrderI) /\ hold \in {0, 1} /\ (\A x, y \in Buys : x = y) /\ (Buys # {} => hold = 0)
  BY DEF LotsBefore, IInv, BookIn, OneLot, SingleLots, SingleBuy
<1>2. Live("buy", "market") = Buys /\ Live("sell", "market") = Sells /\ Live("sell", "stop") = Stops
  BY <1>1, LiveLots DEF Buys, Sells, Stops
<1>3. Stage = StageShown(Buys, Sells, hold)
  BY <1>2 DEF Stage, StageShown
<1>4. StageShown(Buys, Sells, hold) = StageOf(Buys, Sells, hold)
  BY <1>1, Staged
<1>5. QED
  BY <1>2, <1>3, <1>4

(* ... and after it. *)
LEMMA ShownAfter ==
    ASSUME LotsBefore, [SyncNext]_vars
    PROVE  Stage' = StageOf(Buys', Sells', hold') /\ ((Live("sell", "stop") # {})' <=> Stops' # {})
<1>1. /\ xord' \in Seq(OrderI) /\ hold' \in {0, 1} /\ (\A x, y \in Buys' : x = y) /\ (Buys' # {} => hold' = 0)
  <2>1. IInv'
    BY NextKept DEF LotsBefore
  <2>2. QED
    BY <2>1, BuysKept, OrderLotsKept DEF IInv, BookIn
<1>2. DOMAIN xord' = 1..Len(xord')
  BY <1>1
<1>3. /\ Live("buy", "market")' = Buys' /\ Live("sell", "market")' = Sells' /\ Live("sell", "stop")' = Stops'
  BY <1>2 DEF Live, Buys, Sells, Stops, LiveIn
<1>4. Stage' = StageShown(Buys', Sells', hold')
  BY <1>3 DEF Stage, StageShown
<1>5. StageShown(Buys', Sells', hold') = StageOf(Buys', Sells', hold')
  <2> DEFINE b == Buys'
             s == Sells'
             n == hold'
  <2>1. n \in {0, 1} /\ (\A x, y \in b : x = y) /\ (b # {} => n = 0)
    BY <1>1
  <2> HIDE DEF b, s, n
  <2>2. StageShown(b, s, n) = StageOf(b, s, n)
    BY <2>1, Staged
  <2>3. QED
    BY <2>2 DEF b, s, n
<1>6. QED
  BY <1>3, <1>4, <1>5

(* What a move of the exchange is in the life of the position: nothing, ... *)
Shown(buys, sells, stops, n) ==
    Buys' = buys /\ Sells' = sells /\ Stops' = stops /\ hold' = n
PositionMoved ==
    \/ Shown(Buys, Sells, Stops, hold)
    \/ /\ Buys = {} /\ Sells = {} /\ Stops = {} /\ hold = 0
       /\ \/ \E x : Shown({x}, {}, {}, 0)
          \/ Shown({}, {}, {}, 1)
    \/ Buys # {} /\ Sells = {} /\ Stops = {} /\ \E n \in {0, 1} : Shown({}, {}, {}, n)
    \/ /\ Buys = {} /\ Sells = {} /\ Stops = {} /\ hold = 1
       /\ \/ \E x : Shown({}, {x}, {}, 1)
          \/ Shown({}, {}, {}, 0)
          \/ \E x : Shown({}, {}, {x}, 1)
    \/ Buys = {} /\ Sells # {} /\ Stops = {} /\ \E n \in {0, 1} : Shown({}, {}, {}, n)
    \/ Buys = {} /\ Sells = {} /\ Stops # {} /\ hold = 1 /\ \E n \in {0, 1} : Shown({}, {}, {}, n)

(* ... or one of the steps of the life cycle.                               *)
LEMMA PositionMoves == ASSUME CoverBefore, [SyncNext]_vars PROVE PositionMoved
<1>1. /\ xord \in Seq(OrderI) /\ LotsBefore /\ StopsBefore /\ hold \in {0, 1}
      /\ (\A x, y \in Buys : x = y) /\ (Buys # {} => hold = 0)
      /\ (\A x, y \in Stops : x = y) /\ (Stops # {} => hold = 1 /\ Sells = {})
  BY DEF CoverBefore, StopsBefore, StopKnown, Covered, LotsBefore, IInv, BookIn, OneLot, SingleLots, SingleBuy
<1>2. (\A x, y \in Sells : x = y) /\ (Sells # {} => hold = 1)
  <2>1. ASSUME NEW x \in Sells PROVE hold = 1
    <3>1. \A y \in 1..Len(xord) : xord[y].qty = 1
      BY <1>1 DEF LotsBefore, OneLot, SingleLots
    <3>2. OfferedIn(xord, "sell", "market") \in Nat /\ OfferedIn(xord, "sell", "market") >= 1
      BY <1>1, <3>1, OfferedLive DEF Sells
    <3>3. OfferedIn(xord, "sell", "market") <= hold
      BY <1>1 DEF LotsBefore, Accounted, NeverShort
    <3>4. QED
      BY <1>1, <3>2, <3>3
  <2>2. QED
    BY <1>1, <2>1, SellsUnique
<1>3. CASE UNCHANGED <<xord, hold>>
  BY <1>3 DEF PositionMoved, Shown, Buys, Sells, Stops
<1>4. ASSUME NEW side, NEW status, OrderSent(side, status) PROVE PositionMoved
  <2> DEFINE n == Len(xord) + 1
  <2>1. Placed(xord, xord', w.row, side, "market", 1, status)
    BY <1>4 DEF OrderSent
  <2>2. /\ Buys' = IF status = "open" /\ side = "buy" THEN Buys \cup {n} ELSE Buys
        /\ Sells' = IF status = "open" /\ side = "sell" THEN Sells \cup {n} ELSE Sells
        /\ Stops' = Stops
    BY <1>1, <2>1, PlacedLive DEF Buys, Sells, Stops
  <2> HIDE DEF n
  <2>3. CASE side = "buy"
    <3>1. hold = 0 /\ Buys = {} /\ Sells = {} /\ Stops = {}
      BY <1>1, <1>2, <1>4, <2>3 DEF OrderSent
    <3>2. status = "open" => Shown({n}, {}, {}, 0)
      BY <1>4, <2>2, <2>3, <3>1 DEF OrderSent, Shown
    <3>3. status = "closed" => Shown({}, {}, {}, 1)
      BY <1>4, <2>2, <2>3, <3>1 DEF OrderSent, Shown
    <3>4. QED
      BY <1>4, <3>1, <3>2, <3>3 DEF OrderSent, PositionMoved
  <2>4. CASE side = "sell"
    <3>1. hold = 1 /\ Buys = {} /\ Sells = {} /\ Stops = {}
      BY <1>1, <1>4, <2>4 DEF OrderSent, SendOrder, StopsBefore, StopKnown
    <3>2. status = "open" => Shown({}, {n}, {}, 1)
      BY <1>4, <2>2, <2>4, <3>1 DEF OrderSent, Shown
    <3>3. status = "closed" => Shown({}, {}, {}, 0)
      BY <1>4, <2>2, <2>4, <3>1 DEF OrderSent, Shown
    <3>4. QED
      BY <1>4, <3>1, <3>2, <3>3 DEF OrderSent, PositionMoved
  <2>5. QED
    BY <1>4, <2>3, <2>4 DEF OrderSent
<1>5. CASE OrderArmed
  <2>1. Placed(xord, xord', 0, "sell", "stop", 1, "open")
    BY <1>5 DEF OrderArmed
  <2>2. Buys' = Buys /\ Sells' = Sells /\ Stops' = Stops \cup {Len(xord) + 1}
    BY <1>1, <2>1, PlacedLive DEF Buys, Sells, Stops
  <2>3. hold = 1 /\ Buys = {} /\ Sells = {} /\ Stops = {}
    BY <1>1, <1>5 DEF OrderArmed, ArmStop, StopsBefore, StopKnown
  <2>4. Shown({}, {}, {Len(xord) + 1}, 1)
    BY <1>5, <2>2, <2>3 DEF Shown, OrderArmed
  <2>5. QED
    BY <2>3, <2>4 DEF PositionMoved
<1>6. ASSUME NEW x \in 1..Len(xord), NEW status, OrderEnded(x, status) PROVE PositionMoved
  <2>1. Turned(xord, xord', x, status) /\ status # "open" /\ xord[x].status = "open"
    BY <1>6 DEF OrderEnded
  <2>2. Buys' = Buys \ {x} /\ Sells' = Sells \ {x} /\ Stops' = Stops \ {x}
    BY <1>1, <2>1, TurnedLive DEF Buys, Sells, Stops
  <2>3. xord[x].side \in {"buy", "sell"} /\ xord[x].kind \in {"market", "stop"}
    <3>1. xord[x] \in OrderI
      BY <1>1
    <3>2. QED
      BY <3>1 DEF OrderI, Sides, Kinds
  <2>4. CASE xord[x].kind = "stop"
    <3>1. x \in Stops
      BY <1>1, <2>1, <2>4 DEF Stops, LiveIn, LotsBefore, OneLot, SingleLots
    <3>2. Stops # {} /\ hold = 1 /\ Sells = {} /\ Buys = {} /\ Stops' = {} /\ Sells' = {} /\ Buys' = {}
      BY <1>1, <2>2, <3>1
    <3>3. hold' \in {0, 1}
      BY <1>6, <2>4, <3>2 DEF OrderEnded
    <3>4. QED
      BY <3>2, <3>3 DEF PositionMoved, Shown
  <2>5. CASE xord[x].kind = "market" /\ xord[x].side = "buy"
    <3>1. x \in Buys
      BY <2>1, <2>5 DEF Buys, LiveIn
    <3>2. Buys # {} /\ Sells = {} /\ Stops = {} /\ Stops' = {} /\ Sells' = {} /\ Buys' = {}
      BY <1>1, <1>2, <2>2, <3>1
    <3>3. hold' \in {0, 1}
      BY <1>6, <2>5 DEF OrderEnded
    <3>4. QED
      BY <3>2, <3>3 DEF PositionMoved, Shown
  <2>6. CASE xord[x].kind = "market" /\ xord[x].side = "sell"
    <3>1. x \in Sells
      BY <2>1, <2>6 DEF Sells, LiveIn
    <3>2. Buys = {} /\ Sells # {} /\ Stops = {} /\ Stops' = {} /\ Sells' = {} /\ Buys' = {}
      BY <1>1, <1>2, <2>2, <3>1
    <3>3. hold' \in {0, 1}
      BY <1>6, <2>6 DEF OrderEnded
    <3>4. QED
      BY <3>2, <3>3 DEF PositionMoved, Shown
  <2>7. QED
    BY <2>3, <2>4, <2>5, <2>6
<1>7. QED
  BY <1>1, <1>3, <1>4, <1>5, <1>6, MarketMoves DEF LotsBefore, MarketMoved

(* The stop order stays on the lot. *)
LEMMA CoveredKept == ASSUME CoverBefore, [SyncNext]_vars PROVE Covered'
BY PositionMoves DEF PositionMoved, Shown, CoverBefore, Covered

(* So each move is a step of Lifecycle, or none. *)
LEMMA LifecycleStep == ASSUME CoverBefore, [SyncNext]_vars PROVE [L!Next]_(L!vars)
<1>1. /\ Stage = StageOf(Buys, Sells, hold) /\ (Live("sell", "stop") # {} <=> Stops # {})
      /\ Stage' = StageOf(Buys', Sells', hold') /\ ((Live("sell", "stop") # {})' <=> Stops' # {})
  BY ShownBefore, ShownAfter DEF CoverBefore, StopsBefore
<1> DEFINE guarded == Live("sell", "stop") # {}
           guardedNext == (Live("sell", "stop") # {})'
<1>2. guarded \in BOOLEAN /\ guardedNext \in BOOLEAN
  OBVIOUS
<1>3. CASE Shown(Buys, Sells, Stops, hold)
  BY <1>1, <1>3 DEF Shown, L!vars
<1>4. CASE Buys = {} /\ Sells = {} /\ Stops = {} /\ hold = 0 /\ \E x : Shown({x}, {}, {}, 0)
  BY <1>1, <1>4 DEF Shown, StageOf, L!Next, L!Buy, L!Moves
<1>5. CASE Buys = {} /\ Sells = {} /\ Stops = {} /\ hold = 0 /\ Shown({}, {}, {}, 1)
  BY <1>1, <1>5 DEF Shown, StageOf, L!Next, L!Buy, L!Moves
<1>6. CASE Buys # {} /\ Sells = {} /\ Stops = {} /\ \E n \in {0, 1} : Shown({}, {}, {}, n)
  BY <1>1, <1>6 DEF Shown, StageOf, L!Next, L!BuyEnds, L!Moves
<1>7. CASE Buys = {} /\ Sells = {} /\ Stops = {} /\ hold = 1 /\ \E x : Shown({}, {x}, {}, 1)
  BY <1>1, <1>7 DEF Shown, StageOf, L!Next, L!Sell, L!Moves
<1>8. CASE Buys = {} /\ Sells = {} /\ Stops = {} /\ hold = 1 /\ Shown({}, {}, {}, 0)
  BY <1>1, <1>8 DEF Shown, StageOf, L!Next, L!Sell, L!Moves
<1>9. CASE Buys = {} /\ Sells = {} /\ Stops = {} /\ hold = 1 /\ \E x : Shown({}, {}, {x}, 1)
  BY <1>1, <1>9 DEF Shown, StageOf, L!Next, L!PlaceStop
<1>10. CASE Buys = {} /\ Sells # {} /\ Stops = {} /\ \E n \in {0, 1} : Shown({}, {}, {}, n)
  BY <1>1, <1>10 DEF Shown, StageOf, L!Next, L!SellEnds, L!Moves
<1>11. CASE Buys = {} /\ Sells = {} /\ Stops # {} /\ hold = 1 /\ \E n \in {0, 1} : Shown({}, {}, {}, n)
  BY <1>1, <1>11 DEF Shown, StageOf, L!Next, L!CancelStop, L!StopFills, L!Moves
<1>12. QED
  BY <1>3, <1>4, <1>5, <1>6, <1>7, <1>8, <1>9, <1>10, <1>11, PositionMoves DEF PositionMoved

(* The life cycle starts flat. *)
LEMMA LifecycleInit == SyncInit => L!Init /\ Covered
<1> SUFFICES ASSUME SyncInit PROVE L!Init /\ Covered
  OBVIOUS
<1>1. xord = <<>> /\ hold = 0
  BY DEF SyncInit, Init
<1>2. Stops = {} /\ \A s, k : Live(s, k) = {}
  BY <1>1 DEF Stops, LiveIn, Live
<1>3. Stage = "flat"
  BY <1>1, <1>2 DEF Stage
<1>4. QED
  BY <1>2, <1>3 DEF L!Init, Covered

(* The worker and the three tasks implement the life cycle of one position: *)
(* the initial states map to its initial state, every step to one of its    *)
(* steps or to none.                                                        *)
THEOREM LifecycleImplemented ==
    ASSUME {"link", "late", "manual", "db"} \cap Faults = {}
    PROVE  SyncSpec => OnePosition
<1>1. SyncSpec => [](IInv /\ Accounted /\ Unsent /\ OneLot /\ StopKnown)
  BY StopsKnown
<1>2. IInv /\ Accounted /\ Unsent /\ OneLot /\ StopKnown /\ Covered /\ [SyncNext]_vars =>
        Covered' /\ [L!Next]_(L!vars)
  <2>1. {"manual", "late"} \cap Faults = {} /\ "db" \notin Faults
    OBVIOUS
  <2>2. QED
    BY <2>1, CoveredKept, LifecycleStep DEF CoverBefore, StopsBefore, LotsBefore
<1>3. QED
  BY <1>1, <1>2, LifecycleInit, PTL DEF SyncSpec, OnePosition, L!Spec
=============================================================================
