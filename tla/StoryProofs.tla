----------------------------- MODULE StoryProofs -----------------------------
(***************************************************************************)
(* The last layer of the proofs about one pair: what the strategy, the   *)
(* stored position, the order rows and the exchange say of the one lot,  *)
(* and what a handler of the worker still knows of it several calls      *)
(* after it asked. It holds when SyncPositions does not run, the         *)
(* database answers and the process does not crash; SyncOrders and       *)
(* SyncStopOrders may run, the gateway may fail, answers may be lost,    *)
(* orders may be canceled outside, fill in part and the pair may be      *)
(* disabled at any time. Story has five parts:                           *)
(*   Steering   the strategy is in the state of the signal it gave;      *)
(*   Settling   a final row agrees with the exchange, and what is still to*)
(*              be written of market orders concerns rows that are open; *)
(*   Claiming   a filled buy is turned into a position by one of the worker*)
(*              and SyncOrders, never by both;                           *)
(*   Telling    the position and the strategy against the lot;           *)
(*   Knowing    what a handler has found out holds while it goes on.     *)
(* They are inductive together: each step needs more than one of them.   *)
(***************************************************************************)
EXTENDS LifecycleProofs

USE DEF Unnamed

(* What the theorems of this module assume: the tasks that run, and what    *)
(* does not fail.                                                           *)
Calm == Tasks \subseteq {"orders", "stops"} /\ {"link", "late", "manual", "db", "crash"} \cap Faults = {}

(* The final statuses of a row. *)
Final == {"closed", "canceled", "rejected"}

(* The filled buys whose rows are still open.                               *)
Waiting ==
    {x \in 1..Len(xord) : /\ xord[x].kind = "market" /\ xord[x].side = "buy" /\ xord[x].status = "closed"
                          /\ rows[xord[x].cid].status \in {"new", "open"}}
----------------------------------------------------------------------------
(* Where the worker is on no errand. *)
OffDuty == {"tick", "retire", "apply", "stopped"}

(* The strategy is in the state of the signal it gave, and idle when the    *)
(* worker ends; which errands lead to which places.                         *)
Steering ==
    /\ w.pc \in OffDuty => w.h = "none"
    /\ w.pc \notin OffDuty => w.h # "none" /\ strat = AfterSignal(w.h)
    /\ w.pc \in {"retire", "apply", "stopped"} => strat = "IDLE"
    /\ w.pc \in {"persist", "send", "confirm"} => w.h \in {"buy", "sell"}
    /\ w.pc \in {"create", "settle", "quantity"} => w.h = "buy"
    /\ w.pc = "close" => w.h = "sell"
    /\ w.pc = "delete" => w.h \in {"sell", "waitsell"}
    /\ w.pc = "raise" => w.h \in {"track", "waitbuy"}
    /\ w.pc \in {"orders", "balance"} => w.h \in {"buy", "waitbuy", "sell", "waitsell"}
    /\ pair = "disabled" => w.pc = "stopped"
    /\ sp.pc = "idle"
    /\ "stops" \notin Tasks => ss.pc = "idle"

(* A final row says of its order what the exchange says, and nobody is      *)
(* about to write anything else to it; except that the worker, having       *)
(* listed a stop order as open, may write so after SyncStopOrders has       *)
(* written that it is closed.                                               *)
Settling ==
    /\ \A r \in 1..Len(rows) : rows[r].xid # 0 /\ rows[r].status \in Final =>
          rows[r].status = xord[rows[r].xid].status
    /\ w.pc \in {"lookup", "giveup", "send", "confirm"} => rows[w.row].status = "new"
    /\ \A r \in so.todo : rows[r].status \in {"new", "open"}
    /\ w.pc = "record" => \A x \in w.todo : xord[x].kind = "stop"
    /\ w.pc = "record" /\ "stops" \notin Tasks =>
          \A x \in w.todo : \A r \in 1..Len(rows) : rows[r].xid = x => rows[r].status \notin Final

(* A position is created once for each buy: by the worker or by SyncOrders. *)
Claiming ==
    /\ \A x, y \in Waiting : x = y
    /\ Waiting # {} => w.pc # "create" /\ so.pc # "create"
    /\ ~(w.pc = "create" /\ so.pc = "create")
    /\ Waiting # {} \/ w.pc = "create" \/ so.pc = "create" => hold = 1

(* No lot is held and none is being bought. *)
Flat == hold = 0 /\ Buys = {}

(* What the strategy and the position say of the lot.                       *)
Telling ==
    /\ pos.st # "ghost"
    /\ pos.st = "none" => Sells = {} /\ Stops = {} /\ (Flat \/ strat = "PENDING_BUY")
    /\ pos.st = "known" => Buys = {} /\ Waiting = {} /\ w.pc # "create" /\ so.pc # "create"
    /\ strat = "IDLE" => pos.st = "none" /\ Flat
    /\ strat = "PENDING_BUY" => Stops = {} /\ (pos.st = "known" => hold = 1)
    /\ strat \in {"IN_POSITION", "PENDING_SELL"} => pos.st = "known"
    /\ Sells # {} => strat = "PENDING_SELL"

(* What a handler knows at the places of its errand.                        *)
Asking == {"pending", "lookup", "giveup", "position", "orders"}
Knowing ==
    /\ w.h = "buy" /\ w.pc \in Asking \cup {"balance", "persist", "send"} => pos.st = "none" /\ Flat
    /\ w.h = "waitbuy" /\ w.pc = "balance" => Buys = {}
    /\ w.h = "sell" /\ w.pc \in Asking => Sells = {}
    /\ w.h \in {"sell", "waitsell"} /\ w.pc \in {"balance", "stops", "record", "cancel", "canceled", "persist",
                                                 "send", "delete", "close"} => Sells = {}
    /\ w.h \in {"sell", "waitsell"} /\ w.pc \in {"stops", "record", "cancel", "canceled"} /\ w.bal = 0 => hold = 0
    /\ w.pc = "delete" => hold = 0
    /\ w.pc \in {"settle", "quantity", "raise"} => pos.st = "known"
    /\ w.pc = "close" \/ (w.pc = "confirm" /\ w.h = "sell" /\ w.resp = "closed") => hold = 0 /\ Sells = {}

Story == Steering /\ Settling /\ Claiming /\ Telling /\ Knowing
----------------------------------------------------------------------------
(* What the lemmas of this layer assume. *)
StoryBefore == CoverBefore /\ Story /\ Calm

(* SyncPositions does not run, and nothing crashes. *)
LEMMA CalmMovers ==
    ASSUME StoryBefore, [SyncNext]_vars
    PROVE  /\ UNCHANGED sp
           /\ "stops" \notin Tasks => UNCHANGED ss
           /\ UNCHANGED w \/ UNCHANGED so
           /\ \/ ByWorker
              \/ Exchange /\ UNCHANGED <<strat, w, control, database, so>>
              \/ StartWorker /\ UNCHANGED so
              \/ (UpdateWorker \/ Manage) /\ UNCHANGED <<strat, w, database, exchange, so>>
              \/ SyncOrders /\ UNCHANGED <<strat, w, control, exchange>>
              \/ SyncStopOrders /\ UNCHANGED <<strat, w, control, hold, so>>
              \/ UNCHANGED vars
<1>1. ~SyncPositions
  BY DEF StoryBefore, Story, Steering, Calm, SyncPositions, PositionsStart, PositionsRead, PositionsWallet,
     PositionsDelete, PositionsAdjust, PositionsPairs, PositionsOrders, PositionsAdopt
<1>2. SyncStopOrders => UNCHANGED <<strat, w, control, hold, so, sp>>
  BY DEF SyncStopOrders, StopsStart, StopsRead, StopsWallet, StopsRows, StopsFetch, StopsLatest, StopsCancel,
     StopsStore, StopsRearm, pairVars, control, database, exchange
<1>3. ~Crash
  BY DEF StoryBefore, Calm, Crash, CrashWorker, Fails
<1>4. SyncOrders => UNCHANGED <<strat, w, control, exchange, sp, ss>>
  BY DEF SyncOrders, OrdersStart, OrdersFetch, OrdersCreate, OrdersBalance, OrdersQuantity, pairVars,
     control, exchange
<1>5. Exchange => UNCHANGED <<strat, w, control, database>>
  BY DEF Exchange
<1>6. UpdateWorker \/ Manage => UNCHANGED <<strat, w, database, exchange>>
  BY DEF UpdateWorker, Manage
<1>7. UNCHANGED tasks => UNCHANGED <<so, sp, ss>>
  BY DEF tasks
<1>8. UNCHANGED vars => UNCHANGED <<w, so, sp, ss>>
  BY DEF vars, pairVars, tasks
<1>9. "stops" \notin Tasks => ~SyncStopOrders
  BY DEF StoryBefore, Story, Steering, SyncStopOrders, StopsStart, StopsRead, StopsWallet, StopsRows,
     StopsFetch, StopsLatest, StopsCancel, StopsStore, StopsRearm
<1>10. QED
  BY <1>1, <1>2, <1>3, <1>4, <1>5, <1>6, <1>7, <1>8, <1>9 DEF SyncNext, Pair, ByWorker

(* The shapes of the tables. *)
LEMMA Tables ==
    ASSUME StoryBefore
    PROVE  /\ rows \in Seq(RowI) /\ xord \in Seq(OrderI) /\ w \in WorkerI /\ so \in OrdersI
           /\ Len(rows) \in Nat /\ Len(xord) \in Nat
           /\ DOMAIN rows = 1..Len(rows) /\ DOMAIN xord = 1..Len(xord)
           /\ hold \in {0, 1} /\ pos \in PositionI /\ strat \in StrategyState
           /\ \A x \in 1..Len(xord) : xord[x].side \in {"buy", "sell"} /\ xord[x].kind \in {"market", "stop"}
                                      /\ xord[x].status \in {"open", "closed", "canceled"}
<1>1. /\ rows \in Seq(RowI) /\ xord \in Seq(OrderI) /\ w \in WorkerI /\ so \in OrdersI
      /\ hold \in {0, 1} /\ pos \in PositionI /\ strat \in StrategyState
      /\ \A x \in 1..Len(xord) : xord[x].status # "transit"
  BY DEF StoryBefore, CoverBefore, StopsBefore, LotsBefore, IInv, BookIn, WorkerIn, OrdersIn, PositionIn,
     OneLot, SingleLots, Unsent
<1>2. \A x \in 1..Len(xord) : xord[x] \in OrderI
  BY <1>1
<1>3. QED
  BY <1>1, <1>2 DEF OrderI, Sides, Kinds

(* A row names an order of its kind; of market orders only its own. *)
LEMMA RowOrders ==
    ASSUME StoryBefore, NEW r \in 1..Len(rows), rows[r].xid # 0
    PROVE  /\ rows[r].xid \in 1..Len(xord) /\ xord[rows[r].xid].kind = rows[r].kind
           /\ xord[rows[r].xid].side = rows[r].side
           /\ rows[r].kind = "market" => xord[rows[r].xid].cid = r
<1>1. LinkIn(rows, xord, r) /\ rows[r] \in RowI
  BY Tables DEF StoryBefore, CoverBefore, StopsBefore, LotsBefore, IInv, BookIn
<1>2. rows[r].xid \in 1..Len(xord) /\ rows[r].kind \in {"market", "stop"}
  BY <1>1 DEF LinkIn, RowI, Kinds
<1>3. xord[rows[r].xid].cid # Unnamed /\ OrderIn(rows, xord, rows[r].xid)
  BY <1>2 DEF StoryBefore, CoverBefore, StopsBefore, LotsBefore, IInv, BookIn, OneLot, SingleLots
<1>4. QED
  BY <1>1, <1>2, <1>3 DEF LinkIn, OrderIn

(* What is written to trading.orders, row by row. *)
RowsMoved ==
    \/ UNCHANGED rows
    \/ ByWorker /\ PersistOrder /\ \E side, qty : RowAdded(rows, rows', 0, side, "market", "new", qty)
    \/ ByWorker /\ Lookup /\ \E x \in 1..Len(xord) : RowLinked(rows, rows', w.row, x, "new")
    \/ ByWorker /\ GiveUp /\ RowLinked(rows, rows', w.row, 0, "rejected")
    \/ ByWorker /\ ConfirmOrder /\ RowLinked(rows, rows', w.row, w.x, w.resp)
    \/ /\ ByWorker /\ RecordOpenOrder
       /\ \E x \in w.todo : \/ RowsStated(rows, rows', x, "open")
                            \/ \E side, qty : RowAdded(rows, rows', x, side, "stop", "open", qty)
    \/ /\ ByWorker /\ PersistStop
       /\ \E side, qty : RowAdded(rows, rows', w.x, side, "stop", "open", qty)
    \/ /\ \/ ByWorker /\ StoreCanceled
          \/ (StopsFetch \/ StopsStore) /\ UNCHANGED <<w, so>>
       /\ \E x \in 1..Len(xord) :
             /\ xord[x].kind = "stop"
             /\ \/ RowsStated(rows, rows', x, xord[x].status)
                \/ \E side, qty : RowAdded(rows, rows', x, side, "stop", xord[x].status, qty)
    \/ /\ OrdersFetch /\ UNCHANGED w
       /\ \E r \in so.todo : RowsStated(rows, rows', rows[r].xid, xord[rows[r].xid].status)

(* There is nothing else. *)
LEMMA RowsMove ==
    ASSUME StoryBefore, [SyncNext]_vars
    PROVE  RowsMoved /\ (UNCHANGED rows \/ UNCHANGED <<pos, xord, hold, pair>>)
<1>1. UNCHANGED rows \/ (UNCHANGED <<pos, xord, hold, pair>> /\ RowWritten)
  BY RowWrites DEF StoryBefore, CoverBefore, StopsBefore, LotsBefore
<1>2. OrdersFetch => UNCHANGED w
  BY DEF OrdersFetch
<1>3. \A x \in Matches(w.row) : x \in 1..Len(xord)
  BY Tables DEF Matches
<1>4. RecordOpenOrder => \A x \in w.todo : xord[x].kind = "stop"
  BY DEF RecordOpenOrder, StoryBefore, Story, Settling
<1>5. RowWritten => RowsMoved
  <2>1. ByWorker /\ RecordOpenOrder /\ (\E x \in w.todo :
            \/ Recorded(rows, x) /\ RowsStated(rows, rows', x, "open")
            \/ /\ ~Recorded(rows, x) /\ xord[x].cid = 0
               /\ RowAdded(rows, rows', x, xord[x].side, xord[x].kind, "open", xord[x].qty)) => RowsMoved
    <3>1. ASSUME NEW x \in w.todo, RecordOpenOrder,
                 RowAdded(rows, rows', x, xord[x].side, xord[x].kind, "open", xord[x].qty)
          PROVE  \E side, qty : RowAdded(rows, rows', x, side, "stop", "open", qty)
      BY <1>4, <3>1
    <3>2. QED
      BY <3>1 DEF RowsMoved
  <2>2. ASSUME NEW x \in 1..Len(xord), xord[x].kind = "stop",
               (ByWorker /\ StoreCanceled) \/ ((StopsFetch \/ StopsStore) /\ UNCHANGED <<w, so>>),
               \/ RowsStated(rows, rows', x, xord[x].status)
               \/ RowAdded(rows, rows', x, xord[x].side, "stop", xord[x].status, xord[x].qty)
        PROVE  RowsMoved
    BY <2>2 DEF RowsMoved
  <2>3. ASSUME ByWorker, PersistOrder,
               RowAdded(rows, rows', 0, IF w.h = "buy" THEN "buy" ELSE "sell", "market", "new",
                        IF w.h = "buy" THEN 1 ELSE w.bal)
        PROVE  RowsMoved
    BY <2>3 DEF RowsMoved
  <2>4. ASSUME ByWorker, PersistStop, RowAdded(rows, rows', w.x, xord[w.x].side, "stop", "open", xord[w.x].qty)
        PROVE  RowsMoved
    BY <2>4 DEF RowsMoved
  <2>5. ASSUME NEW x \in Matches(w.row), ByWorker, Lookup, RowLinked(rows, rows', w.row, x, "new")
        PROVE  RowsMoved
    BY <1>3, <2>5 DEF RowsMoved
  <2>6. ASSUME NEW r \in so.todo, OrdersFetch, RowsStated(rows, rows', rows[r].xid, xord[rows[r].xid].status)
        PROVE  RowsMoved
    BY <1>2, <2>6 DEF RowsMoved
  <2>7. ASSUME ByWorker, GiveUp, RowLinked(rows, rows', w.row, 0, "rejected") PROVE RowsMoved
    BY <2>7 DEF RowsMoved
  <2>8. ASSUME ByWorker, ConfirmOrder, RowLinked(rows, rows', w.row, w.x, w.resp) PROVE RowsMoved
    BY <2>8 DEF RowsMoved
  <2>9. QED
    BY <2>1, <2>2, <2>3, <2>4, <2>5, <2>6, <2>7, <2>8 DEF RowWritten
<1>6. QED
  BY <1>1, <1>5 DEF RowsMoved

(* No final status of a market order changes, and without SyncStopOrders    *)
(* none at all.                                                             *)
LEMMA FinalKept ==
    ASSUME StoryBefore, [SyncNext]_vars, NEW r \in 1..Len(rows), rows[r].status \in Final,
           rows[r].kind = "market" \/ "stops" \notin Tasks
    PROVE  rows'[r].status = rows[r].status
<1>1. Len(rows) \in Nat
  BY Tables
<1>2. \A xid, side, kind, status, qty : RowAdded(rows, rows', xid, side, kind, status, qty) => rows'[r] = rows[r]
  BY <1>1 DEF RowAdded
<1>3. w.pc \in {"lookup", "giveup", "confirm"} =>
        \A x, status : RowLinked(rows, rows', w.row, x, status) => rows'[r] = rows[r]
  BY <1>1 DEF RowLinked, Final, StoryBefore, Story, Settling
<1>4. \A x, status : RowsStated(rows, rows', x, status) =>
        rows'[r].status = IF rows[r].xid = x THEN status ELSE rows[r].status
  BY DEF RowsStated
<1>5. rows[r].xid # 0 => rows[r].status = xord[rows[r].xid].status
  BY DEF StoryBefore, Story, Settling
<1>6. ASSUME w.pc = "record", rows[r].xid \in w.todo PROVE FALSE
  <2>1. xord[rows[r].xid].kind = "stop" /\ rows[r].xid # 0
    BY <1>6 DEF StoryBefore, Story, Settling, CoverBefore, StopsBefore, LotsBefore, IInv, WorkerIn, Own
  <2>2. rows[r].kind = "stop"
    BY <2>1, RowOrders
  <2>3. QED
    BY <1>6, <2>2 DEF StoryBefore, Story, Settling
<1>7. \A k \in so.todo : rows[k].xid # 0
  BY DEF StoryBefore, CoverBefore, StopsBefore, LotsBefore, IInv, OrdersIn
<1>8. QED
  BY <1>1, <1>2, <1>3, <1>4, <1>5, <1>6, <1>7, RowsMove
     DEF RowsMoved, Lookup, GiveUp, ConfirmOrder, RecordOpenOrder

(* An order that is no longer open keeps its status, and all of them what   *)
(* they are.                                                                *)
LEMMA OrdersKept ==
    ASSUME StoryBefore, [SyncNext]_vars, NEW x \in 1..Len(xord)
    PROVE  /\ x \in 1..Len(xord') /\ xord'[x].kind = xord[x].kind /\ xord'[x].side = xord[x].side
           /\ xord'[x].cid = xord[x].cid
           /\ xord[x].status # "open" => xord'[x].status = xord[x].status
<1>1. Len(xord) \in Nat
  BY Tables
<1>2. \A cid, side, kind, qty, status : Placed(xord, xord', cid, side, kind, qty, status) =>
        x \in 1..Len(xord') /\ xord'[x] = xord[x]
  BY <1>1 DEF Placed
<1>3. \A y \in 1..Len(xord) : \A status : Turned(xord, xord', y, status) /\ xord[y].status = "open" =>
         /\ x \in 1..Len(xord') /\ xord'[x].kind = xord[x].kind /\ xord'[x].side = xord[x].side
         /\ xord'[x].cid = xord[x].cid
         /\ xord[x].status # "open" => xord'[x].status = xord[x].status
  BY <1>1 DEF Turned
<1>4. MarketMoved
  BY MarketMoves DEF StoryBefore, CoverBefore, StopsBefore, LotsBefore
<1>5. CASE UNCHANGED <<xord, hold>>
  BY <1>5
<1>6. CASE \/ \E side, status : OrderSent(side, status)
           \/ OrderArmed
  BY <1>2, <1>6 DEF OrderSent, OrderArmed
<1>7. CASE \E y \in 1..Len(xord) : \E status : OrderEnded(y, status)
  <2>1. PICK y \in 1..Len(xord), status \in {"closed", "canceled"} :
           Turned(xord, xord', y, status) /\ xord[y].status = "open"
    BY <1>7 DEF OrderEnded
  <2>2. QED
    BY <1>3, <2>1
<1>8. QED
  BY <1>4, <1>5, <1>6, <1>7 DEF MarketMoved

(* The final rows agree with the exchange. *)
FinalTrue ==
    \A r \in 1..Len(rows) : rows[r].xid # 0 /\ rows[r].status \in Final => rows[r].status = xord[rows[r].xid].status

(* They go on to. *)
LEMMA FinalTrueKept == ASSUME StoryBefore, [SyncNext]_vars PROVE FinalTrue'
<1>1. /\ Len(rows) \in Nat /\ Len(xord) \in Nat
      /\ \A r \in 1..Len(rows) : rows[r].xid # 0 /\ rows[r].status \in Final =>
            rows[r].status = xord[rows[r].xid].status
      /\ \A r \in 1..Len(rows) : rows[r].xid # 0 => rows[r].xid \in 1..Len(xord)
  BY Tables, RowOrders DEF StoryBefore, Story, Settling
<1>2. CASE UNCHANGED rows
  <2>1. ASSUME NEW r \in 1..Len(rows), rows[r].xid # 0, rows[r].status \in Final
        PROVE  rows[r].status = xord'[rows[r].xid].status
    <3>1. rows[r].xid \in 1..Len(xord) /\ rows[r].status = xord[rows[r].xid].status
      BY <1>1, <2>1
    <3>2. xord[rows[r].xid].status # "open"
      BY <2>1, <3>1 DEF Final
    <3>3. QED
      BY <3>1, <3>2, OrdersKept
  <2>2. QED
    BY <1>2, <2>1 DEF FinalTrue
<1>3. CASE UNCHANGED xord
  <2>1. ASSUME NEW x, NEW side, NEW kind, NEW status, NEW qty,
               RowAdded(rows, rows', x, side, kind, status, qty), status \in Final => status = xord[x].status
        PROVE  FinalTrue'
    <3>1. /\ Len(rows') = Len(rows) + 1 /\ \A r \in 1..Len(rows) : rows'[r] = rows[r]
          /\ rows'[Len(rows) + 1].status = status /\ rows'[Len(rows) + 1].xid = x
      BY <2>1 DEF RowAdded
    <3>2. QED
      BY <1>1, <1>3, <2>1, <3>1 DEF FinalTrue
  <2>2. ASSUME NEW x, NEW status, RowLinked(rows, rows', w.row, x, status),
               x # 0 /\ status \in Final => status = xord[x].status
        PROVE  FinalTrue'
    BY <1>1, <1>3, <2>2 DEF RowLinked, FinalTrue
  <2>3. ASSUME NEW x, NEW status, RowsStated(rows, rows', x, status), status \in Final => status = xord[x].status
        PROVE  FinalTrue'
    BY <1>1, <1>3, <2>3 DEF RowsStated, FinalTrue
  <2>4. "new" \notin Final /\ "open" \notin Final
    BY DEF Final
  <2>5. w.pc = "confirm" => w.resp = "open" \/ (w.resp = "closed" /\ xord[w.x].status = "closed")
    BY DEF StoryBefore, CoverBefore, StopsBefore, LotsBefore, IInv, WorkerIn
  <2>6. QED
    BY <1>2, <2>1, <2>2, <2>3, <2>4, <2>5, RowsMove DEF RowsMoved, ConfirmOrder
<1>4. QED
  BY <1>2, <1>3, RowsMove

(* The row of the worker is new until the worker has written it. *)
LEMMA NewRowKept ==
    ASSUME StoryBefore, [SyncNext]_vars, w'.pc \in {"lookup", "giveup", "send", "confirm"}
    PROVE  rows'[w'.row].status = "new"
<1>1. w \in WorkerI /\ Len(rows) \in Nat /\ DOMAIN rows = 1..Len(rows) /\ LotsBefore
  BY Tables DEF StoryBefore, CoverBefore, StopsBefore
<1>2. w.pc \in {"lookup", "giveup", "send", "confirm"} =>
         w.row \in 1..Len(rows) /\ rows[w.row].xid = 0 /\ rows[w.row].status = "new"
  BY DEF StoryBefore, CoverBefore, StopsBefore, LotsBefore, IInv, WorkerIn, Story, Settling
<1>3. CASE w'.pc = "send"
  BY <1>1, <1>3, SentRowKept
<1>4. CASE ByWorker /\ w'.pc # "send"
  <2>1. Arrival
    BY <1>1, <1>4, Arrivals DEF ByWorker, LotsBefore
  <2>2. CASE CheckPending
    <3>1. \A r : w' = [w EXCEPT !.pc = "lookup", !.row = r] => w'.row = r /\ w'.pc = "lookup"
      BY <1>1 DEF WorkerI
    <3>2. \A r \in Unresolved(rows) : rows[r].status = "new"
      BY DEF Unresolved, Select
    <3>3. ~Fails({"db"})
      BY DEF StoryBefore, CoverBefore, StopsBefore, Fails
    <3>4. UNCHANGED rows
      BY <2>2 DEF CheckPending, database
    <3>5. w'.pc = "lookup" => \E r \in Unresolved(rows) : w'.row = r
      BY <1>1, <2>2, <3>1, <3>3, GotoOn DEF CheckPending
    <3>6. w'.pc = "lookup"
      BY <1>4, <2>1, <2>2 DEF Arrival, CheckPending, Lookup, SendOrder
    <3>7. QED
      BY <3>2, <3>4, <3>5, <3>6
  <2>3. CASE Lookup
    <3>1. w.pc = "lookup"
      BY <2>3 DEF Lookup
    <3>2. w'.pc = "giveup"
      BY <1>4, <2>1, <3>1 DEF Arrival, CheckPending, SendOrder
    <3>3. Goto("giveup") /\ UNCHANGED rows
      BY <1>1, <2>3, <3>2, Left, GotoOn DEF Lookup
    <3>4. w'.row = w.row
      BY <1>1, <3>3, GotoMoves DEF Moves
    <3>5. QED
      BY <1>2, <3>1, <3>3, <3>4
  <2>4. CASE SendOrder
    <3>1. w.pc = "send" /\ UNCHANGED rows
      BY <2>4 DEF SendOrder, database
    <3>2. \A x, status : w' = [w EXCEPT !.pc = "confirm", !.x = x, !.resp = status] => w'.row = w.row
      BY <1>1 DEF WorkerI
    <3>3. w'.pc \in {"tick", "retire"} \/ w'.row = w.row
      BY <2>4, <3>2, Left DEF SendOrder
    <3>4. QED
      BY <1>2, <3>1, <3>3
  <2>5. QED
    BY <1>4, <2>1, <2>2, <2>3, <2>4 DEF Arrival
<1>5. CASE UNCHANGED w
  <2>1. w.row \in 1..Len(rows) /\ rows[w.row].xid = 0 /\ rows[w.row].status = "new"
    BY <1>2, <1>5
  <2>2. CASE ByWorker
    BY <1>4, <1>3, <2>2
  <2>3. CASE ~ByWorker
    <3>1. \A x, status : RowsStated(rows, rows', x, status) /\ x # 0 => rows'[w.row].status = rows[w.row].status
      BY <2>1 DEF RowsStated
    <3>2. \A r \in so.todo : rows[r].xid # 0
      BY DEF StoryBefore, CoverBefore, StopsBefore, LotsBefore, IInv, OrdersIn
    <3>3. \A x, side, status, qty : RowAdded(rows, rows', x, side, "stop", status, qty) => rows'[w.row] = rows[w.row]
      BY <2>1 DEF RowAdded
    <3>4. \A x \in 1..Len(xord) : x # 0
      BY Tables
    <3>5. rows'[w.row].status = rows[w.row].status
      BY <2>3, <3>1, <3>2, <3>3, <3>4, RowsMove DEF RowsMoved
    <3>6. QED
      BY <1>5, <2>1, <3>5
  <2>4. QED
    BY <2>2, <2>3
<1>6. QED
  <2>1. w' = Idle => w'.pc = "tick"
    BY DEF Idle
  <2>2. QED
    BY <1>3, <1>4, <1>5, <2>1, Movers

----------------------------------------------------------------------------
(* Where a step leads the worker, as far as the strategy is concerned.      *)
On(p)  == w'.pc = p /\ w'.h = w.h /\ strat' = strat
Out(s) == w'.pc \in {"tick", "retire"} /\ (w'.pc = "retire" => w.h = "search") /\ w'.h = "none" /\ strat' = s

(* Before an order is sent, an error takes the signal back. *)
TakenBack == Out(IF w.h \in {"buy", "sell"} THEN Retry(strat) ELSE strat)

LEMMA Ways ==
    ASSUME w \in WorkerI
    PROVE  (\A p : Goto(p) => On(p)) /\ (\A s : Return(s) => Out(s)) /\ (OnError => TakenBack)
BY GotoMoves, ReturnLeaves, ErrorLeaves DEF On, Out, TakenBack, Moves, Leaves

Selling == w.h \in {"sell", "waitsell"}
Buying  == w.h \in {"buy", "waitbuy"}

(* The errands of the worker, action by action. *)
AskTurns ==
    /\ Tick => /\ w.pc = "tick"
               /\ \/ strat = "IDLE" /\ strat' = strat /\ w'.pc = "retire" /\ w'.h = "none"
                  \/ /\ w'.h \in Signals(strat) /\ strat' = AfterSignal(w'.h)
                     /\ w'.pc = IF w'.h \in {"search", "track"} THEN "position" ELSE "pending"
    /\ CheckPending => w.pc = "pending" /\ (On("lookup") \/ On("position"))
    /\ Lookup => w.pc = "lookup" /\ (On("position") \/ On("giveup") \/ TakenBack)
    /\ GiveUp => w.pc = "giveup" /\ On("position")
    /\ CheckPosition => /\ w.pc = "position"
                        /\ \/ pos.st = "ghost"
                           \/ /\ pos.st = "none"
                              /\ \/ w.h = "search" /\ Out(strat)
                                 \/ w.h = "buy" /\ Out(Retry(strat))
                                 \/ Buying /\ On("orders")
                                 \/ w.h \in {"track", "sell", "waitsell"} /\ Out("IDLE")
                           \/ /\ pos.st = "known"
                              /\ \/ w.h \in {"search", "buy", "waitbuy"} /\ Out("IN_POSITION")
                                 \/ w.h = "track" /\ (Out(strat) \/ On("stops"))
                                 \/ w.h \in {"waitbuy", "track"} /\ On("raise")
                                 \/ Selling /\ On("orders")
    /\ CheckOpenOrders => /\ w.pc = "orders"
                          /\ \/ Out(strat)
                             \/ /\ On("balance")
                                /\ Select(rows, {"new", "open"}, {"market"}, {IF Buying THEN "buy" ELSE "sell"}) = {}
    /\ CheckBalance => /\ w.pc = "balance"
                       /\ \/ Buying /\ Out(strat)
                          \/ Buying /\ hold = 0 /\ Out(Retry(strat))
                          \/ w.h = "buy" /\ hold = 0 /\ On("persist")
                          \/ w.h = "waitsell" /\ hold = 0 /\ On("delete")
                          \/ Selling /\ On("stops") /\ w'.bal = hold
                          \/ TakenBack

LEMMA Asks == ASSUME StoryBefore PROVE AskTurns
<1>1. w \in WorkerI
  BY Tables
<1>2. ~Fails({"db"})
  BY DEF StoryBefore, Calm, Fails
<1>3. \A p, q : w' = [w EXCEPT !.pc = p, !.pos = q] => w'.pc = p /\ w'.h = w.h
  BY <1>1 DEF WorkerI
<1>4. \A p, r : w' = [w EXCEPT !.pc = p, !.row = r] => w'.pc = p /\ w'.h = w.h
  BY <1>1 DEF WorkerI
<1>5. w' = [w EXCEPT !.pc = "stops", !.bal = hold] => w'.pc = "stops" /\ w'.h = w.h /\ w'.bal = hold
  BY <1>1 DEF WorkerI
<1>6. Tick => /\ w.pc = "tick"
              /\ \/ strat = "IDLE" /\ strat' = strat /\ w'.pc = "retire" /\ w'.h = "none"
                 \/ /\ w'.h \in Signals(strat) /\ strat' = AfterSignal(w'.h)
                    /\ w'.pc = IF w'.h \in {"search", "track"} THEN "position" ELSE "pending"
  <2>1. strat \in StrategyState
    BY Tables
  <2>2. "buy" \in Signals(strat) => strat = "IDLE"
    BY <2>1 DEF Signals, StrategyState
  <2>3. w' = [Idle EXCEPT !.pc = "retire"] => w'.pc = "retire" /\ w'.h = "none"
    BY DEF Idle
  <2>4. ASSUME NEW h \in Signals(strat), strat' = AfterSignal(h),
               w' = [Idle EXCEPT !.h = h, !.pc = IF h \in {"search", "track"} THEN "position" ELSE "pending"]
        PROVE  /\ w'.h \in Signals(strat) /\ strat' = AfterSignal(w'.h)
               /\ w'.pc = IF w'.h \in {"search", "track"} THEN "position" ELSE "pending"
    <3>1. w'.h = h /\ w'.pc = IF h \in {"search", "track"} THEN "position" ELSE "pending"
      BY <2>4 DEF Idle
    <3>2. QED
      BY <2>4, <3>1
  <2>5. QED
    BY <2>2, <2>3, <2>4 DEF Tick
<1>7. CheckPending => w.pc = "pending" /\ (On("lookup") \/ On("position"))
  BY <1>1, <1>2, <1>4, Ways DEF CheckPending, On
<1>8. Lookup => w.pc = "lookup" /\ (On("position") \/ On("giveup") \/ TakenBack)
  BY <1>1, Ways DEF Lookup
<1>9. GiveUp => w.pc = "giveup" /\ On("position")
  BY <1>1, <1>2, Ways DEF GiveUp
<1>10. CheckPosition => /\ w.pc = "position"
                        /\ \/ pos.st = "ghost"
                           \/ /\ pos.st = "none"
                              /\ \/ w.h = "search" /\ Out(strat)
                                 \/ w.h = "buy" /\ Out(Retry(strat))
                                 \/ Buying /\ On("orders")
                                 \/ w.h \in {"track", "sell", "waitsell"} /\ Out("IDLE")
                           \/ /\ pos.st = "known"
                              /\ \/ w.h \in {"search", "buy", "waitbuy"} /\ Out("IN_POSITION")
                                 \/ w.h = "track" /\ (Out(strat) \/ On("stops"))
                                 \/ w.h \in {"waitbuy", "track"} /\ On("raise")
                                 \/ Selling /\ On("orders")
  <2>1. w' = [w EXCEPT !.pc = "stops", !.pos = pos] /\ UNCHANGED strat => On("stops")
    BY <1>3 DEF On
  <2>2. w' = [w EXCEPT !.pc = "raise", !.pos = pos] /\ UNCHANGED strat => On("raise")
    BY <1>3 DEF On
  <2>3. w' = [w EXCEPT !.pc = "orders", !.pos = pos] /\ UNCHANGED strat => On("orders")
    BY <1>3 DEF On
  <2>4. (\A p : Goto(p) => On(p)) /\ (\A s : Return(s) => Out(s))
    BY <1>1, Ways
  <2>5. QED
    BY <1>2, <2>1, <2>2, <2>3, <2>4 DEF CheckPosition, Buying, Selling
<1>11. CheckOpenOrders =>
          /\ w.pc = "orders"
          /\ \/ Out(strat)
             \/ /\ On("balance")
                /\ Select(rows, {"new", "open"}, {"market"}, {IF Buying THEN "buy" ELSE "sell"}) = {}
  BY <1>1, <1>2, Ways DEF CheckOpenOrders, Buying
<1>12. CheckBalance => /\ w.pc = "balance"
                       /\ \/ Buying /\ Out(strat)
                          \/ Buying /\ hold = 0 /\ Out(Retry(strat))
                          \/ w.h = "buy" /\ hold = 0 /\ On("persist")
                          \/ w.h = "waitsell" /\ hold = 0 /\ On("delete")
                          \/ Selling /\ On("stops") /\ w'.bal = hold
                          \/ TakenBack
  BY <1>1, <1>5, Ways DEF CheckBalance, Buying, Selling, On
<1>13. QED
  BY <1>6, <1>7, <1>8, <1>9, <1>10, <1>11, <1>12 DEF AskTurns

OrderTurns ==
    /\ PersistOrder => w.pc = "persist" /\ (On("send") \/ Out(strat))
    /\ SendOrder => w.pc = "send" /\ (On("confirm") \/ Out(strat))
    /\ ConfirmOrder => /\ w.pc = "confirm"
                       /\ \/ w.resp = "closed" /\ On(IF w.h = "buy" THEN "create" ELSE "close")
                          \/ Out(strat)
    /\ CreatePosition => w.pc = "create" /\ ((On("settle") /\ pos'.st = "known") \/ (Out(strat) /\ pos' = pos))
    /\ SettleBalance => w.pc = "settle" /\ (On("quantity") \/ Out("IN_POSITION") \/ Out(strat))
    /\ SettleQuantity => w.pc = "quantity" /\ (Out("IN_POSITION") \/ Out(strat))
    /\ ClosePosition => w.pc = "close" /\ Out("IDLE") /\ pos' = NoPosition
    /\ DropPosition => w.pc = "delete" /\ Out("IDLE") /\ pos' = NoPosition

LEMMA OrdersTurn == ASSUME StoryBefore PROVE OrderTurns
<1>1. w \in WorkerI
  BY Tables
<1>2. ~Fails({"db"})
  BY DEF StoryBefore, Calm, Fails
<1>3. w' = [w EXCEPT !.pc = "send", !.row = Len(rows) + 1] => w'.pc = "send" /\ w'.h = w.h
  BY <1>1 DEF WorkerI
<1>4. \A x, status : w' = [w EXCEPT !.pc = "confirm", !.x = x, !.resp = status] => w'.pc = "confirm" /\ w'.h = w.h
  BY <1>1 DEF WorkerI
<1>5. w' = [w EXCEPT !.pc = "quantity", !.bal = hold] => w'.pc = "quantity" /\ w'.h = w.h
  BY <1>1 DEF WorkerI
<1>6. w.resp \in {"none", "open", "closed"}
  BY <1>1 DEF WorkerI
<1>7. (\A p : Goto(p) => On(p)) /\ (\A s : Return(s) => Out(s))
  BY <1>1, Ways
<1>8. PersistOrder => w.pc = "persist" /\ (On("send") \/ Out(strat))
  BY <1>3, <1>7 DEF PersistOrder, On
<1>9. SendOrder => w.pc = "send" /\ (On("confirm") \/ Out(strat))
  BY <1>4, <1>7 DEF SendOrder, On
<1>10. ConfirmOrder => /\ w.pc = "confirm"
                       /\ \/ w.resp = "closed" /\ On(IF w.h = "buy" THEN "create" ELSE "close")
                          \/ Out(strat)
  <2>1. w.pc = "confirm" => w.resp \in {"open", "closed"}
    BY DEF StoryBefore, CoverBefore, StopsBefore, LotsBefore, IInv, WorkerIn
  <2>2. QED
    BY <1>7, <2>1 DEF ConfirmOrder
<1>11. CreatePosition => w.pc = "create" /\ ((On("settle") /\ pos'.st = "known") \/ (Out(strat) /\ pos' = pos))
  <2>1. w.pc = "create" => w.row # 0
    BY DEF StoryBefore, CoverBefore, StopsBefore, LotsBefore, IInv, WorkerIn, BackedIn
  <2>2. w.row # 0 => CreatedPosition(w.row, rows[w.row].qty).st = "known"
    BY DEF CreatedPosition
  <2>3. CreatePosition => \/ pos' = CreatedPosition(w.row, rows[w.row].qty) /\ On("settle")
                          \/ Out(strat) /\ pos' = pos
    BY <1>7 DEF CreatePosition
  <2>4. QED
    BY <2>1, <2>2, <2>3 DEF CreatePosition
<1>12. SettleBalance => w.pc = "settle" /\ (On("quantity") \/ Out("IN_POSITION") \/ Out(strat))
  BY <1>5, <1>7 DEF SettleBalance, On
<1>13. SettleQuantity => w.pc = "quantity" /\ (Out("IN_POSITION") \/ Out(strat))
  BY <1>7 DEF SettleQuantity
<1>14. ClosePosition => w.pc = "close" /\ Out("IDLE") /\ pos' = NoPosition
  BY <1>2, <1>7 DEF ClosePosition
<1>15. DropPosition => w.pc = "delete" /\ Out("IDLE") /\ pos' = NoPosition
  BY <1>2, <1>7 DEF DropPosition
<1>16. QED
  BY <1>8, <1>9, <1>10, <1>11, <1>12, <1>13, <1>14, <1>15 DEF OrderTurns

StopTurns ==
    /\ ListOpenOrders => /\ w.pc = "stops"
                         /\ \/ On("record") /\ w'.bal = w.bal /\ w'.todo = {x \in DOMAIN xord : xord[x].status = "open"}
                            \/ TakenBack
    /\ RecordOpenOrder => w.pc = "record" /\ On("record") /\ w'.bal = w.bal /\ w'.todo \subseteq w.todo
    /\ DecideOnStop => /\ w.pc = "record"
                       /\ \/ w.h = "track" /\ (On("arm") \/ On("raise"))
                          \/ w.h = "sell" /\ Out(strat)
                          \/ Selling /\ On("cancel") /\ w'.bal = w.bal
                          \/ w.h = "sell" /\ On(IF w.bal = 0 THEN "delete" ELSE "persist")
                          \/ w.h = "waitsell" /\ Out(Retry(strat))
    /\ ArmStop => w.pc = "arm" /\ (On("stoprow") \/ Out(strat))
    /\ PersistStop => w.pc = "stoprow" /\ (On("raise") \/ Out(strat))
    /\ RaisePosition => w.pc = "raise" /\ Out(IF w.h = "waitbuy" THEN "IN_POSITION" ELSE strat)
    /\ CancelStop => w.pc = "cancel" /\ ((On("canceled") /\ w'.bal = w.bal) \/ TakenBack)
    /\ StoreCanceled => /\ w.pc = "canceled"
                        /\ \/ w.h = "waitsell" /\ Out(Retry(strat))
                           \/ w.h = "sell" /\ On(IF w.bal = 0 THEN "delete" ELSE "persist")
                           \/ TakenBack
    /\ CheckTermination => /\ w.pc = "retire" /\ strat' = strat /\ w'.pc \in {"apply", "tick"}
                           /\ w'.h \in {w.h, "none"}
    /\ ApplyDisable => w.pc = "apply" /\ strat' = strat /\ w'.pc = "stopped" /\ w'.h = "none"

LEMMA StopsTurn == ASSUME StoryBefore PROVE StopTurns
<1>1. w \in WorkerI
  BY Tables
<1>2. ~Fails({"db"})
  BY DEF StoryBefore, Calm, Fails
<1>3. (\A p : Goto(p) => On(p) /\ w'.bal = w.bal) /\ (\A s : Return(s) => Out(s)) /\ (OnError => TakenBack)
  BY <1>1, Ways, GotoKeeps
<1>4. ListOpenOrders => /\ w.pc = "stops"
                        /\ \/ On("record") /\ w'.bal = w.bal /\ w'.todo = {x \in DOMAIN xord : xord[x].status = "open"}
                           \/ TakenBack
  <2>1. \A t : w' = [w EXCEPT !.pc = "record", !.todo = t] =>
                  w'.pc = "record" /\ w'.h = w.h /\ w'.bal = w.bal /\ w'.todo = t
    BY <1>1 DEF WorkerI
  <2>2. QED
    BY <1>3, <2>1 DEF ListOpenOrders, On
<1>5. RecordOpenOrder => w.pc = "record" /\ On("record") /\ w'.bal = w.bal /\ w'.todo \subseteq w.todo
  BY <1>1 DEF RecordOpenOrder, On, WorkerI
<1>6. DecideOnStop => /\ w.pc = "record"
                      /\ \/ w.h = "track" /\ (On("arm") \/ On("raise"))
                         \/ w.h = "sell" /\ Out(strat)
                         \/ Selling /\ On("cancel") /\ w'.bal = w.bal
                         \/ w.h = "sell" /\ On(IF w.bal = 0 THEN "delete" ELSE "persist")
                         \/ w.h = "waitsell" /\ Out(Retry(strat))
  <2>1. w' = [w EXCEPT !.pc = "raise", !.pos.sl = TRUE] => w'.pc = "raise" /\ w'.h = w.h
    BY <1>1 DEF WorkerI
  <2>2. QED
    BY <1>3, <2>1 DEF DecideOnStop, On, Selling
<1>7. ArmStop => w.pc = "arm" /\ (On("stoprow") \/ Out(strat))
  <2>1. \A x : w' = [w EXCEPT !.pc = "stoprow", !.x = x] => w'.pc = "stoprow" /\ w'.h = w.h
    BY <1>1 DEF WorkerI
  <2>2. QED
    BY <1>3, <2>1 DEF ArmStop, On
<1>8. PersistStop => w.pc = "stoprow" /\ (On("raise") \/ Out(strat))
  <2>1. w' = [w EXCEPT !.pc = "raise", !.pos.sl = TRUE] => w'.pc = "raise" /\ w'.h = w.h
    BY <1>1 DEF WorkerI
  <2>2. QED
    BY <1>3, <2>1 DEF PersistStop, On
<1>9. RaisePosition => w.pc = "raise" /\ Out(IF w.h = "waitbuy" THEN "IN_POSITION" ELSE strat)
  BY <1>3 DEF RaisePosition
<1>10. CancelStop => w.pc = "cancel" /\ ((On("canceled") /\ w'.bal = w.bal) \/ TakenBack)
  BY <1>3 DEF CancelStop
<1>11. StoreCanceled => /\ w.pc = "canceled"
                        /\ \/ w.h = "waitsell" /\ Out(Retry(strat))
                           \/ w.h = "sell" /\ On(IF w.bal = 0 THEN "delete" ELSE "persist")
                           \/ TakenBack
  <2>1. w.pc = "canceled" => w.h \in {"sell", "waitsell"}
    BY DEF StoryBefore, CoverBefore, StopsBefore, LotsBefore, OneLot, Placement
  <2>2. QED
    BY <1>3, <2>1 DEF StoreCanceled
<1>12. CheckTermination => /\ w.pc = "retire" /\ strat' = strat /\ w'.pc \in {"apply", "tick"}
                           /\ w'.h \in {w.h, "none"}
  <2>1. w' = [w EXCEPT !.pc = "apply"] => w'.pc = "apply" /\ w'.h = w.h
    BY <1>1 DEF WorkerI
  <2>2. w' = Idle => w'.pc = "tick" /\ w'.h = "none"
    BY DEF Idle
  <2>3. QED
    BY <2>1, <2>2 DEF CheckTermination
<1>13. ApplyDisable => w.pc = "apply" /\ strat' = strat /\ w'.pc = "stopped" /\ w'.h = "none"
  <2>1. w' = [Idle EXCEPT !.pc = "stopped"] => w'.pc = "stopped" /\ w'.h = "none"
    BY DEF Idle
  <2>2. QED
    BY <1>2, <2>1 DEF ApplyDisable
<1>14. QED
  BY <1>4, <1>5, <1>6, <1>7, <1>8, <1>9, <1>10, <1>11, <1>12, <1>13 DEF StopTurns
----------------------------------------------------------------------------
(* Nobody else moves the worker, except who starts it again.                *)
LEMMA Drivers ==
    ASSUME StoryBefore, [SyncNext]_vars
    PROVE  \/ ByWorker
           \/ UNCHANGED <<w, strat>>
           \/ /\ w.pc = "stopped" /\ pair # "disabled" /\ w' = Idle /\ strat' = "IDLE"
              /\ UNCHANGED <<rows, pos, xord, hold, so, pair>>
<1>1. ASSUME StartWorker, UNCHANGED so
      PROVE  /\ w.pc = "stopped" /\ pair # "disabled" /\ w' = Idle /\ strat' = "IDLE"
             /\ UNCHANGED <<rows, pos, xord, hold, so, pair>>
  <2>1. pos.st = "none"
    BY <1>1 DEF StartWorker, StoryBefore, Story, Steering, Telling
  <2>2. Hydrated(pos) = "IDLE"
    BY <2>1 DEF Hydrated
  <2>3. QED
    BY <1>1, <2>2 DEF StartWorker, Restarted, Runnable, database, exchange
<1>2. QED
  BY <1>1, CalmMovers DEF ByWorker, vars, pairVars

(* On its errand the worker stays on the signal; it only ends when idle.    *)
LEMMA SteeringKept == ASSUME StoryBefore, [SyncNext]_vars PROVE Steering'
<1>1. /\ w.pc \in OffDuty => w.h = "none"
      /\ w.pc \notin OffDuty => w.h # "none" /\ strat = AfterSignal(w.h)
      /\ w.pc \in {"retire", "apply", "stopped"} => strat = "IDLE"
      /\ w.pc \in {"persist", "send", "confirm"} => w.h \in {"buy", "sell"}
      /\ w.pc \in {"create", "settle", "quantity"} => w.h = "buy"
      /\ w.pc = "close" => w.h = "sell"
      /\ w.pc = "delete" => w.h \in {"sell", "waitsell"}
      /\ w.pc = "raise" => w.h \in {"track", "waitbuy"}
      /\ w.pc \in {"orders", "balance"} => w.h \in {"buy", "waitbuy", "sell", "waitsell"}
      /\ pair = "disabled" => w.pc = "stopped"
      /\ sp.pc = "idle" /\ sp' = sp
      /\ "stops" \notin Tasks => ss.pc = "idle" /\ ss' = ss
  BY CalmMovers DEF StoryBefore, Story, Steering
<1>2. strat \in StrategyState /\ w.h \in Handlers /\ pos.st # "ghost" /\ (strat = "IDLE" => pos.st = "none")
  BY Tables DEF WorkerI, StoryBefore, Story, Telling
<1>3. \A h \in Signals(strat) : h # "none" /\ h \in Handlers
  BY <1>2 DEF Signals, StrategyState, Handlers
<1>4. AfterSignal("search") = "IDLE"
  BY DEF AfterSignal
<1>5. ASSUME ByWorker PROVE /\ w'.pc \in OffDuty => w'.h = "none"
                            /\ w'.pc \notin OffDuty => w'.h # "none" /\ strat' = AfterSignal(w'.h)
                            /\ w'.pc \in {"retire", "apply", "stopped"} => strat' = "IDLE"
                            /\ w'.pc \in {"persist", "send", "confirm"} => w'.h \in {"buy", "sell"}
                            /\ w'.pc \in {"create", "settle", "quantity"} => w'.h = "buy"
                            /\ w'.pc = "close" => w'.h = "sell"
                            /\ w'.pc = "delete" => w'.h \in {"sell", "waitsell"}
                            /\ w'.pc = "raise" => w'.h \in {"track", "waitbuy"}
                            /\ w'.pc \in {"orders", "balance"} => w'.h \in {"buy", "waitbuy", "sell", "waitsell"}
  <2>1. AskTurns /\ OrderTurns /\ StopTurns /\ WorkerStep
    BY <1>5, Asks, OrdersTurn, StopsTurn DEF ByWorker
  <2> DEFINE Goal == /\ w'.pc \in OffDuty => w'.h = "none"
                     /\ w'.pc \notin OffDuty => w'.h # "none" /\ strat' = AfterSignal(w'.h)
                     /\ w'.pc \in {"retire", "apply", "stopped"} => strat' = "IDLE"
                     /\ w'.pc \in {"persist", "send", "confirm"} => w'.h \in {"buy", "sell"}
                     /\ w'.pc \in {"create", "settle", "quantity"} => w'.h = "buy"
                     /\ w'.pc = "close" => w'.h = "sell"
                     /\ w'.pc = "delete" => w'.h \in {"sell", "waitsell"}
                     /\ w'.pc = "raise" => w'.h \in {"track", "waitbuy"}
                     /\ w'.pc \in {"orders", "balance"} => w'.h \in {"buy", "waitbuy", "sell", "waitsell"}
  <2>2. \A s : Out(s) /\ (w.h = "search" => s = "IDLE") => Goal
    BY DEF Out, OffDuty
  <2>3. TakenBack /\ w.pc \notin OffDuty => Goal
    <3>1. w.pc \notin OffDuty /\ w.h = "search" => strat = "IDLE"
      BY <1>1, <1>4
    <3>2. QED
      BY <2>2, <3>1 DEF TakenBack
  <2>4. Tick => Goal
    BY <1>1, <1>3, <2>1 DEF AskTurns, OffDuty
  <2>5. CheckPending \/ Lookup \/ GiveUp => Goal
    BY <1>1, <2>1, <2>3 DEF AskTurns, On, OffDuty
  <2>6. CheckPosition => Goal
    <3>1. w.pc = "position" /\ w.h = "search" => strat = "IDLE" /\ pos.st = "none"
      BY <1>1, <1>2, <1>4 DEF OffDuty
    <3>2. CheckPosition => \/ w.h # "none" /\ On("stops")
                           \/ w.h \in {"track", "waitbuy"} /\ On("raise")
                           \/ (Buying \/ Selling) /\ On("orders")
                           \/ w.h = "search" /\ w.pc = "position" /\ pos.st = "none" /\ Out(strat)
                           \/ \E s : w.h # "search" /\ Out(s)
      BY <1>1, <1>2, <2>1, <3>1 DEF AskTurns, OffDuty
    <3>3. w.pc = "position" /\ w.h # "none" /\ On("stops") => Goal
      BY <1>1 DEF On, OffDuty
    <3>4. w.pc = "position" /\ w.h \in {"track", "waitbuy"} /\ On("raise") => Goal
      BY <1>1 DEF On, OffDuty
    <3>5. w.pc = "position" /\ (Buying \/ Selling) /\ On("orders") => Goal
      BY <1>1 DEF On, OffDuty, Buying, Selling
    <3>6. CheckPosition => w.pc = "position"
      BY <2>1 DEF AskTurns
    <3>7. QED
      BY <2>2, <3>1, <3>2, <3>3, <3>4, <3>5, <3>6
  <2>7. CheckOpenOrders \/ CheckBalance => Goal
    <3>1. w.pc \in {"orders", "balance"} => w.h # "search"
      BY <1>1
    <3>2. CheckOpenOrders => Goal
      BY <1>1, <2>1, <2>2, <3>1 DEF AskTurns, On, OffDuty
    <3>3. CheckBalance => Goal
      BY <1>1, <2>1, <2>2, <2>3, <3>1 DEF AskTurns, On, OffDuty
    <3>4. QED
      BY <3>2, <3>3
  <2>8. PersistOrder \/ SendOrder \/ ConfirmOrder => Goal
    <3>1. w.pc \in {"persist", "send", "confirm"} => w.h # "search"
      BY <1>1
    <3>2. QED
      BY <1>1, <2>1, <2>2, <3>1 DEF OrderTurns, On, OffDuty
  <2>9. CreatePosition \/ SettleBalance \/ SettleQuantity \/ ClosePosition \/ DropPosition => Goal
    <3>1. w.pc \in {"create", "settle", "quantity", "close", "delete"} => w.h # "search"
      BY <1>1
    <3>2. QED
      BY <1>1, <2>1, <2>2, <3>1 DEF OrderTurns, On, OffDuty
  <2>10. ListOpenOrders \/ RecordOpenOrder \/ DecideOnStop => Goal
    <3>1. w.pc \in {"stops", "record"} => w.h # "search"
      BY DEF StoryBefore, CoverBefore, StopsBefore, LotsBefore, OneLot, Placement
    <3>2. ListOpenOrders \/ RecordOpenOrder => Goal
      BY <1>1, <2>1, <2>3 DEF StopTurns, On, OffDuty
    <3>3. DecideOnStop => Goal
      BY <1>1, <2>1, <2>2, <3>1 DEF StopTurns, On, OffDuty, Selling
    <3>4. QED
      BY <3>2, <3>3
  <2>11. ArmStop \/ PersistStop \/ RaisePosition => Goal
    <3>1. w.pc \in {"arm", "stoprow"} => w.h = "track"
      BY DEF StoryBefore, CoverBefore, StopsBefore, LotsBefore, OneLot, Placement
    <3>2. QED
      BY <1>1, <2>1, <2>2, <3>1 DEF StopTurns, On, OffDuty
  <2>12. CancelStop \/ StoreCanceled => Goal
    <3>1. CancelStop => Goal
      BY <1>1, <2>1, <2>3 DEF StopTurns, On, OffDuty
    <3>2. StoreCanceled => Goal
      BY <1>1, <2>1, <2>2, <2>3 DEF StopTurns, On, OffDuty
    <3>3. QED
      BY <3>1, <3>2
  <2>13. CheckTermination \/ ApplyDisable => Goal
    BY <1>1, <2>1 DEF StopTurns, OffDuty
  <2>14. QED
    BY <2>1, <2>4, <2>5, <2>6, <2>7, <2>8, <2>9, <2>10, <2>11, <2>12, <2>13 DEF WorkerStep
<1>6. w' = Idle => w'.pc = "tick" /\ w'.h = "none"
  BY DEF Idle
<1>7. pair' = "disabled" => w'.pc = "stopped"
  <2>1. CASE pair' = "disabled" /\ pair # "disabled"
    <3>1. ByWorker => ApplyDisable
      BY <2>1 DEF ByWorker, WorkerStep, Tick, CheckPending, Lookup, GiveUp, CheckPosition,
         CheckOpenOrders, CheckBalance, PersistOrder, SendOrder, ConfirmOrder, CreatePosition, SettleBalance,
         SettleQuantity, ClosePosition, DropPosition, RaisePosition,
         ListOpenOrders, RecordOpenOrder, DecideOnStop, ArmStop, PersistStop, CancelStop,
         StoreCanceled, CheckTermination, control
    <3>2. ByWorker
      BY <2>1, CalmMovers DEF Exchange, StartWorker, Restarted, UpdateWorker, Manage, RequestDisable, EnableStrategy,
         control, vars, pairVars
    <3>3. QED
      BY <3>1, <3>2, StopsTurn DEF StopTurns
  <2>2. CASE pair = "disabled"
    <3>1. w.pc = "stopped"
      BY <1>1, <2>2
    <3>2. ~ByWorker
      BY <3>1, Asks, OrdersTurn, StopsTurn DEF ByWorker, WorkerStep, AskTurns, OrderTurns, StopTurns
    <3>3. QED
      BY <2>2, <3>1, <3>2, Drivers
  <2>3. QED
    BY <2>1, <2>2
<1>8. QED
  BY <1>1, <1>5, <1>6, <1>7, Drivers DEF Steering, OffDuty
----------------------------------------------------------------------------
(* SyncOrders has listed open rows, and nobody else ends one of them.       *)
LEMMA TodoKept ==
    ASSUME StoryBefore, [SyncNext]_vars
    PROVE  \A r \in so'.todo : rows'[r].status \in {"new", "open"}
<1>1. /\ so \in OrdersI /\ Len(rows) \in Nat /\ DOMAIN rows = 1..Len(rows)
      /\ so.pc = "fetch" => so.todo # {}
      /\ \A r \in so.todo : /\ r \in 1..Len(rows) /\ rows[r].status \in {"new", "open"}
                            /\ rows[r].xid # 0 /\ rows[r].kind = "market"
  BY Tables DEF StoryBefore, Story, Settling, CoverBefore, StopsBefore, LotsBefore, IInv, OrdersIn
<1>2. \A r \in so.todo : rows[r].xid \in 1..Len(xord) /\ xord[rows[r].xid].cid = r /\ xord[rows[r].xid].kind = "market"
  BY <1>1, RowOrders
<1>3. ASSUME ~OrdersFetch, NEW r \in so.todo PROVE rows'[r].status \in {"new", "open"}
  <2>1. \A xid, side, kind, status, qty : RowAdded(rows, rows', xid, side, kind, status, qty) => rows'[r] = rows[r]
    BY <1>1 DEF RowAdded
  <2>2. w.pc \in {"lookup", "giveup", "confirm"} => w.row # r
    BY <1>1 DEF StoryBefore, CoverBefore, StopsBefore, LotsBefore, IInv, WorkerIn
  <2>3. \A k, x, status : RowLinked(rows, rows', k, x, status) /\ k # r => rows'[r] = rows[r]
    BY <1>1 DEF RowLinked
  <2>4. \A x, status : RowsStated(rows, rows', x, status) =>
          rows'[r].status = IF rows[r].xid = x THEN status ELSE rows[r].status
    BY <1>1 DEF RowsStated
  <2>5. \A x \in 1..Len(xord) : xord[x].kind = "stop" => rows[r].xid # x
    BY <1>2
  <2>6. RowsMoved
    BY RowsMove
  <2>7. QED
    BY <1>1, <1>3, <2>1, <2>2, <2>3, <2>4, <2>5, <2>6 DEF RowsMoved, Lookup, GiveUp, ConfirmOrder
<1>4. CASE OrdersFetch
  <2> DEFINE r == Max(so.todo)
             x == rows[r].xid
  <2>1. so.todo # {} /\ so.todo \subseteq 1..Len(rows)
    BY <1>1, <1>4 DEF OrdersFetch
  <2>2. r \in so.todo
    BY <1>1, <2>1, MaxPlace
  <2> HIDE DEF r
  <2>3. so'.todo \subseteq so.todo \ {r}
    <3>1. so' = [so EXCEPT !.pc = "create", !.todo = @ \ {r}, !.row = r] => so'.todo = so.todo \ {r}
      BY <1>1 DEF OrdersI
    <3>2. OrdersNext(so.todo \ {r}) => so'.todo = so.todo \ {r}
      BY DEF OrdersNext, OrdersIdle
    <3>3. QED
      BY <1>4, <3>1, <3>2 DEF OrdersFetch, r
  <2>4. \A k \in so.todo \ {r} : rows[k].xid # x
    BY <1>2, <2>2
  <2>5. rows' = rows \/ rows' = Upserted(rows, x, xord[x], xord[x].status)
    BY <1>4 DEF OrdersFetch, r
  <2>6. Recorded(rows, x)
    BY <1>1, <2>2 DEF Recorded
  <2>7. \A k \in so.todo \ {r} : rows'[k] = rows[k]
    BY <1>1, <2>4, <2>5, <2>6 DEF Upserted
  <2>8. QED
    BY <1>1, <2>3, <2>7
<1>5. CASE ~OrdersFetch
  <2>1. ASSUME OrdersStart, NEW r \in so'.todo PROVE rows'[r].status \in {"new", "open"}
    <3>1. rows' = rows
      BY <2>1 DEF OrdersStart, pairVars
    <3>2. so'.todo = {k \in Select(rows, {"new", "open"}, {"market"}, Sides) : rows[k].xid # 0}
      BY <2>1 DEF OrdersStart, OrdersIdle
    <3>3. QED
      BY <2>1, <3>1, <3>2 DEF Select
  <2>2. OrdersNext(so.todo) => so'.todo = so.todo
    BY DEF OrdersNext, OrdersIdle
  <2>3. OrdersCreate \/ OrdersBalance \/ OrdersQuantity => so'.todo = so.todo
    <3>1. so' = [so EXCEPT !.pc = "balance"] => so'.todo = so.todo
      BY <1>1 DEF OrdersI
    <3>2. so' = [so EXCEPT !.pc = "quantity", !.bal = hold] => so'.todo = so.todo
      BY <1>1 DEF OrdersI
    <3>3. QED
      BY <2>2, <3>1, <3>2 DEF OrdersCreate, OrdersBalance, OrdersQuantity
  <2>4. SyncOrders \/ so' = so
    BY CalmMovers DEF ByWorker, tasks, vars
  <2>5. QED
    BY <1>3, <1>5, <2>1, <2>3, <2>4 DEF SyncOrders
<1>6. QED
  BY <1>4, <1>5

(* What the worker finds when it lists the open orders are stop orders.     *)
Listed(todo, xs, rs) ==
    /\ \A x \in todo : xs[x].kind = "stop"
    /\ "stops" \notin Tasks =>
          \A x \in todo : \A r \in 1..Len(rs) : rs[r].xid = x => rs[r].status \notin Final

LEMMA ListedKept ==
    ASSUME StoryBefore, [SyncNext]_vars, w'.pc = "record"
    PROVE  Listed(w'.todo, xord', rows')
<1>1. /\ Len(rows) \in Nat /\ DOMAIN xord = 1..Len(xord) /\ w.todo \subseteq 1..Len(xord)
      /\ strat \in StrategyState /\ w \in WorkerI
      /\ \A x \in 1..Len(xord) : xord[x].side \in {"buy", "sell"} /\ xord[x].kind \in {"market", "stop"}
  BY Tables DEF StoryBefore, CoverBefore, StopsBefore, LotsBefore, IInv, WorkerIn, Own
<1>2. CASE ListOpenOrders /\ ByWorker
  <2>1. w.pc = "stops" /\ UNCHANGED <<rows, xord>> /\ w'.todo = {x \in DOMAIN xord : xord[x].status = "open"}
    <3>1. TakenBack => w'.pc # "record"
      BY DEF TakenBack, Out
    <3>2. QED
      BY <1>2, <3>1, StopsTurn DEF StopTurns, ListOpenOrders, database, exchange
  <2>2. w.h \in {"track", "sell", "waitsell"}
    BY <2>1 DEF StoryBefore, CoverBefore, StopsBefore, LotsBefore, OneLot, Placement
  <2>3. strat \in {"IN_POSITION", "PENDING_SELL"} /\ (w.h = "track" => strat = "IN_POSITION")
    BY <2>1, <2>2 DEF StoryBefore, Story, Steering, OffDuty, AfterSignal
  <2>4. Buys = {} /\ Sells = {}
    BY <2>1, <2>2, <2>3 DEF StoryBefore, Story, Telling, Knowing
  <2>5. ASSUME NEW x \in w'.todo PROVE xord[x].kind = "stop" /\ xord[x].status = "open" /\ x \in 1..Len(xord)
    BY <1>1, <2>1, <2>4, <2>5 DEF Buys, Sells, LiveIn
  <2>6. ASSUME NEW x \in w'.todo, NEW r \in 1..Len(rows), rows[r].xid = x PROVE rows[r].status \notin Final
    <3>1. rows[r].xid # 0 /\ xord[x].status = "open"
      BY <2>5, <2>6
    <3>2. QED
      BY <2>6, <3>1 DEF StoryBefore, Story, Settling, Final
  <2>7. QED
    BY <2>1, <2>5, <2>6 DEF Listed
<1>3. ASSUME w.pc = "record", w'.todo \subseteq w.todo
      PROVE  Listed(w'.todo, xord', rows')
  <2>1. /\ \A x \in w.todo : xord[x].kind = "stop" /\ x \in 1..Len(xord)
        /\ "stops" \notin Tasks =>
              \A x \in w.todo : \A r \in 1..Len(rows) : rows[r].xid = x => rows[r].status \notin Final
    BY <1>1, <1>3 DEF StoryBefore, Story, Settling
  <2>2. \A x \in w.todo : xord'[x].kind = "stop"
    BY <2>1, OrdersKept
  <2>3. ASSUME "stops" \notin Tasks, NEW x \in w.todo, NEW r \in 1..Len(rows'), rows'[r].xid = x
        PROVE  rows'[r].status \notin Final
    <3>1. \A side, kind, qty, y, status : RowAdded(rows, rows', y, side, kind, status, qty) /\ status \notin Final =>
             rows'[r].status \notin Final
      BY <1>1, <2>1, <2>3 DEF RowAdded
    <3>2. \A y, status : RowsStated(rows, rows', y, status) /\ (y = x => status \notin Final) =>
             rows'[r].status \notin Final
      BY <1>1, <2>1, <2>3 DEF RowsStated
    <3>3. "open" \notin Final
      BY DEF Final
    <3>4. \A k \in so.todo : rows[k].xid # x
      <4>1. ASSUME NEW k \in so.todo PROVE k \in 1..Len(rows) /\ rows[k].xid # 0 /\ rows[k].kind = "market"
        BY DEF StoryBefore, CoverBefore, StopsBefore, LotsBefore, IInv, OrdersIn
      <4>2. QED
        BY <2>1, <4>1, RowOrders
    <3>5. ByWorker => RecordOpenOrder \/ DecideOnStop
      BY <1>3, Asks, OrdersTurn, StopsTurn DEF ByWorker, WorkerStep, AskTurns, OrderTurns, StopTurns
    <3>6. DecideOnStop => UNCHANGED rows
      BY DEF DecideOnStop, database
    <3>7. UNCHANGED rows => rows'[r].status \notin Final
      BY <2>1, <2>3
    <3>8. ~StopsFetch /\ ~StopsStore
      BY <2>3 DEF StopsFetch, StopsStore, StoryBefore, Story, Steering
    <3>9. CASE RecordOpenOrder /\ ByWorker
      <4>1. w.pc = "record"
        BY <3>9 DEF RecordOpenOrder
      <4>2. RowsMoved /\ ~PersistOrder /\ ~Lookup /\ ~GiveUp /\ ~ConfirmOrder /\ ~PersistStop /\ ~StoreCanceled
        BY <4>1, RowsMove DEF PersistOrder, Lookup, GiveUp, ConfirmOrder, PersistStop, StoreCanceled
      <4>3. QED
        BY <3>1, <3>2, <3>3, <3>4, <3>7, <3>8, <4>2 DEF RowsMoved
    <3>10. CASE ~ByWorker
      BY <3>2, <3>4, <3>7, <3>8, <3>10, RowsMove DEF RowsMoved
    <3>11. QED
      BY <3>5, <3>6, <3>7, <3>9, <3>10
  <2>4. QED
    BY <1>3, <2>2, <2>3 DEF Listed
<1>4. CASE ByWorker /\ ~ListOpenOrders
  <2>1. RecordOpenOrder
    BY <1>4, Arrivals DEF ByWorker, StoryBefore, CoverBefore, StopsBefore, LotsBefore, Arrival
  <2>2. QED
    BY <1>3, <2>1, StopsTurn DEF StopTurns
<1>5. CASE UNCHANGED w
  BY <1>3, <1>5
<1>6. w' = Idle => w'.pc # "record"
  BY DEF Idle
<1>7. QED
  BY <1>2, <1>4, <1>5, <1>6, Drivers

(* The final rows stay right. *)
LEMMA SettlingKept == ASSUME StoryBefore, [SyncNext]_vars PROVE Settling'
BY FinalTrueKept, NewRowKept, TodoKept, ListedKept DEF Settling, FinalTrue, Listed
----------------------------------------------------------------------------
(* Who moves the lots: the worker buys or sells on that signal, and a lot   *)
(* goes only to an open sale or stop order, or by the sale the worker sends.*)
LEMMA LotMovers ==
    ASSUME StoryBefore, [SyncNext]_vars
    PROVE  /\ UNCHANGED <<xord, hold>> \/ UNCHANGED <<rows, pos, wallet, pair>>
           /\ Buys = {} /\ (Buys' # {} \/ (hold = 0 /\ hold' = 1)) => ByWorker /\ SendOrder /\ w.h = "buy"
           /\ Sells = {} /\ Sells' # {} => ByWorker /\ SendOrder /\ w.h = "sell"
           /\ hold = 1 /\ hold' = 0 => Stops # {} \/ Sells # {} \/ (ByWorker /\ SendOrder /\ w.h = "sell")
           /\ Stops = {} /\ Stops' # {} => ByWorker /\ ArmStop
<1> DEFINE Goal == /\ UNCHANGED <<xord, hold>> \/ UNCHANGED <<rows, pos, wallet, pair>>
                   /\ Buys = {} /\ (Buys' # {} \/ (hold = 0 /\ hold' = 1)) => ByWorker /\ SendOrder /\ w.h = "buy"
                   /\ Sells = {} /\ Sells' # {} => ByWorker /\ SendOrder /\ w.h = "sell"
                   /\ hold = 1 /\ hold' = 0 => Stops # {} \/ Sells # {} \/ (ByWorker /\ SendOrder /\ w.h = "sell")
<1>1. xord \in Seq(OrderI) /\ hold \in {0, 1} /\ StopsBefore /\ LotsBefore
  BY Tables DEF StoryBefore, CoverBefore, StopsBefore
<1>2. Stops = {} /\ Stops' # {} => ByWorker /\ ArmStop
  BY <1>1, StopsMoved
<1>3. UNCHANGED <<xord, hold>> => Goal
  BY <1>1 DEF Buys, Sells
<1>4. ASSUME UNCHANGED <<rows, pos, wallet, pair>>, NEW side, NEW status, OrderSent(side, status) PROVE Goal
  <2>1. Placed(xord, xord', w.row, side, "market", 1, status) /\ side \in {"buy", "sell"} /\ ByWorker /\ SendOrder
    BY <1>4 DEF OrderSent
  <2>2. w.h = "buy" \/ w.h = "sell"
    BY <2>1, OrdersTurn DEF OrderTurns, StoryBefore, Story, Steering
  <2>3. /\ side # "buy" => Buys' = Buys
        /\ side # "sell" => Sells' = Sells
    BY <1>1, <2>1, PlacedLive DEF Buys, Sells
  <2>4. CASE side = "buy"
    BY <1>4, <2>1, <2>3, <2>4 DEF OrderSent
  <2>5. CASE side = "sell"
    BY <1>4, <2>1, <2>2, <2>3, <2>5 DEF OrderSent
  <2>6. QED
    BY <2>1, <2>4, <2>5
<1>5. ASSUME UNCHANGED <<rows, pos, wallet, pair>>, OrderArmed PROVE Goal
  <2>1. Buys' = Buys /\ Sells' = Sells /\ hold' = hold
    BY <1>1, <1>5, PlacedLive DEF Buys, Sells, OrderArmed
  <2>2. QED
    BY <1>5, <2>1
<1>6. ASSUME UNCHANGED <<rows, pos, wallet, pair>>, NEW x \in 1..Len(xord), NEW status, OrderEnded(x, status) PROVE Goal
  <2>1. Turned(xord, xord', x, status) /\ status # "open" /\ xord[x].status = "open"
    BY <1>6 DEF OrderEnded
  <2>2. Buys' = Buys \ {x} /\ Sells' = Sells \ {x}
    BY <1>1, <2>1, TurnedLive DEF Buys, Sells
  <2>3. xord[x].side \in {"buy", "sell"} /\ xord[x].kind \in {"market", "stop"} /\ 
        (xord[x].kind = "stop" => xord[x].side = "sell")
    BY Tables DEF StoryBefore, CoverBefore, StopsBefore, LotsBefore, OneLot, SingleLots
  <2>4. CASE xord[x].kind = "stop"
    <3>1. x \in Stops
      BY <2>1, <2>3, <2>4 DEF Stops, LiveIn
    <3>2. hold' = 0 \/ hold' = hold
      BY <1>6, <2>4 DEF OrderEnded
    <3>3. QED
      BY <1>1, <1>6, <2>2, <3>1, <3>2
  <2>5. CASE xord[x].kind = "market" /\ xord[x].side = "buy"
    <3>1. x \in Buys /\ hold = 0
      BY <1>6, <2>1, <2>5 DEF Buys, LiveIn, OrderEnded
    <3>2. QED
      BY <1>6, <2>2, <3>1
  <2>6. CASE xord[x].kind = "market" /\ xord[x].side = "sell"
    <3>1. x \in Sells /\ hold = 1
      BY <1>6, <2>1, <2>6 DEF Sells, LiveIn, OrderEnded
    <3>2. QED
      BY <1>6, <2>2, <3>1
  <2>7. QED
    BY <2>3, <2>4, <2>5, <2>6
<1>7. MarketMoved
  BY <1>1, MarketMoves DEF LotsBefore
<1>8. Goal
  BY <1>3, <1>4, <1>5, <1>6, <1>7 DEF MarketMoved
<1>9. QED
  BY <1>2, <1>8

(* A filled buy begins to wait when it takes the account from no lot to     *)
(* one, and never afterwards.                                               *)
LEMMA WaitingMoves ==
    ASSUME StoryBefore, [SyncNext]_vars
    PROVE  \/ Waiting' \subseteq Waiting
           \/ /\ hold = 0 /\ hold' = 1 /\ UNCHANGED rows
              /\ \E x : Waiting' \subseteq Waiting \cup {x}
<1>1. /\ xord \in Seq(OrderI) /\ Len(xord) \in Nat
      /\ \A x \in 1..Len(xord) : xord[x].kind = "market" => xord[x].cid \in 1..Len(rows)
      /\ \A r \in 1..Len(rows) : rows[r].status \in {"new", "open"} \cup Final
  <2>1. ASSUME NEW r \in 1..Len(rows) PROVE rows[r].status \in {"new", "open"} \cup Final
    <3>1. rows[r] \in RowI
      BY <2>1, Tables
    <3>2. rows[r].status \in Statuses /\ rows[r].status # "transit"
      BY <2>1, <3>1 DEF RowI, StoryBefore, CoverBefore, StopsBefore, LotsBefore, Accounted, RowsCounted
    <3>3. QED
      BY <3>2 DEF Statuses, RowStatuses, Final
  <2>2. \A x \in 1..Len(xord) : xord[x].kind = "market" => xord[x].cid \in 1..Len(rows)
    BY DEF StoryBefore, CoverBefore, StopsBefore, LotsBefore, IInv, BookIn, OrderIn, OneLot, SingleLots
  <2>3. QED
    BY <2>1, <2>2, Tables
<1>2. CASE UNCHANGED xord
  <2>1. ASSUME NEW x \in Waiting' PROVE x \in Waiting
    <3>1. /\ x \in 1..Len(xord) /\ xord[x].kind = "market" /\ xord[x].side = "buy" /\ xord[x].status = "closed"
          /\ rows'[xord[x].cid].status \in {"new", "open"}
      BY <1>2 DEF Waiting
    <3>2. xord[x].cid \in 1..Len(rows) /\ rows[xord[x].cid].kind = "market"
      <4>1. xord[x].cid \in 1..Len(rows) /\ xord[x].cid \notin {0, Unnamed}
        BY <1>1, <3>1
      <4>2. QED
        BY <3>1, <4>1 DEF StoryBefore, CoverBefore, StopsBefore, LotsBefore, IInv, BookIn, OrderIn
    <3>3. rows[xord[x].cid].status \notin Final
      BY <3>1, <3>2, FinalKept DEF Final
    <3>4. QED
      BY <1>1, <3>1, <3>2, <3>3 DEF Waiting
  <2>2. QED
    BY <2>1
<1>3. ASSUME UNCHANGED rows, NEW n, hold = 0 /\ hold' = 1,
             \A y \in 1..Len(xord') : y # n => y \in 1..Len(xord) /\ xord'[y] = xord[y]
      PROVE  \E x : Waiting' \subseteq Waiting \cup {x}
  <2>1. Waiting' \subseteq Waiting \cup {n}
    BY <1>3 DEF Waiting
  <2>2. QED
    BY <2>1
<1>4. ASSUME UNCHANGED rows, NEW n,
             \A y \in 1..Len(xord') : y # n => y \in 1..Len(xord) /\ xord'[y] = xord[y],
             ~(xord'[n].kind = "market" /\ xord'[n].side = "buy" /\ xord'[n].status = "closed")
      PROVE  Waiting' \subseteq Waiting
  BY <1>4 DEF Waiting
<1>5. ASSUME UNCHANGED rows, NEW side, NEW status, OrderSent(side, status)
      PROVE  \/ Waiting' \subseteq Waiting
             \/ hold = 0 /\ hold' = 1 /\ \E x : Waiting' \subseteq Waiting \cup {x}
  <2>1. Placed(xord, xord', w.row, side, "market", 1, status)
    BY <1>5 DEF OrderSent
  <2>2. /\ \A y \in 1..Len(xord') : y # Len(xord) + 1 => y \in 1..Len(xord) /\ xord'[y] = xord[y]
        /\ xord'[Len(xord) + 1].side = side /\ xord'[Len(xord) + 1].status = status
    BY <1>1, <2>1 DEF Placed
  <2>3. side = "buy" /\ status = "closed" => hold = 0 /\ hold' = 1
    BY <1>5 DEF OrderSent
  <2>4. QED
    BY <1>3, <1>4, <1>5, <2>2, <2>3
<1>6. CASE UNCHANGED rows /\ OrderArmed
  <2>1. /\ \A y \in 1..Len(xord') : y # Len(xord) + 1 => y \in 1..Len(xord) /\ xord'[y] = xord[y]
        /\ xord'[Len(xord) + 1].kind = "stop"
    BY <1>1, <1>6 DEF OrderArmed, Placed
  <2>2. QED
    BY <1>4, <1>6, <2>1
<1>7. ASSUME UNCHANGED rows, NEW x \in 1..Len(xord), NEW status, OrderEnded(x, status)
      PROVE  \/ Waiting' \subseteq Waiting
             \/ hold = 0 /\ hold' = 1 /\ \E y : Waiting' \subseteq Waiting \cup {y}
  <2>1. Turned(xord, xord', x, status)
    BY <1>7 DEF OrderEnded
  <2>2. /\ \A y \in 1..Len(xord') : y # x => y \in 1..Len(xord) /\ xord'[y] = xord[y]
        /\ xord'[x].kind = xord[x].kind /\ xord'[x].side = xord[x].side /\ xord'[x].status = status
    BY <2>1 DEF Turned
  <2>3. xord[x].kind = "market" /\ xord[x].side = "buy" /\ status = "closed" => hold = 0 /\ hold' = 1
    BY <1>7 DEF OrderEnded
  <2>4. QED
    BY <1>3, <1>4, <1>7, <2>2, <2>3
<1>8. MarketMoved
  BY MarketMoves DEF StoryBefore, CoverBefore, StopsBefore, LotsBefore
<1>9. QED
  BY <1>2, <1>5, <1>6, <1>7, <1>8 DEF MarketMoved

(* Who claims a filled buy, by its answer or by its row, ends its waiting.  *)
LEMMA ClaimMoves ==
    ASSUME StoryBefore, [SyncNext]_vars
    PROVE  /\ w'.pc = "create" /\ w.pc # "create" => \E x \in Waiting : x \notin Waiting'
           /\ so'.pc = "create" /\ so.pc # "create" => \E x \in Waiting : x \notin Waiting'
<1>1. /\ xord \in Seq(OrderI) /\ Len(xord) \in Nat /\ rows \in Seq(RowI) /\ w \in WorkerI /\ so \in OrdersI
      /\ Len(rows) \in Nat /\ DOMAIN rows = 1..Len(rows)
  BY Tables
<1>2. ASSUME w'.pc = "create", w.pc # "create" PROVE \E x \in Waiting : x \notin Waiting'
  <2>1. ByWorker /\ ConfirmOrder
    <3>1. w' = Idle => w'.pc # "create"
      BY DEF Idle
    <3>2. ByWorker
      BY <1>2, <3>1, Drivers
    <3>3. Arrival
      BY <3>2, Arrivals DEF ByWorker, StoryBefore, CoverBefore, StopsBefore, LotsBefore
    <3>4. QED
      BY <1>2, <3>2, <3>3 DEF Arrival
  <2>2. w.pc = "confirm" /\ w.resp = "closed" /\ w.h = "buy"
    <3>1. \A s : Out(s) => w'.pc # "create"
      BY DEF Out
    <3>2. On("close") => w'.pc # "create"
      BY DEF On
    <3>3. QED
      BY <1>2, <2>1, <3>1, <3>2, OrdersTurn DEF OrderTurns
  <2>3. /\ w.row \in 1..Len(rows) /\ rows[w.row].status = "new" /\ rows[w.row].xid = 0
        /\ w.x \in 1..Len(xord) /\ xord[w.x].cid = w.row /\ xord[w.x].status = "closed" /\ rows[w.row].side = "buy"
    BY <2>2 DEF StoryBefore, Story, Settling, CoverBefore, StopsBefore, LotsBefore, IInv, WorkerIn
  <2>4. w.row # 0 /\ xord[w.x].kind = "market" /\ xord[w.x].side = "buy"
    BY <2>3 DEF StoryBefore, CoverBefore, StopsBefore, LotsBefore, IInv, BookIn, OrderIn
  <2>5. w.x \in Waiting
    BY <2>3, <2>4 DEF Waiting
  <2>6. UNCHANGED xord /\ rows' = Linked(rows, w.row, w.x, w.resp)
    <3>1. \A s : Return(s) => w'.pc # "create"
      BY Left
    <3>2. QED
      BY <1>2, <2>1, <3>1 DEF ConfirmOrder, exchange
  <2>7. rows'[w.row].status = "closed"
    <3>1. rows[w.row] \in RowI
      BY <1>1, <2>3
    <3>2. QED
      BY <1>1, <2>2, <2>3, <2>6, <3>1 DEF Linked, RowI
  <2>8. w.x \notin Waiting'
    BY <2>3, <2>6, <2>7 DEF Waiting
  <2>9. QED
    BY <2>5, <2>8
<1>3. ASSUME so'.pc = "create", so.pc # "create" PROVE \E x \in Waiting : x \notin Waiting'
  <2>1. OrdersFetch
    <3>1. \A t : OrdersNext(t) => so'.pc # "create"
      BY DEF OrdersNext, OrdersIdle
    <3>2. OrdersStart => so'.pc = "fetch"
      BY DEF OrdersStart, OrdersIdle
    <3>3. OrdersCreate \/ OrdersBalance \/ OrdersQuantity => so'.pc # "create"
      <4>1. so' = [so EXCEPT !.pc = "balance"] => so'.pc = "balance"
        BY <1>1 DEF OrdersI
      <4>2. so' = [so EXCEPT !.pc = "quantity", !.bal = hold] => so'.pc = "quantity"
        BY <1>1 DEF OrdersI
      <4>3. QED
        BY <3>1, <4>1, <4>2 DEF OrdersCreate, OrdersBalance, OrdersQuantity
    <3>4. SyncOrders \/ so' = so
      BY CalmMovers DEF ByWorker, tasks, vars
    <3>5. QED
      BY <1>3, <3>2, <3>3, <3>4 DEF SyncOrders
  <2> DEFINE r == Max(so.todo)
             x == rows[r].xid
  <2>2. so.todo # {} /\ so.todo \subseteq 1..Len(rows)
    BY <2>1 DEF OrdersFetch, StoryBefore, CoverBefore, StopsBefore, LotsBefore, IInv, OrdersIn
  <2>3. r \in so.todo /\ r \in 1..Len(rows)
    BY <1>1, <2>2, MaxPlace
  <2> HIDE DEF r
  <2>4. rows[r].xid # 0 /\ rows[r].kind = "market" /\ rows[r].status \in {"new", "open"}
    BY <2>3 DEF StoryBefore, Story, Settling, CoverBefore, StopsBefore, LotsBefore, IInv, OrdersIn
  <2>5. x \in 1..Len(xord) /\ xord[x].cid = r /\ xord[x].kind = "market"
    BY <2>3, <2>4, RowOrders
  <2>6. UNCHANGED xord /\ rows' = Upserted(rows, x, xord[x], xord[x].status) /\ xord[x].side = "buy" /\ xord[x].status = "closed"
    <3>1. \A t : OrdersNext(t) => so'.pc # "create"
      BY DEF OrdersNext, OrdersIdle
    <3>2. QED
      BY <1>3, <2>1, <3>1 DEF OrdersFetch, exchange, r
  <2>7. x \in Waiting
    BY <2>4, <2>5, <2>6 DEF Waiting
  <2>8. rows'[r].status = "closed"
    <3>1. Recorded(rows, x) /\ rows[r] \in RowI
      BY <1>1, <2>3 DEF Recorded
    <3>2. rows'[r] = [rows[r] EXCEPT !.status = xord[x].status]
      BY <1>1, <2>3, <2>6, <3>1 DEF Upserted
    <3>3. QED
      BY <2>6, <3>1, <3>2 DEF RowI
  <2>9. x \notin Waiting'
    BY <2>5, <2>6, <2>8 DEF Waiting
  <2>10. QED
    BY <2>7, <2>9
<1>4. QED
  BY <1>2, <1>3
----------------------------------------------------------------------------
(* Somebody has a filled buy to make a position of. *)
Claimed == Waiting # {} \/ w.pc = "create" \/ so.pc = "create"

(* Then the lot is held, no position is stored, and nobody sells the lot.   *)
LEMMA ClaimHeld ==
    ASSUME StoryBefore, [SyncNext]_vars, Claimed
    PROVE  /\ hold = 1 /\ pos.st = "none" /\ strat = "PENDING_BUY" /\ Sells = {} /\ Stops = {}
           /\ hold' = 1
<1>1. hold = 1 /\ pos.st = "none" /\ Sells = {} /\ Stops = {} /\ strat = "PENDING_BUY"
  <2>1. hold = 1
    BY DEF Claimed, StoryBefore, Story, Claiming
  <2>2. pos.st = "none"
    <3>1. pos.st \in {"none", "ghost", "known"}
      BY Tables DEF PositionI
    <3>2. QED
      BY <3>1 DEF Claimed, StoryBefore, Story, Telling
  <2>3. QED
    BY <2>1, <2>2 DEF StoryBefore, Story, Telling, Flat
<1>2. hold' \in {0, 1}
  BY OrderLotsKept DEF StoryBefore, CoverBefore, StopsBefore
<1>3. ~(ByWorker /\ SendOrder /\ w.h = "sell")
  <2>1. SendOrder /\ w.h = "sell" => strat = "PENDING_SELL"
    BY DEF SendOrder, StoryBefore, Story, Steering, OffDuty, AfterSignal
  <2>2. QED
    BY <1>1, <2>1
<1>4. QED
  BY <1>1, <1>2, <1>3, LotMovers

(* The worker and SyncOrders do not make two positions of a buy.            *)
LEMMA ClaimingKept == ASSUME StoryBefore, [SyncNext]_vars PROVE Claiming'
<1>1. /\ \A x, y \in Waiting : x = y
      /\ Waiting # {} => w.pc # "create" /\ so.pc # "create"
      /\ ~(w.pc = "create" /\ so.pc = "create")
      /\ Claimed => hold = 1
  BY DEF StoryBefore, Story, Claiming, Claimed
<1>2. UNCHANGED w \/ UNCHANGED so
  BY CalmMovers
<1>3. /\ w'.pc = "create" /\ w.pc # "create" => \E x \in Waiting : x \notin Waiting'
      /\ so'.pc = "create" /\ so.pc # "create" => \E x \in Waiting : x \notin Waiting'
  BY ClaimMoves
<1>4. CASE Waiting' \subseteq Waiting
  <2>1. \A x, y \in Waiting' : x = y
    BY <1>1, <1>4
  <2>2. w'.pc = "create" => Waiting' = {}
    BY <1>1, <1>3, <1>4
  <2>3. so'.pc = "create" => Waiting' = {}
    BY <1>1, <1>3, <1>4
  <2>4. ~(w'.pc = "create" /\ so'.pc = "create")
    BY <1>1, <1>2, <1>3
  <2>5. Waiting' # {} \/ w'.pc = "create" \/ so'.pc = "create" => Claimed
    BY <1>3, <1>4 DEF Claimed
  <2>6. Claimed => hold' = 1
    BY ClaimHeld
  <2>7. QED
    BY <2>1, <2>2, <2>3, <2>4, <2>5, <2>6 DEF Claiming
<1>5. ASSUME hold = 0, hold' = 1, NEW x, Waiting' \subseteq Waiting \cup {x} PROVE Claiming'
  <2>1. Waiting = {} /\ w.pc # "create" /\ so.pc # "create"
    BY <1>1, <1>5 DEF Claimed
  <2>2. w'.pc # "create" /\ so'.pc # "create"
    BY <1>3, <2>1
  <2>3. \A y, z \in Waiting' : y = z
    BY <1>5, <2>1
  <2>4. QED
    BY <1>5, <2>2, <2>3 DEF Claiming
<1>6. QED
  BY <1>4, <1>5, WaitingMoves
----------------------------------------------------------------------------
(* What happens to the position: one is made of the buy that waited, it is  *)
(* updated, or the worker removes it when the lot is gone.                  *)
LEMMA PositionTurns ==
    ASSUME StoryBefore, [SyncNext]_vars
    PROVE  \/ UNCHANGED pos
           \/ /\ UNCHANGED <<xord, hold>>
              /\ \/ pos'.st = "known" /\ pos.st = "none" /\ Claimed /\ Waiting' = {}
                    /\ w'.pc # "create" /\ so'.pc # "create"
                 \/ pos'.st = "known" /\ pos.st = "known"
                 \/ pos' = NoPosition /\ ByWorker /\ (ClosePosition \/ DropPosition)
<1>1. /\ pos.st \in {"none", "ghost", "known"} /\ pos.st # "ghost" /\ so \in OrdersI
  BY Tables DEF PositionI, StoryBefore, Story, Telling
<1>2. UNCHANGED pos \/ (UNCHANGED <<rows, xord, hold, pair, term>> /\ PositionStored)
  BY PositionWrites DEF StoryBefore, CoverBefore, StopsBefore, LotsBefore
<1>3. ~PositionsDelete /\ ~PositionsAdjust /\ ~PositionsAdopt
  BY DEF PositionsDelete, PositionsAdjust, PositionsAdopt, StoryBefore, Story, Steering
<1>4. \A u : UpdateAllowed(pos, u) => pos.st = "known"
  BY <1>1 DEF UpdateAllowed
<1>5. \A u : u.st # "ghost" => UpdatedPosition(pos, u).st = "known"
  BY DEF UpdatedPosition
<1>6. \A q : QuantityOnly(q).st # "ghost"
  BY DEF QuantityOnly
<1>7. RaisePosition => w.pos.st # "ghost"
  BY DEF RaisePosition, StoryBefore, CoverBefore, StopsBefore, LotsBefore, OneLot, Placement
<1>8. \A r, q : r # 0 => CreatedPosition(r, q).st = "known"
  BY DEF CreatedPosition
<1>9. \A r : CreateAllowed(pos, r) => pos.st = "none"
  BY <1>1 DEF CreateAllowed
<1>10. Waiting' = Waiting \/ ~UNCHANGED <<rows, xord>>
  BY DEF Waiting
<1>11. ASSUME ByWorker, CreatePosition, CreateAllowed(pos, w.row), UNCHANGED <<rows, xord, hold>>,
              pos' = CreatedPosition(w.row, rows[w.row].qty), w'.pc = "settle"
       PROVE  /\ pos'.st = "known" /\ pos.st = "none" /\ Claimed /\ Waiting' = {}
              /\ w'.pc # "create" /\ so'.pc # "create"
  <2>1. w.pc = "create" /\ w.row # 0 /\ so' = so
    BY <1>11 DEF CreatePosition, ByWorker, tasks, StoryBefore, CoverBefore, StopsBefore, LotsBefore, IInv, WorkerIn,
       BackedIn
  <2>2. Waiting = {} /\ so.pc # "create"
    BY <2>1 DEF StoryBefore, Story, Claiming
  <2>3. QED
    BY <1>8, <1>9, <1>10, <1>11, <2>1, <2>2 DEF Claimed
<1>12. ASSUME OrdersCreate, CreateAllowed(pos, so.row), UNCHANGED <<w, rows, xord, hold>>,
              pos' = CreatedPosition(so.row, rows[so.row].qty), so'.pc = "balance"
       PROVE  /\ pos'.st = "known" /\ pos.st = "none" /\ Claimed /\ Waiting' = {}
              /\ w'.pc # "create" /\ so'.pc # "create"
  <2>1. so.pc = "create" /\ so.row # 0
    BY <1>12 DEF OrdersCreate, StoryBefore, CoverBefore, StopsBefore, LotsBefore, IInv, OrdersIn, BackedIn
  <2>2. Waiting = {} /\ w.pc # "create"
    BY <2>1 DEF StoryBefore, Story, Claiming
  <2>3. QED
    BY <1>8, <1>9, <1>10, <1>12, <2>1, <2>2 DEF Claimed
<1>13. ss.pos.st = "known" => RearmedCopy.st # "ghost"
  BY DEF RearmedCopy, StoryBefore, CoverBefore, StopsBefore, LotsBefore, IInv, StopsIn, PositionIn, PositionI
<1>14. QED
  BY <1>2, <1>3, <1>4, <1>5, <1>6, <1>7, <1>11, <1>12, <1>13 DEF PositionStored
----------------------------------------------------------------------------
(* The strategy goes idle without a position, ... *)
Dropping  == strat' = "IDLE" /\ pos.st = "none" /\ Flat /\ Sells = {}
(* ... and is in position with one that nobody sells. *)
Resuming == strat' = "IN_POSITION" /\ pos.st = "known" /\ Sells = {}

(* An error takes the signal back only while nothing has come of it. *)
LEMMA TakenBackTo ==
    ASSUME StoryBefore, w.pc \in {"lookup", "balance", "stops", "cancel", "canceled"}, TakenBack
    PROVE  strat' = strat \/ Dropping \/ Resuming
<1>1. w.pc \in {"stops", "cancel", "canceled"} => w.h # "buy"
  BY DEF StoryBefore, CoverBefore, StopsBefore, LotsBefore, OneLot, Placement
<1>2. CASE w.h = "buy"
  <2>1. w.pc \in {"lookup", "balance"}
    BY <1>1, <1>2
  <2>2. strat = "PENDING_BUY"
    BY <1>2, <2>1 DEF StoryBefore, Story, Steering, OffDuty, AfterSignal
  <2>3. pos.st = "none" /\ Flat
    BY <1>2, <2>1 DEF StoryBefore, Story, Knowing, Asking
  <2>4. Sells = {}
    BY <2>3 DEF StoryBefore, Story, Telling
  <2>5. strat' = "IDLE"
    BY <1>2, <2>2 DEF TakenBack, Out, Retry
  <2>6. QED
    BY <2>3, <2>4, <2>5 DEF Dropping
<1>3. CASE w.h = "sell"
  <2>1. strat = "PENDING_SELL"
    BY <1>3 DEF StoryBefore, Story, Steering, OffDuty, AfterSignal
  <2>2. pos.st = "known"
    BY <2>1 DEF StoryBefore, Story, Telling
  <2>3. Sells = {}
    BY <1>3 DEF StoryBefore, Story, Knowing, Asking
  <2>4. strat' = "IN_POSITION"
    BY <1>3, <2>1 DEF TakenBack, Out, Retry
  <2>5. QED
    BY <2>2, <2>3, <2>4 DEF Resuming
<1>4. CASE w.h \notin {"buy", "sell"}
  BY <1>4 DEF TakenBack, Out
<1>5. QED
  BY <1>2, <1>3, <1>4

(* How the strategy moves. *)
LEMMA StrategyMoves ==
    ASSUME StoryBefore, [SyncNext]_vars
    PROVE  \/ strat' = strat
           \/ ByWorker /\ ~SendOrder /\ ~ArmStop /\ ~CreatePosition
              /\ \/ Dropping
                 \/ Resuming
                 \/ strat' = "IDLE" /\ hold = 0 /\ Sells = {} /\ (ClosePosition \/ DropPosition)
                 \/ strat' = "PENDING_BUY" /\ strat = "IDLE"
                 \/ strat' = "PENDING_SELL" /\ strat = "IN_POSITION"
<1> DEFINE Change == \/ Dropping
                     \/ Resuming
                     \/ strat' = "IDLE" /\ hold = 0 /\ Sells = {} /\ (ClosePosition \/ DropPosition)
                     \/ strat' = "PENDING_BUY" /\ strat = "IDLE"
                     \/ strat' = "PENDING_SELL" /\ strat = "IN_POSITION"
<1>1. /\ strat \in StrategyState /\ pos.st \in {"none", "known"}
      /\ AskTurns /\ OrderTurns /\ StopTurns
      /\ w.pc \notin OffDuty => strat = AfterSignal(w.h)
  BY Tables, Asks, OrdersTurn, StopsTurn DEF PositionI, StoryBefore, Story, Telling, Steering
<1>2. Tick => strat' = strat \/ Change
  <2>1. \A h \in Signals(strat) : \/ AfterSignal(h) = strat
                                  \/ AfterSignal(h) = "PENDING_BUY" /\ strat = "IDLE"
                                  \/ AfterSignal(h) = "PENDING_SELL" /\ strat = "IN_POSITION"
    BY <1>1 DEF StrategyState, Signals, AfterSignal
  <2>2. QED
    BY <1>1, <2>1 DEF AskTurns
<1>3. CheckPending \/ GiveUp => strat' = strat
  BY <1>1 DEF AskTurns, On
<1>4. Lookup => strat' = strat \/ Change
  BY <1>1, TakenBackTo DEF AskTurns, On
<1>5. CheckPosition => strat' = strat \/ Change
  <2>1. ASSUME CheckPosition, pos.st = "none", w.h = "buy", Out(Retry(strat)) PROVE Dropping
    <3>1. w.pc = "position"
      BY <1>1, <2>1 DEF AskTurns
    <3>2. strat = "PENDING_BUY"
      BY <1>1, <2>1, <3>1 DEF OffDuty, AfterSignal
    <3>3. Flat /\ Sells = {}
      BY <2>1, <3>1 DEF StoryBefore, Story, Knowing, Telling, Asking
    <3>4. QED
      BY <2>1, <3>2, <3>3 DEF Dropping, Out, Retry
  <2>2. ASSUME CheckPosition, pos.st = "none" PROVE ~(w.h \in {"track", "sell", "waitsell"})
    <3>1. w.pc = "position"
      BY <1>1, <2>2 DEF AskTurns
    <3>2. w.h \in {"track", "sell", "waitsell"} => strat \in {"IN_POSITION", "PENDING_SELL"}
      BY <1>1, <3>1 DEF OffDuty, AfterSignal
    <3>3. QED
      BY <2>2, <3>2 DEF StoryBefore, Story, Telling
  <2>3. ASSUME CheckPosition, pos.st = "known", w.h \in {"search", "buy", "waitbuy"}, Out("IN_POSITION")
        PROVE  Resuming
    <3>1. w.pc = "position"
      BY <1>1, <2>3 DEF AskTurns
    <3>2. strat \in {"IDLE", "PENDING_BUY"}
      BY <1>1, <2>3, <3>1 DEF OffDuty, AfterSignal
    <3>3. Sells = {}
      BY <3>2 DEF StoryBefore, Story, Telling
    <3>4. QED
      BY <2>3, <3>3 DEF Resuming, Out
  <2>4. (On("orders") \/ On("stops") \/ On("raise") \/ Out(strat)) => strat' = strat
    BY DEF On, Out
  <2>5. QED
    BY <1>1, <2>1, <2>2, <2>3, <2>4 DEF AskTurns
<1>6. CheckOpenOrders => strat' = strat
  BY <1>1 DEF AskTurns, On, Out
<1>7. CheckBalance => strat' = strat \/ Change
  <2>1. ASSUME w.pc = "balance", Buying, hold = 0, Out(Retry(strat)) PROVE Dropping
    <3>1. strat = "PENDING_BUY"
      BY <1>1, <2>1 DEF OffDuty, AfterSignal, Buying
    <3>2. Buys = {}
      BY <2>1 DEF Buying, StoryBefore, Story, Knowing, Flat
    <3>3. pos.st = "none" /\ Sells = {}
      BY <1>1, <2>1, <3>1 DEF StoryBefore, Story, Telling
    <3>4. QED
      BY <2>1, <3>1, <3>2, <3>3 DEF Dropping, Flat, Out, Retry
  <2>2. QED
    BY <1>1, <2>1, TakenBackTo DEF AskTurns, On, Out
<1>8. PersistOrder \/ SendOrder \/ ConfirmOrder => strat' = strat
  BY <1>1 DEF OrderTurns, On, Out
<1>9. CreatePosition => strat' = strat
  BY <1>1 DEF OrderTurns, On, Out
<1>10. ASSUME w.pc \in {"settle", "quantity"}, Out("IN_POSITION") PROVE Resuming
  <2>1. strat = "PENDING_BUY" /\ pos.st = "known"
    BY <1>1, <1>10 DEF StoryBefore, Story, Steering, OffDuty, AfterSignal, Knowing
  <2>2. Sells = {}
    BY <2>1 DEF StoryBefore, Story, Telling
  <2>3. QED
    BY <1>10, <2>1, <2>2 DEF Resuming, Out
<1>11. SettleBalance \/ SettleQuantity => strat' = strat \/ Change
  BY <1>1, <1>10 DEF OrderTurns, On, Out
<1>12. ClosePosition \/ DropPosition => Change
  BY <1>1 DEF OrderTurns, Out, StoryBefore, Story, Steering, Knowing
<1>13. ListOpenOrders => strat' = strat \/ Change
  BY <1>1, TakenBackTo DEF StopTurns, On
<1>14. RecordOpenOrder \/ ArmStop \/ PersistStop \/ CheckTermination \/ ApplyDisable => strat' = strat
  BY <1>1 DEF StopTurns, On, Out
<1>15. ASSUME w.pc \in {"record", "canceled"}, w.h = "waitsell", Out(Retry(strat)) PROVE Resuming
  <2>1. strat = "PENDING_SELL" /\ Sells = {}
    BY <1>1, <1>15 DEF OffDuty, AfterSignal, StoryBefore, Story, Knowing
  <2>2. pos.st = "known"
    BY <2>1 DEF StoryBefore, Story, Telling
  <2>3. QED
    BY <1>15, <2>1, <2>2 DEF Resuming, Out, Retry
<1>16. DecideOnStop => strat' = strat \/ Change
  BY <1>1, <1>15 DEF StopTurns, On, Out
<1>17. RaisePosition => strat' = strat \/ Change
  <2>1. ASSUME w.pc = "raise", w.h = "waitbuy", Out("IN_POSITION") PROVE Resuming
    <3>1. strat = "PENDING_BUY" /\ pos.st = "known"
      BY <1>1, <2>1 DEF StoryBefore, Story, OffDuty, AfterSignal, Knowing
    <3>2. Sells = {}
      BY <3>1 DEF StoryBefore, Story, Telling
    <3>3. QED
      BY <2>1, <3>1, <3>2 DEF Resuming, Out
  <2>2. QED
    BY <1>1, <2>1 DEF StopTurns, Out
<1>18. CancelStop => strat' = strat \/ Change
  BY <1>1, TakenBackTo DEF StopTurns, On
<1>19. StoreCanceled => strat' = strat \/ Change
  BY <1>1, <1>15, TakenBackTo DEF StopTurns, On
<1>20. WorkerStep => strat' = strat \/ (~SendOrder /\ ~ArmStop /\ ~CreatePosition /\ Change)
  BY <1>2, <1>3, <1>4, <1>5, <1>6, <1>7, <1>8, <1>9, <1>11, <1>12, <1>13, <1>14, <1>16, <1>17, <1>18, <1>19
     DEF WorkerStep
<1>21. w.pc = "stopped" => strat = "IDLE"
  BY DEF StoryBefore, Story, Steering
<1>22. QED
  BY <1>20, <1>21, Drivers DEF ByWorker
(* On which signals the worker acts on the lot. *)
LEMMA Acts ==
    ASSUME StoryBefore
    PROVE  /\ SendOrder /\ w.h = "buy" => strat = "PENDING_BUY" /\ pos.st = "none" /\ Flat
           /\ SendOrder /\ w.h = "sell" => strat = "PENDING_SELL"
           /\ ArmStop => strat = "IN_POSITION"
           /\ ClosePosition \/ DropPosition =>
                 /\ strat = "PENDING_SELL" /\ strat' = "IDLE" /\ pos' = NoPosition
                 /\ Flat /\ Sells = {} /\ Stops = {}
<1>1. /\ OrderTurns /\ (w.pc \notin OffDuty => strat = AfterSignal(w.h))
      /\ w.pc = "close" => w.h = "sell"
      /\ w.pc = "delete" => w.h \in {"sell", "waitsell"}
  BY OrdersTurn DEF StoryBefore, Story, Steering
<1>2. SendOrder /\ w.h = "buy" => strat = "PENDING_BUY" /\ pos.st = "none" /\ Flat
  BY <1>1 DEF SendOrder, OffDuty, AfterSignal, StoryBefore, Story, Knowing
<1>3. SendOrder /\ w.h = "sell" => strat = "PENDING_SELL"
  BY <1>1 DEF SendOrder, OffDuty, AfterSignal
<1>4. ArmStop => strat = "IN_POSITION"
  BY <1>1 DEF ArmStop, OffDuty, AfterSignal, StoryBefore, CoverBefore, StopsBefore, LotsBefore, OneLot, Placement
<1>5. ASSUME w.pc \in {"close", "delete"} PROVE strat = "PENDING_SELL" /\ Flat /\ Sells = {} /\ Stops = {}
  <2>1. strat = "PENDING_SELL"
    BY <1>1, <1>5 DEF OffDuty, AfterSignal
  <2>2. hold = 0 /\ Sells = {}
    BY <1>1, <1>5 DEF StoryBefore, Story, Knowing
  <2>3. pos.st = "known" /\ Buys = {}
    BY <2>1 DEF StoryBefore, Story, Telling
  <2>4. Stops = {}
    BY <2>2 DEF StoryBefore, CoverBefore, Covered
  <2>5. QED
    BY <2>1, <2>2, <2>3, <2>4 DEF Flat
<1>6. ClosePosition \/ DropPosition => w.pc \in {"close", "delete"} /\ strat' = "IDLE" /\ pos' = NoPosition
  BY <1>1 DEF OrderTurns, Out
<1>7. QED
  BY <1>2, <1>3, <1>4, <1>5, <1>6

(* The strategy and the position go on telling the truth of the lot.        *)
LEMMA TellingKept == ASSUME StoryBefore, [SyncNext]_vars PROVE Telling'
<1>1. /\ pos.st \in {"none", "known"}
      /\ pos.st = "none" => Sells = {} /\ Stops = {} /\ (Flat \/ strat = "PENDING_BUY")
      /\ pos.st = "known" => Buys = {} /\ Waiting = {} /\ w.pc # "create" /\ so.pc # "create"
      /\ strat = "IDLE" => pos.st = "none" /\ Flat
      /\ strat = "PENDING_BUY" => Stops = {} /\ (pos.st = "known" => hold = 1)
      /\ strat \in {"IN_POSITION", "PENDING_SELL"} => pos.st = "known"
      /\ Sells # {} => strat = "PENDING_SELL"
  BY Tables DEF PositionI, StoryBefore, Story, Telling
<1>2. strat \in StrategyState /\ hold \in {0, 1} /\ hold' \in {0, 1} /\ (Buys # {} => hold = 0)
  BY Tables, OrderLotsKept DEF StoryBefore, CoverBefore, StopsBefore, LotsBefore, OneLot, SingleBuy
<1> DEFINE buying  == ByWorker /\ SendOrder /\ w.h = "buy"
           selling == ByWorker /\ SendOrder /\ w.h = "sell"
           closing == ByWorker /\ (ClosePosition \/ DropPosition)
           arming  == ByWorker /\ ArmStop
<1>3. /\ UNCHANGED <<xord, hold>> \/ UNCHANGED <<rows, pos, wallet, pair>>
      /\ Buys = {} /\ (Buys' # {} \/ (hold = 0 /\ hold' = 1)) => buying
      /\ Sells = {} /\ Sells' # {} => selling
      /\ hold = 1 /\ hold' = 0 => Stops # {} \/ Sells # {} \/ selling
      /\ Stops = {} /\ Stops' # {} => arming
      /\ Flat /\ ~Flat' => buying
  BY <1>2, LotMovers DEF Flat
<1>4. /\ buying => strat = "PENDING_BUY" /\ pos.st = "none" /\ Flat
      /\ selling => strat = "PENDING_SELL"
      /\ arming => strat = "IN_POSITION"
      /\ closing => /\ strat = "PENDING_SELL" /\ strat' = "IDLE" /\ pos' = NoPosition
                    /\ Flat /\ Sells = {} /\ Stops = {}
  BY Acts
<1>5. \/ strat' = strat
      \/ /\ ~buying /\ ~selling /\ ~arming
         /\ \/ Dropping
            \/ Resuming
            \/ closing
            \/ strat' = "PENDING_BUY" /\ strat = "IDLE"
            \/ strat' = "PENDING_SELL" /\ strat = "IN_POSITION"
  BY StrategyMoves
<1>6. \/ UNCHANGED pos
      \/ /\ UNCHANGED <<xord, hold>>
         /\ \/ pos'.st = "known" /\ pos.st = "none" /\ Claimed /\ Waiting' = {}
               /\ w'.pc # "create" /\ so'.pc # "create"
            \/ pos'.st = "known" /\ pos.st = "known"
            \/ pos' = NoPosition /\ closing
  BY PositionTurns
<1>7. Claimed => hold = 1 /\ pos.st = "none" /\ strat = "PENDING_BUY" /\ hold' = 1
  BY ClaimHeld
<1>8. UNCHANGED <<xord, hold>> => Buys' = Buys /\ Sells' = Sells /\ Stops' = Stops
  BY DEF Buys, Sells, Stops
<1>9. NoPosition.st = "none"
  BY DEF NoPosition
<1> HIDE DEF buying, selling, closing, arming
<1>10. pos'.st # "ghost"
  BY <1>1, <1>6, <1>9
<1>11. ASSUME pos'.st = "none" PROVE Sells' = {} /\ Stops' = {} /\ (Flat' \/ strat' = "PENDING_BUY")
  <2>1. CASE closing
    <3>1. ~buying
      BY <1>4, <2>1
    <3>2. Flat'
      BY <1>3, <1>4, <2>1, <3>1
    <3>3. UNCHANGED <<xord, hold>>
      BY <1>1, <1>4, <1>6, <1>9, <2>1
    <3>4. QED
      BY <1>4, <1>8, <2>1, <3>2, <3>3
  <2>2. CASE ~closing
    <3>1. pos.st = "none"
      BY <1>6, <1>11, <2>2
    <3>2. Sells' = {} /\ Stops' = {}
      BY <1>1, <1>3, <1>4, <3>1
    <3>3. Flat' \/ strat' = "PENDING_BUY"
      BY <1>1, <1>3, <1>4, <1>5, <2>2, <3>1 DEF Dropping, Resuming
    <3>4. QED
      BY <3>2, <3>3
  <2>3. QED
    BY <2>1, <2>2
<1>12. ASSUME pos'.st = "known" PROVE Buys' = {} /\ Waiting' = {} /\ w'.pc # "create" /\ so'.pc # "create"
  <2>1. CASE pos.st = "none"
    BY <1>2, <1>6, <1>7, <1>8, <1>9, <1>12, <2>1
  <2>2. CASE pos.st = "known"
    <3>1. Buys' = {} /\ ~(hold = 0 /\ hold' = 1)
      BY <1>1, <1>3, <1>4, <2>2
    <3>2. Waiting' = {}
      BY <1>1, <2>2, <3>1, WaitingMoves
    <3>3. w'.pc # "create" /\ so'.pc # "create"
      BY <1>1, <2>2, ClaimMoves
    <3>4. QED
      BY <3>1, <3>2, <3>3
  <2>3. QED
    BY <1>1, <2>1, <2>2
<1>13. ASSUME strat' = "IDLE" PROVE pos'.st = "none" /\ Flat'
  <2>1. CASE closing
    BY <1>3, <1>4, <1>9, <2>1
  <2>2. CASE ~closing
    <3>1. Flat /\ pos.st = "none" /\ ~buying
      BY <1>1, <1>4, <1>5, <1>13, <2>2 DEF Dropping, Resuming
    <3>2. hold = 0
      BY <3>1 DEF Flat
    <3>3. Flat'
      BY <1>3, <3>1
    <3>4. pos'.st = "none"
      BY <1>6, <1>7, <1>9, <3>1, <3>2
    <3>5. QED
      BY <3>3, <3>4
  <2>3. QED
    BY <2>1, <2>2
<1>14. ASSUME strat' = "PENDING_BUY" PROVE Stops' = {} /\ (pos'.st = "known" => hold' = 1)
  <2>1. CASE strat = "PENDING_BUY"
    <3>1. Stops = {} /\ Sells = {} /\ ~selling /\ ~arming /\ Stops' = {}
      BY <1>1, <1>3, <1>4, <2>1
    <3>2. pos.st = "known" => hold' = 1
      BY <1>1, <1>2, <1>3, <2>1, <3>1
    <3>3. pos.st = "none" /\ pos'.st = "known" => hold' = 1
      BY <1>6, <1>7, <1>9
    <3>4. QED
      BY <1>1, <3>1, <3>2, <3>3
  <2>2. CASE strat # "PENDING_BUY"
    <3>1. strat = "IDLE"
      BY <1>5, <1>14, <1>4, <2>2 DEF Dropping, Resuming
    <3>2. pos'.st # "known"
      BY <1>1, <1>6, <1>7, <1>9, <3>1
    <3>3. QED
      BY <1>1, <1>3, <1>4, <3>1, <3>2
  <2>3. QED
    BY <2>1, <2>2
<1>15. ASSUME strat' \in {"IN_POSITION", "PENDING_SELL"} PROVE pos'.st = "known"
  <2>1. pos.st = "known" /\ ~closing
    BY <1>1, <1>4, <1>5, <1>15 DEF Dropping, Resuming
  <2>2. QED
    BY <1>6, <2>1
<1>16. ASSUME Sells' # {} PROVE strat' = "PENDING_SELL"
  <2>1. strat = "PENDING_SELL"
    BY <1>1, <1>3, <1>4, <1>16
  <2>2. selling \/ Sells # {}
    BY <1>3, <1>16
  <2>3. QED
    BY <1>4, <1>5, <2>1, <2>2 DEF Dropping, Resuming
<1>17. QED
  BY <1>10, <1>11, <1>12, <1>13, <1>14, <1>15, <1>16 DEF Telling
----------------------------------------------------------------------------
(* The places of a buy before its order is sent, of a sell once the rows    *)
(* are known to be settled, and of the stop order in between.               *)
Before    == Asking \cup {"balance", "persist", "send"}
Unwinding == {"stops", "record", "cancel", "canceled"}
Cleared   == Unwinding \cup {"balance", "persist", "send", "delete", "close"}

(* From where, and knowing what, the worker comes to the places of Knowing. *)
Comes ==
    /\ w'.h = "buy" /\ w'.pc \in Before =>
          w.pc # "send" /\ (strat = "IDLE" \/ (w.h = "buy" /\ w.pc \in Before))
    /\ w'.h = "waitbuy" /\ w'.pc = "balance" =>
          w.pc = "orders" /\ Select(rows, {"new", "open"}, {"market"}, {"buy"}) = {}
    /\ w'.h = "sell" /\ w'.pc \in Asking =>
          w.pc # "send" /\ (strat = "IN_POSITION" \/ (w.h = "sell" /\ w.pc \in Asking))
    /\ w'.h \in {"sell", "waitsell"} /\ w'.pc \in Cleared =>
          /\ w.pc # "send"
          /\ \/ w.pc = "orders" /\ Select(rows, {"new", "open"}, {"market"}, {"sell"}) = {}
             \/ w.h \in {"sell", "waitsell"} /\ w.pc \in Cleared
             \/ w.pc = "confirm" /\ w.h = "sell" /\ w.resp = "closed"
    /\ w'.h \in {"sell", "waitsell"} /\ w'.pc \in Unwinding /\ w'.bal = 0 =>
          \/ w.pc = "balance" /\ hold = 0
          \/ w.h \in {"sell", "waitsell"} /\ w.pc \in Unwinding /\ w.bal = 0
    /\ w'.pc = "delete" =>
          \/ w.pc = "balance" /\ hold = 0
          \/ w.h \in {"sell", "waitsell"} /\ w.pc \in Unwinding /\ w.bal = 0
    /\ w'.pc \in {"settle", "quantity", "raise"} =>
          /\ w.pc \notin {"close", "delete"}
          /\ pos.st = "known" \/ pos'.st = "known" \/ w.pc \in {"settle", "quantity", "raise"} \/ w.h = "track"
    /\ w'.pc = "close" => w.pc = "confirm" /\ w.h = "sell" /\ w.resp = "closed"
    /\ w'.pc = "confirm" => w.pc = "send" /\ w'.h = w.h

LEMMA ComesThere == ASSUME StoryBefore, ByWorker PROVE Comes
<1>1. /\ AskTurns /\ OrderTurns /\ StopTurns /\ WorkerStep
      /\ w.pc \in {"persist", "send", "confirm"} => w.h \in {"buy", "sell"}
      /\ w.pc \in {"create", "settle", "quantity"} => w.h = "buy"
      /\ w.pc = "close" => w.h = "sell"
      /\ w.pc = "raise" => w.h \in {"track", "waitbuy"}
      /\ w.pc \in {"orders", "balance"} => w.h \in {"buy", "waitbuy", "sell", "waitsell"}
  BY Asks, OrdersTurn, StopsTurn DEF ByWorker, StoryBefore, Story, Steering
<1>2. /\ w.pc \in {"stops", "record"} => w.h \in {"track", "sell", "waitsell"}
      /\ w.pc \in {"cancel", "canceled"} => w.h \in {"sell", "waitsell"}
      /\ w.pc \in {"arm", "stoprow"} => w.h = "track"
  BY DEF StoryBefore, CoverBefore, StopsBefore, LotsBefore, OneLot, Placement
<1>3. strat \in StrategyState
  BY Tables
<1>4. w'.pc \in {"tick", "retire", "apply", "stopped", "lookup", "position", "giveup"} /\ w'.h \notin {"buy", "sell"} => Comes
  BY DEF Comes, Before, Asking, Unwinding, Cleared
<1>5. \A s : Out(s) => Comes
  BY <1>4 DEF Out
<1>6. TakenBack => Comes
  BY <1>5 DEF TakenBack
<1>7. Tick => Comes
  <2>1. \A h \in Signals(strat) : (h = "buy" => strat = "IDLE") /\ (h = "sell" => strat = "IN_POSITION")
    BY <1>3 DEF Signals, StrategyState
  <2>2. Tick => /\ w.pc = "tick" /\ w'.pc \in {"retire", "position", "pending"}
                /\ (w'.h = "buy" => strat = "IDLE") /\ (w'.h = "sell" => strat = "IN_POSITION")
    BY <1>1, <2>1 DEF AskTurns
  <2>3. QED
    BY <2>2 DEF Comes, Before, Asking, Unwinding, Cleared
<1>8. CheckPending \/ Lookup \/ GiveUp => Comes
  BY <1>1, <1>6 DEF AskTurns, On, Comes, Before, Asking, Unwinding, Cleared
<1>9. CheckPosition => Comes
  <2>1. CheckPosition => \/ pos.st = "ghost"
                         \/ \E s : Out(s)
                         \/ w.h = "track" /\ On("stops")
                         \/ pos.st = "known" /\ On("raise")
                         \/ On("orders")
    BY <1>1 DEF AskTurns
  <2>2. CheckPosition => w.pc = "position" /\ pos.st # "ghost"
    BY <1>1 DEF AskTurns, StoryBefore, Story, Telling
  <2>3. QED
    BY <1>1, <1>5, <2>1, <2>2 DEF On, Comes, Before, Asking, Unwinding, Cleared
<1>10. CheckOpenOrders => Comes
  BY <1>1, <1>5 DEF AskTurns, On, Comes, Before, Asking, Unwinding, Cleared, Buying
<1>11. CheckBalance => Comes
  BY <1>1, <1>5, <1>6 DEF AskTurns, On, Comes, Before, Asking, Unwinding, Cleared, Selling
<1>12. PersistOrder \/ SendOrder \/ ConfirmOrder => Comes
  BY <1>1, <1>5 DEF OrderTurns, On, Comes, Before, Asking, Unwinding, Cleared
<1>13. CreatePosition \/ SettleBalance \/ SettleQuantity \/ ClosePosition \/ DropPosition => Comes
  BY <1>1, <1>5 DEF OrderTurns, On, Comes, Before, Asking, Unwinding, Cleared
<1>14. ListOpenOrders \/ RecordOpenOrder => Comes
  BY <1>1, <1>2, <1>6 DEF StopTurns, On, Comes, Before, Asking, Unwinding, Cleared
<1>15. DecideOnStop => Comes
  BY <1>1, <1>2, <1>5 DEF StopTurns, On, Comes, Before, Asking, Unwinding, Cleared, Selling
<1>16. ArmStop \/ PersistStop \/ RaisePosition => Comes
  BY <1>1, <1>2, <1>5 DEF StopTurns, On, Comes, Before, Asking, Unwinding, Cleared
<1>17. CancelStop \/ StoreCanceled => Comes
  BY <1>1, <1>2, <1>5, <1>6 DEF StopTurns, On, Comes, Before, Asking, Unwinding, Cleared
<1>18. CheckTermination \/ ApplyDisable => Comes
  <2>1. w.pc = "retire" => w.h = "none"
    BY DEF StoryBefore, Story, Steering, OffDuty
  <2>2. QED
    BY <1>1, <2>1 DEF StopTurns, Comes, Before, Asking, Unwinding, Cleared
<1>19. QED
  BY <1>1, <1>7, <1>8, <1>9, <1>10, <1>11, <1>12, <1>13, <1>14, <1>15, <1>16, <1>17, <1>18 DEF WorkerStep

(* No market order is open on a side without an open row of it. *)
LEMMA NoneOpen ==
    ASSUME StoryBefore, NEW side, Select(rows, {"new", "open"}, {"market"}, {side}) = {}
    PROVE  LiveIn(xord, side, "market") = {}
<1>1. ASSUME NEW x \in LiveIn(xord, side, "market") PROVE FALSE
  <2>1. x \in 1..Len(xord) /\ xord[x].kind = "market" /\ xord[x].status = "open" /\ xord[x].side = side /\ LotsBefore
    BY DEF LiveIn, StoryBefore, CoverBefore, StopsBefore
  <2>2. xord[x].cid \in Select(rows, {"new", "open"}, {"market"}, {side})
    BY <2>1, OpenMarket DEF Tracked, Select, LotsBefore, IInv, BookIn
  <2>3. QED
    BY <2>2
<1>2. QED
  BY <1>1

(* A sell that fills at once leaves nothing behind. *)
LEMMA SoldAtOnce ==
    ASSUME StoryBefore, [SyncNext]_vars, ByWorker, SendOrder, w'.pc = "confirm", w.h = "sell", w'.resp = "closed"
    PROVE  hold' = 0 /\ Sells' = Sells
<1>1. /\ w \in WorkerI /\ xord \in Seq(OrderI) /\ hold \in {0, 1} /\ hold' \in {0, 1} /\ Len(xord) \in Nat
      /\ rows[w.row].qty = 1 /\ rows[w.row].side # "buy"
  <2>1. w.pc = "send"
    BY DEF SendOrder
  <2>2. w.row \in 1..Len(rows)
    BY <2>1 DEF StoryBefore, CoverBefore, StopsBefore, LotsBefore, IInv, WorkerIn
  <2>3. QED
    BY <2>1, <2>2, Tables, OrderLotsKept DEF StoryBefore, CoverBefore, StopsBefore, LotsBefore, OneLot, SingleLots,
       SingleBuy
<1>2. \A s : Return(s) => w'.pc # "confirm"
  BY <1>1, Ways DEF Out
<1>3. AcceptMarket(rows[w.row].side, rows[w.row].qty, w.row, "closed")
  <2>1. ASSUME NEW status, w' = [w EXCEPT !.pc = "confirm", !.x = Len(xord) + 1, !.resp = status]
        PROVE  status = "closed"
    BY <1>1, <2>1 DEF WorkerI
  <2>2. QED
    BY <1>2, <2>1 DEF SendOrder
<1>4. hold' = hold - 1
  BY <1>1, <1>3 DEF AcceptMarket
<1>5. Sells' = Sells
  BY <1>1, <1>3 DEF AcceptMarket, Sells, LiveIn
<1>6. QED
  BY <1>1, <1>4, <1>5

(* What the handlers know stays true on their errands.                      *)
LEMMA KnowingKept == ASSUME StoryBefore, [SyncNext]_vars PROVE Knowing'
<1>1. /\ w.h = "buy" /\ w.pc \in Before => pos.st = "none" /\ Flat
      /\ w.h = "waitbuy" /\ w.pc = "balance" => Buys = {}
      /\ w.h = "sell" /\ w.pc \in Asking => Sells = {}
      /\ w.h \in {"sell", "waitsell"} /\ w.pc \in Cleared => Sells = {}
      /\ w.h \in {"sell", "waitsell"} /\ w.pc \in Unwinding /\ w.bal = 0 => hold = 0
      /\ w.pc = "delete" => hold = 0
      /\ w.pc \in {"settle", "quantity", "raise"} => pos.st = "known"
      /\ w.pc = "close" \/ (w.pc = "confirm" /\ w.h = "sell" /\ w.resp = "closed") => hold = 0 /\ Sells = {}
  BY DEF StoryBefore, Story, Knowing, Before, Cleared, Unwinding
<1>2. /\ strat = "IDLE" => pos.st = "none" /\ Flat
      /\ strat \in {"IN_POSITION", "PENDING_SELL"} => pos.st = "known"
      /\ strat = "IN_POSITION" => Sells = {}
      /\ pos.st = "known" => Buys = {}
  BY DEF StoryBefore, Story, Telling
<1>3. /\ hold \in {0, 1} /\ hold' \in {0, 1} /\ w \in WorkerI
  BY Tables, OrderLotsKept DEF StoryBefore, CoverBefore, StopsBefore
<1>4. /\ w.h = "track" => strat = "IN_POSITION"
      /\ w.h \in {"sell", "waitsell"} => strat = "PENDING_SELL"
  BY DEF StoryBefore, Story, Steering, OffDuty, AfterSignal
<1>5. \/ ByWorker /\ Comes
      \/ UNCHANGED w /\ ~ByWorker
      \/ w' = Idle /\ ~ByWorker
  BY Drivers, ComesThere
<1>6. Idle.pc = "tick" /\ Idle.h = "none"
  BY DEF Idle
<1>7. SendOrder => w.pc = "send"
  BY DEF SendOrder
<1>8. /\ Flat /\ ~(ByWorker /\ w.pc = "send") => Flat' /\ Buys' = {} /\ hold' = 0
      /\ Buys = {} /\ ~(ByWorker /\ w.pc = "send") => Buys' = {} /\ (hold = 0 => hold' = 0)
      /\ Sells = {} /\ ~(ByWorker /\ w.pc = "send") => Sells' = {}
  BY <1>3, <1>7, LotMovers DEF Flat
<1>9. Flat /\ pos.st = "none" => pos'.st = "none"
  <2>1. NoPosition.st = "none"
    BY DEF NoPosition
  <2>2. Flat => ~Claimed
    BY ClaimHeld DEF Flat
  <2>3. QED
    BY <2>1, <2>2, PositionTurns
<1>10. pos.st = "known" /\ ~(ByWorker /\ w.pc \in {"close", "delete"}) => pos'.st = "known"
  BY PositionTurns DEF ClosePosition, DropPosition
<1>11. w'.h = "buy" /\ w'.pc \in Before => pos'.st = "none" /\ Flat'
  <2>1. ASSUME w'.h = "buy", w'.pc \in Before PROVE pos.st = "none" /\ Flat /\ ~(ByWorker /\ w.pc = "send")
    <3>1. CASE ByWorker /\ Comes
      BY <1>1, <1>2, <2>1, <3>1 DEF Comes
    <3>2. CASE UNCHANGED w /\ ~ByWorker
      BY <1>1, <2>1, <3>2
    <3>3. CASE w' = Idle
      BY <1>6, <2>1, <3>3
    <3>4. QED
      BY <1>5, <3>1, <3>2, <3>3
  <2>2. QED
    BY <1>8, <1>9, <2>1
<1>12. w'.h = "waitbuy" /\ w'.pc = "balance" => Buys' = {}
  <2>1. ASSUME w'.h = "waitbuy", w'.pc = "balance" PROVE Buys = {} /\ ~(ByWorker /\ w.pc = "send")
    <3>1. CASE ByWorker /\ Comes
      BY <2>1, <3>1, NoneOpen DEF Comes, Buys
    <3>2. CASE UNCHANGED w /\ ~ByWorker
      BY <1>1, <2>1, <3>2
    <3>3. CASE w' = Idle
      BY <1>6, <2>1, <3>3
    <3>4. QED
      BY <1>5, <3>1, <3>2, <3>3
  <2>2. QED
    BY <1>8, <2>1
<1>13. w'.h = "sell" /\ w'.pc \in Asking => Sells' = {}
  <2>1. ASSUME w'.h = "sell", w'.pc \in Asking PROVE Sells = {} /\ ~(ByWorker /\ w.pc = "send")
    <3>1. CASE ByWorker /\ Comes
      BY <1>1, <1>2, <2>1, <3>1 DEF Comes
    <3>2. CASE UNCHANGED w /\ ~ByWorker
      BY <1>1, <2>1, <3>2
    <3>3. CASE w' = Idle
      BY <1>6, <2>1, <3>3
    <3>4. QED
      BY <1>5, <3>1, <3>2, <3>3
  <2>2. QED
    BY <1>8, <2>1
<1>14. w'.h \in {"sell", "waitsell"} /\ w'.pc \in Cleared => Sells' = {}
  <2>1. ASSUME w'.h \in {"sell", "waitsell"}, w'.pc \in Cleared PROVE Sells = {} /\ ~(ByWorker /\ w.pc = "send")
    <3>1. CASE ByWorker /\ Comes
      BY <1>1, <2>1, <3>1, NoneOpen DEF Comes, Sells
    <3>2. CASE UNCHANGED w /\ ~ByWorker
      BY <1>1, <2>1, <3>2
    <3>3. CASE w' = Idle
      BY <1>6, <2>1, <3>3
    <3>4. QED
      BY <1>5, <3>1, <3>2, <3>3
  <2>2. QED
    BY <1>8, <2>1
<1>15. w.h \in {"sell", "waitsell"} => Buys = {}
  BY <1>2, <1>4
<1>17. /\ w'.h \in {"sell", "waitsell"} /\ w'.pc \in Unwinding /\ w'.bal = 0 => hold' = 0
       /\ w'.pc = "delete" => hold' = 0
  <2>1. ByWorker /\ w.pc # "send" /\ hold = 0 => hold' = 0
    <3>1. ByWorker /\ w.pc # "send" => UNCHANGED <<xord, hold>> \/ ArmStop \/ CancelStop
      BY DEF ByWorker, WorkerStep, Tick, CheckPending, Lookup, GiveUp, CheckPosition, CheckOpenOrders, CheckBalance,
         PersistOrder, SendOrder, ConfirmOrder, CreatePosition, SettleBalance, SettleQuantity, ClosePosition,
         DropPosition, RaisePosition, ListOpenOrders, RecordOpenOrder, DecideOnStop, PersistStop, StoreCanceled,
         CheckTermination, ApplyDisable, exchange
    <3>2. ArmStop \/ CancelStop => hold' = hold
      BY DEF ArmStop, CancelStop, exchange
    <3>3. QED
      BY <3>1, <3>2
  <2>2. ASSUME ByWorker /\ Comes,
               (w'.h \in {"sell", "waitsell"} /\ w'.pc \in Unwinding /\ w'.bal = 0) \/ w'.pc = "delete"
        PROVE  hold' = 0
    <3>1. hold = 0 /\ w.pc # "send"
      BY <1>1, <2>2 DEF Comes, Unwinding
    <3>2. QED
      BY <2>1, <2>2, <3>1
  <2>3. ASSUME UNCHANGED w, ~ByWorker,
               (w.h \in {"sell", "waitsell"} /\ w.pc \in Unwinding /\ w.bal = 0) \/ w.pc = "delete"
        PROVE  hold' = 0
    <3>1. hold = 0
      BY <1>1, <2>3
    <3>2. Buys = {}
      <4>1. w.pc = "delete" => w.h \in {"sell", "waitsell"}
        BY DEF StoryBefore, Story, Steering
      <4>2. QED
        BY <1>15, <2>3, <4>1
    <3>3. QED
      BY <1>8, <2>3, <3>1, <3>2
  <2>4. "tick" \notin Unwinding
    BY DEF Unwinding
  <2>5. QED
    BY <1>5, <1>6, <2>2, <2>3, <2>4
<1>18. w'.pc \in {"settle", "quantity", "raise"} => pos'.st = "known"
  <2>1. ASSUME w'.pc \in {"settle", "quantity", "raise"}
        PROVE  (pos.st = "known" /\ ~(ByWorker /\ w.pc \in {"close", "delete"})) \/ pos'.st = "known"
    <3>1. CASE ByWorker /\ Comes
      BY <1>1, <1>2, <1>4, <2>1, <3>1 DEF Comes
    <3>2. CASE UNCHANGED w /\ ~ByWorker
      BY <1>1, <2>1, <3>2
    <3>3. CASE w' = Idle
      BY <1>6, <2>1, <3>3
    <3>4. QED
      BY <1>5, <3>1, <3>2, <3>3
  <2>2. QED
    BY <1>10, <2>1
<1>19. w'.pc = "close" \/ (w'.pc = "confirm" /\ w'.h = "sell" /\ w'.resp = "closed") => hold' = 0 /\ Sells' = {}
  <2>1. ASSUME ByWorker /\ Comes, w'.pc = "close" PROVE hold' = 0 /\ Sells' = {}
    <3>1. hold = 0 /\ Sells = {} /\ w.pc = "confirm" /\ w.h = "sell"
      BY <1>1, <2>1 DEF Comes
    <3>2. Buys = {}
      BY <1>15, <3>1
    <3>3. QED
      BY <1>8, <3>1, <3>2
  <2>2. ASSUME ByWorker /\ Comes, w'.pc = "confirm", w'.h = "sell", w'.resp = "closed" PROVE hold' = 0 /\ Sells' = {}
    <3>1. w.pc = "send" /\ w.h = "sell"
      BY <2>2 DEF Comes
    <3>2. Sells = {}
      BY <1>1, <3>1 DEF Cleared
    <3>3. SendOrder
      BY <2>2, <3>1, Asks, OrdersTurn, StopsTurn DEF ByWorker, WorkerStep, AskTurns, OrderTurns, StopTurns
    <3>4. QED
      BY <2>2, <3>1, <3>2, <3>3, SoldAtOnce
  <2>3. ASSUME UNCHANGED w, ~ByWorker, w.pc = "close" \/ (w.pc = "confirm" /\ w.h = "sell" /\ w.resp = "closed")
        PROVE  hold' = 0 /\ Sells' = {}
    <3>1. hold = 0 /\ Sells = {}
      BY <1>1, <2>3
    <3>2. Buys = {}
      <4>1. w.pc = "close" => w.h = "sell"
        BY DEF StoryBefore, Story, Steering
      <4>2. QED
        BY <1>15, <2>3, <4>1
    <3>3. QED
      BY <1>8, <2>3, <3>1, <3>2
  <2>4. QED
    BY <1>5, <1>6, <2>1, <2>2, <2>3
<1>20. QED
  BY <1>11, <1>12, <1>13, <1>14, <1>17, <1>18, <1>19 DEF Knowing, Before, Cleared, Unwinding
----------------------------------------------------------------------------
(* At first there is nothing to tell. *)
LEMMA StoryAtFirst == SyncInit => Story
<1> SUFFICES ASSUME SyncInit PROVE Story
  OBVIOUS
<1>1. /\ strat = "IDLE" /\ pair = "enabled" /\ rows = <<>> /\ xord = <<>> /\ hold = 0
      /\ w.pc = "tick" /\ w.h = "none" /\ pos.st = "none"
      /\ so.pc = "idle" /\ so.todo = {} /\ sp.pc = "idle" /\ ss.pc = "idle"
  BY DEF SyncInit, Init, Idle, NoPosition, OrdersIdle, PositionsIdle, StopsIdle
<1>2. Buys = {} /\ Sells = {} /\ Stops = {} /\ Waiting = {}
  BY <1>1 DEF Buys, Sells, Stops, LiveIn, Waiting
<1>3. Steering /\ Settling
  BY <1>1 DEF Steering, Settling, OffDuty
<1>4. Claiming /\ Telling /\ Flat
  BY <1>1, <1>2 DEF Claiming, Telling, Flat
<1>5. Knowing
  BY <1>1 DEF Knowing, Asking
<1>6. QED
  BY <1>3, <1>4, <1>5 DEF Story

(* Without SyncPositions, with a database that answers and a process that   *)
(* goes on, the strategy, the position, the rows and the exchange always    *)
(* tell the same story of the one lot.                                      *)
THEOREM StoryKept == ASSUME Calm PROVE SyncSpec => [](CoverBefore /\ Story)
<1>1. {"link", "late", "manual", "db"} \cap Faults = {}
  BY DEF Calm
<1>2. SyncSpec => [](IInv /\ Accounted /\ Unsent /\ OneLot /\ StopKnown)
  BY <1>1, StopsKnown
<1>3. SyncInit => Covered /\ Story
  BY LifecycleInit, StoryAtFirst
<1>4. IInv /\ Accounted /\ Unsent /\ OneLot /\ StopKnown /\ Covered /\ Story /\ [SyncNext]_vars => Covered' /\ Story'
  <2>1. SUFFICES ASSUME IInv, Accounted, Unsent, OneLot, StopKnown, Covered, Story, [SyncNext]_vars
                 PROVE  Covered' /\ Story'
    OBVIOUS
  <2>2. {"manual", "late"} \cap Faults = {} /\ "db" \notin Faults
    BY <1>1
  <2>3. StoryBefore
    BY <2>1, <2>2 DEF StoryBefore, CoverBefore, StopsBefore, LotsBefore
  <2>4. Covered'
    BY <2>1, <2>3, CoveredKept DEF StoryBefore
  <2>5. Story'
    BY <2>1, <2>3, SteeringKept, SettlingKept, ClaimingKept, TellingKept, KnowingKept DEF Story
  <2>6. QED
    BY <2>4, <2>5
<1>5. IInv /\ Accounted /\ Unsent /\ OneLot /\ StopKnown /\ Covered /\ Story => CoverBefore /\ Story
  BY <1>1 DEF CoverBefore, StopsBefore, LotsBefore
<1>6. QED
  BY <1>2, <1>3, <1>4, <1>5, PTL DEF SyncSpec

(* A pair is marked disabled only when no lot is held and none is being     *)
(* bought: the worker ends only on an idle strategy, and an idle strategy   *)
(* has neither.                                                             *)
THEOREM DisabledOnlyFlat == ASSUME Calm PROVE SyncSpec => []DisabledWhenFlat
<1>1. ASSUME CoverBefore, Story PROVE DisabledWhenFlat
  <2>1. xord \in Seq(OrderI)
    BY <1>1 DEF CoverBefore, StopsBefore, LotsBefore, IInv, BookIn
  <2>2. Live("buy", "market") = Buys
    BY <2>1, LiveLots DEF Buys
  <2>3. pair = "disabled" => Flat
    BY <1>1 DEF Story, Steering, Telling
  <2>4. QED
    BY <2>2, <2>3 DEF DisabledWhenFlat, Flat
<1>2. QED
  BY <1>1, StoryKept, PTL

(* A row that is closed, canceled or rejected stays so, whoever writes it   *)
(* and with whatever answer in hand: beside SyncOrders every row.           *)
THEOREM RowsFinal == ASSUME Calm, "stops" \notin Tasks PROVE SyncSpec => RowFinal
<1>1. CoverBefore /\ Story /\ [SyncNext]_vars =>
        [\A r \in DOMAIN rows : rows[r].status \in {"closed", "canceled", "rejected"} =>
            rows'[r].status = rows[r].status]_vars
  <2>1. ASSUME CoverBefore, Story, [SyncNext]_vars,
               NEW r \in DOMAIN rows, rows[r].status \in {"closed", "canceled", "rejected"}
        PROVE  rows'[r].status = rows[r].status
    <3>1. StoryBefore
      BY <2>1 DEF StoryBefore
    <3>2. r \in 1..Len(rows)
      BY <2>1, <3>1, Tables
    <3>3. QED
      BY <2>1, <3>1, <3>2, FinalKept DEF Final
  <2>2. QED
    BY <2>1
<1>2. QED
  BY <1>1, StoryKept, PTL DEF SyncSpec, RowFinal

(* The rows of market orders stay final beside SyncOrders and SyncStopOrders. *)
THEOREM MarketRowsFinal == ASSUME Calm PROVE SyncSpec => MarketRowFinal
<1>1. CoverBefore /\ Story /\ [SyncNext]_vars =>
        [\A r \in DOMAIN rows : rows[r].kind = "market" /\ rows[r].status \in {"closed", "canceled", "rejected"} =>
            rows'[r].status = rows[r].status]_vars
  <2>1. ASSUME CoverBefore, Story, [SyncNext]_vars, NEW r \in DOMAIN rows,
               rows[r].kind = "market", rows[r].status \in {"closed", "canceled", "rejected"}
        PROVE  rows'[r].status = rows[r].status
    <3>1. StoryBefore
      BY <2>1 DEF StoryBefore
    <3>2. r \in 1..Len(rows)
      BY <2>1, <3>1, Tables
    <3>3. QED
      BY <2>1, <3>1, <3>2, FinalKept DEF Final
  <2>2. QED
    BY <2>1
<1>2. QED
  BY <1>1, StoryKept, PTL DEF SyncSpec, MarketRowFinal
=============================================================================
