---------------------------- MODULE TradingPair ----------------------------
(***************************************************************************)
(* One exchange/instrument pair: the worker goroutine of the orchestrator  *)
(* that runs processSignal once per interval (signal_handler.go,           *)
(* helper.go), the execution service it calls (service.go), the strategy   *)
(* state it steers (strategy.cpp), the database and the exchange.          *)
(*                                                                         *)
(* Every database access and every gateway call is a step of its own, so   *)
(* that everything else can happen in between; the code up to the next of  *)
(* them belongs to the step.  A gateway call that only reads, and the      *)
(* database write that stores its answer, are one step, except where the   *)
(* answer is kept in the worker.  Faults names what may go wrong:          *)
(*   "db"      a statement fails          "gateway" a call fails           *)
(*   "link"    every attempt to store the id of a found order fails        *)
(*   "lost"    the exchange acts, the answer is lost                       *)
(*   "late"    as "lost", and the exchange sees the order later            *)
(*   "cancel"  the exchange cancels an order        "part"  a part filled  *)
(*   "crash"   the bot restarts           "manual"  the account is traded  *)
(*   "disable" the pair is disabled and enabled over the management API    *)
(* Bounds: the exchange refuses more than MaxOrders orders, the strategy   *)
(* stops signalling Buy and Sell at MaxRows rows, manual trades stay       *)
(* within MaxHold lots.                                                    *)
(***************************************************************************)
EXTENDS Ledger, FiniteSetsExt

CONSTANTS Faults, MaxOrders, MaxRows, MaxHold,
          StopsLock   \* an open stop order locks the base asset

ASSUME BoundsAssumption == MaxOrders \in Nat /\ MaxRows \in Nat /\ MaxHold \in Nat
ASSUME ExchangeAssumption == StopsLock \in BOOLEAN

VARIABLES
    strat,   \* StrategyState of the C++ engine
    w,       \* the worker: where it is in processSignal, and its locals
    term,    \* SignalGenerator.pendingTerminate of the worker
    pair,    \* status of the pair in trading.strategy_pairs
    rows,    \* trading.orders of the pair
    pos,     \* trading.positions of the pair
    wallet,  \* trading.balances of the base asset
    xord,    \* the exchange's orders
    hold     \* the lots the exchange account holds

database == <<rows, pos, wallet>>
exchange == <<xord, hold>>
control  == <<term, pair>>
pairVars == <<strat, w, term, pair, rows, pos, wallet, xord, hold>>

StrategyState == {"IDLE", "PENDING_BUY", "IN_POSITION", "PENDING_SELL"}
Handlers == {"none", "search", "buy", "waitbuy", "track", "sell", "waitsell"}
WorkerSteps == {"tick", "pending", "lookup", "giveup", "position", "orders", "balance", "persist",
                "send", "confirm", "create", "settle", "quantity", "close", "delete", "stops",
                "record", "arm", "stoprow", "raise", "cancel", "canceled", "retire",
                "apply", "stopped"}

(* The locals of processSignal: handler, position read, balance read, row,  *)
(* exchange order, its status in the answer, listed orders not yet stored.  *)
Worker == [pc : WorkerSteps, h : Handlers, pos : Position, bal : Nat, row : Nat, x : Nat,
           resp : {"none", "open", "closed"}, todo : SUBSET Nat]
Idle == [pc |-> "tick", h |-> "none", pos |-> NoPosition, bal |-> 0, row |-> 0, x |-> 0,
         resp |-> "none", todo |-> {}]

Init ==
    /\ strat = "IDLE" /\ w = Idle /\ term = FALSE /\ pair = "enabled"
    /\ rows = <<>> /\ pos = NoPosition /\ wallet = 0
    /\ xord = <<>> /\ hold = 0
----------------------------------------------------------------------------
(* The strategy state machine.                                              *)

(* What GetSignal may answer; the rules decide between two answers.         *)
Signals(s) == CASE s = "IDLE"         -> {"search", "buy"}
                [] s = "PENDING_BUY"  -> {"waitbuy"}
                [] s = "IN_POSITION"  -> {"track", "sell"}
                [] s = "PENDING_SELL" -> {"waitsell"}

AfterSignal(h) == CASE h = "search" -> "IDLE"
                    [] h \in {"buy", "waitbuy"} -> "PENDING_BUY"
                    [] h = "track" -> "IN_POSITION"
                    [] h \in {"sell", "waitsell"} -> "PENDING_SELL"

(* RetrySignal: the pending state is taken back. *)
Retry(s) == CASE s = "PENDING_BUY"  -> "IDLE"
              [] s = "PENDING_SELL" -> "IN_POSITION"
              [] OTHER -> s

(* initSignalHandler aligns a fresh engine with the recovered position. *)
Hydrated(p) == IF p.st = "known" THEN "IN_POSITION" ELSE "IDLE"
----------------------------------------------------------------------------
(* The exchange.                                                            *)

Live(side, kind) ==
    {x \in DOMAIN xord : xord[x].status = "open" /\ xord[x].side = side /\ xord[x].kind = kind}

(* The lots of orders X, counted one by one. *)
LotsOf(X) == Cardinality(UNION {{x} \X (1..xord[x].qty) : x \in X})

(* Free lots of the base asset: sells in the market lock theirs. *)
Free == hold - LotsOf(Live("sell", "market"))
             - (IF StopsLock THEN LotsOf(Live("sell", "stop")) ELSE 0)

(* mutant: a sell is admitted without the lots it needs *)
AcceptMarketShort(side, qty, cid, status) ==
    /\ Len(xord) < MaxOrders
    /\ xord' = Append(xord, [cid |-> cid, side |-> side, kind |-> "market", qty |-> qty,
                             status |-> status])
    /\ hold' = IF status # "closed" THEN hold ELSE IF side = "buy" THEN hold + qty ELSE hold - qty

(* The exchange admits a market order, filled at once or left open. *)
AcceptMarket(side, qty, cid, status) ==
    /\ Len(xord) < MaxOrders
    /\ side = "sell" => Free >= qty
    /\ xord' = Append(xord, [cid |-> cid, side |-> side, kind |-> "market", qty |-> qty,
                             status |-> status])
    /\ hold' = IF status # "closed" THEN hold ELSE IF side = "buy" THEN hold + qty ELSE hold - qty

Settled(x, status) == xord' = [xord EXCEPT ![x].status = status]

Fill(x) ==
    /\ x \in Live("buy", "market") \cup Live("sell", "market")
    /\ Settled(x, "closed")
    /\ hold' = IF xord[x].side = "buy" THEN hold + xord[x].qty ELSE hold - xord[x].qty

(* The price falls through an open stop order; the exchange drops it when   *)
(* the lots are gone.                                                       *)
Trigger(x) ==
    /\ x \in Live("sell", "stop")
    /\ IF hold - LotsOf(Live("sell", "market")) >= xord[x].qty
       THEN Settled(x, "closed") /\ hold' = hold - xord[x].qty
       ELSE Settled(x, "canceled") /\ UNCHANGED hold

(* Canceled from outside; of a buy order a part may have been filled. *)
CancelOutside(x) ==
    /\ "cancel" \in Faults
    /\ xord[x].status = "open"
    /\ Settled(x, "canceled")
    /\ hold' \in {hold} \cup (IF "part" \in Faults /\ xord[x].side = "buy"
                            THEN {hold + xord[x].qty} ELSE {})

(* An order the gateway had given up on reaches the exchange. *)
Deliver(x) ==
    /\ xord[x].status = "transit"
    /\ Settled(x, IF xord[x].side = "sell" /\ Free < xord[x].qty THEN "canceled" ELSE "open")
    /\ UNCHANGED hold

(* The owner of the account trades a lot, through a market order or a stop  *)
(* order that has triggered.                                                *)
ManualTrade ==
    /\ "manual" \in Faults /\ Len(xord) < MaxOrders
    /\ \E side \in Sides, kind \in Kinds :
        /\ xord' = Append(xord, [cid |-> Unnamed, side |-> side, kind |-> kind, qty |-> 1,
                                 status |-> "closed"])
        /\ IF side = "buy" THEN hold' = hold + 1 ELSE Free >= 1 /\ hold' = hold - 1
    /\ hold' \in 0..MaxHold

Exchange ==
    /\ \/ \E x \in DOMAIN xord : Fill(x) \/ Trigger(x) \/ CancelOutside(x) \/ Deliver(x)
       \/ ManualTrade
    /\ UNCHANGED <<strat, w, control, database>>
----------------------------------------------------------------------------
(* The worker.  Goto continues in the handler; Return leaves processSignal  *)
(* with the strategy in state s, through the deferred termination check     *)
(* when the signal was SearchingBuyEntry.                                   *)
Goto(pc)  == w' = [w EXCEPT !.pc = pc] /\ UNCHANGED strat
ReturnTerminating(s) ==   \* mutant: the termination check forgets which signal it was
    /\ strat' = s
    /\ w' = IF term THEN [Idle EXCEPT !.pc = "retire"] ELSE Idle
Return(s) ==
    /\ strat' = s
    /\ w' = IF w.h = "search" /\ term THEN [Idle EXCEPT !.pc = "retire"] ELSE Idle

(* An error before the order was sent takes a Buy or Sell signal back. *)
OnError == Return(IF w.h \in {"buy", "sell"} THEN Retry(strat) ELSE strat)

Fails(faults) == faults \cap Faults # {}

(* GetTicker and GetSignal: the next signal of the strategy. *)
Tick ==
    /\ w.pc = "tick"
    /\ \E h \in Signals(strat) :
        /\ h \in {"buy", "sell"} => Len(rows) < MaxRows
        /\ IF h = "buy" /\ term
           THEN w' = [Idle EXCEPT !.pc = "retire"] /\ UNCHANGED strat
           ELSE /\ strat' = AfterSignal(h)
                /\ w' = [Idle EXCEPT !.h = h,
                            !.pc = IF h \in {"search", "track"} THEN "position" ELSE "pending"]
    /\ UNCHANGED <<control, database, exchange>>

(* checkPendingOrder: the newest 'new' row, when it has no exchange id. *)
CheckPending ==
    /\ w.pc = "pending"
    /\ \/ \E r \in Unresolved(rows) :
             w' = [w EXCEPT !.pc = "lookup", !.row = r] /\ UNCHANGED strat
       \/ Unresolved(rows) = {} /\ Goto("position")
       \/ Fails({"db"}) /\ OnError
    /\ UNCHANGED <<control, database, exchange>>

(* mutant: orders are matched by side and amount only *)
MatchesLoosely(r) ==
    {x \in DOMAIN xord : /\ xord[x].status # "transit"
                         /\ xord[x].side = rows[r].side /\ xord[x].qty = rows[r].qty}

(* The exchange orders that match row r: by client order id, or by side and *)
(* amount, whatever their type, when the order carries none.                *)
Matches(r) ==
    {x \in DOMAIN xord :
        /\ xord[x].status # "transit"
        /\ \/ xord[x].cid = r
           \/ xord[x].cid = Unnamed /\ xord[x].side = rows[r].side /\ xord[x].qty = rows[r].qty}

(* mutant: the order list is not waited for *)
LookupHasty ==
    /\ w.pc = "lookup"
    /\ \/ \E x \in Matches(w.row) :
             LinkAllowed(rows, x) /\ rows' = Linked(rows, w.row, x, "new") /\ Goto("position")
       \/ Goto("giveup") /\ UNCHANGED rows
    /\ UNCHANGED <<control, pos, wallet, exchange>>

(* The attempts of checkPendingOrder: a match is linked to the row; a match *)
(* whose update fails is passed over; after the last attempt the row is     *)
(* given up.                                                                *)
Lookup ==
    /\ w.pc = "lookup"
    /\ LET linkable == {x \in Matches(w.row) : LinkAllowed(rows, x)} IN
        \/ \E x \in linkable :
             rows' = Linked(rows, w.row, x, "new") /\ Goto("position")
        \/ linkable = {} /\ Goto("giveup") /\ UNCHANGED rows
        \/ linkable # {} /\ Fails({"link"}) /\ Goto("giveup") /\ UNCHANGED rows
        \/ Fails({"gateway"}) /\ OnError /\ UNCHANGED rows
    /\ UNCHANGED <<control, pos, wallet, exchange>>

GiveUp ==
    /\ w.pc = "giveup"
    /\ \/ rows' = Linked(rows, w.row, 0, "rejected") /\ Goto("position")
       \/ Fails({"db"}) /\ OnError /\ UNCHANGED rows
    /\ UNCHANGED <<control, pos, wallet, exchange>>

(* checkPosition and what each handler does with its answer, up to its next *)
(* call; a ghost resets the strategy in all of them.                        *)
CheckPosition ==
    /\ w.pc = "position"
    /\ \/ Fails({"db"}) /\ OnError
       \/ pos.st = "ghost" /\ Return("IDLE")
       \/ pos.st = "none" /\
            \/ w.h = "search" /\ Return(strat)
            \/ w.h = "buy" /\ Return(Retry(strat))          \* risk pre-check
            \/ w.h \in {"buy", "waitbuy"} /\ Goto("orders")
            \/ w.h \in {"track", "sell", "waitsell"} /\ Return("IDLE")
       \/ pos.st = "known" /\
            \/ w.h \in {"search", "buy", "waitbuy"} /\ Return("IN_POSITION")
            \/ w.h = "track" /\ pos.sl /\ Return(strat)
            \/ w.h = "track" /\ ~pos.sl
               /\ w' = [w EXCEPT !.pc = "stops", !.pos = pos] /\ UNCHANGED strat
            \/ (w.h = "waitbuy" \/ (w.h = "track" /\ pos.sl))   \* a new highest price
               /\ w' = [w EXCEPT !.pc = "raise", !.pos = pos] /\ UNCHANGED strat
            \/ w.h \in {"sell", "waitsell"}
               /\ w' = [w EXCEPT !.pc = "orders", !.pos = pos] /\ UNCHANGED strat
    /\ UNCHANGED <<control, database, exchange>>

(* mutant: rows that are still 'new' do not count *)
CheckOpenOrdersUnconfirmed ==
    /\ w.pc = "orders"
    /\ LET side == IF w.h \in {"buy", "waitbuy"} THEN "buy" ELSE "sell"
           open == Select(rows, {"open"}, {"market"}, {side})
       IN  IF open # {} THEN Return(strat) ELSE Goto("balance")
    /\ UNCHANGED <<control, database, exchange>>

(* mutant: the answer is ignored *)
CheckOpenOrdersIgnored ==
    /\ w.pc = "orders" /\ Goto("balance")
    /\ UNCHANGED <<control, database, exchange>>

(* getDbOpenOrders: an order of the same side is still under way. *)
CheckOpenOrders ==
    /\ w.pc = "orders"
    /\ LET side == IF w.h \in {"buy", "waitbuy"} THEN "buy" ELSE "sell"
           open == Select(rows, {"new", "open"}, {"market"}, {side})
       IN  \/ open # {} /\ Return(strat)
           \/ open = {} /\ Goto("balance")
           \/ Fails({"db"}) /\ OnError
    /\ UNCHANGED <<control, database, exchange>>

(* mutant: a buy does not look at the balance *)
CheckBalanceBlind ==
    /\ w.pc = "balance" /\ wallet' = hold
    /\ \/ w.h = "buy" /\ Goto("persist")
       \/ w.h = "waitbuy" /\ Return(IF hold > 0 THEN strat ELSE Retry(strat))
       \/ w.h = "waitsell" /\ hold = 0 /\ Goto("delete")
       \/ (w.h = "sell" \/ (w.h = "waitsell" /\ hold > 0))
          /\ w' = [w EXCEPT !.pc = "stops", !.bal = hold] /\ UNCHANGED strat
    /\ UNCHANGED <<control, rows, pos, exchange>>

(* getBalance, and the decision each handler bases on it. *)
CheckBalance ==
    /\ w.pc = "balance"
    /\ \/ /\ wallet' = hold
          /\ \/ w.h \in {"buy", "waitbuy"} /\ hold > 0 /\ Return(strat)
             \/ w.h \in {"buy", "waitbuy"} /\ hold = 0 /\ Return(Retry(strat))  \* final risk check
             \/ w.h = "buy" /\ hold = 0 /\ Goto("persist")
             \/ w.h = "waitsell" /\ hold = 0 /\ Goto("delete")
             \/ (w.h = "sell" \/ (w.h = "waitsell" /\ hold > 0))
                /\ w' = [w EXCEPT !.pc = "stops", !.bal = hold] /\ UNCHANGED strat
       \/ Fails({"gateway", "db"}) /\ OnError /\ UNCHANGED wallet
    /\ UNCHANGED <<control, rows, pos, exchange>>

(* CreateOrder: the row is written before the gateway is called. *)
PersistOrder ==
    /\ w.pc = "persist"
    /\ \/ /\ InsertAllowed(rows)
          /\ rows' = Inserted(rows, IF w.h = "buy" THEN "buy" ELSE "sell",
                                    IF w.h = "buy" THEN 1 ELSE w.bal)
          /\ w' = [w EXCEPT !.pc = "send", !.row = Len(rows) + 1]
          /\ UNCHANGED strat
       \/ /\ ~InsertAllowed(rows) \/ Fails({"db", "gateway"})
          /\ Return(strat) /\ UNCHANGED rows
    /\ UNCHANGED <<control, pos, wallet, exchange>>

(* The gateway call of CreateOrder.  On any error the row stays 'new' and   *)
(* the strategy stays in its pending state.                                 *)
SendOrder ==
    /\ w.pc = "send"
    /\ LET r == rows[w.row] IN
        \/ \E status \in {"open", "closed"} :
            /\ AcceptMarket(r.side, r.qty, w.row, status)
            /\ \/ w' = [w EXCEPT !.pc = "confirm", !.x = Len(xord) + 1, !.resp = status]
                  /\ UNCHANGED strat
               \/ Fails({"lost"}) /\ Return(strat)
        \/ /\ Fails({"late"})
           /\ AcceptMarket(r.side, r.qty, w.row, "transit")
           /\ Return(strat)
        \/ /\ Fails({"gateway"}) \/ Len(xord) = MaxOrders \/ (r.side = "sell" /\ Free < r.qty)
           /\ Return(strat) /\ UNCHANGED exchange
    /\ UNCHANGED <<control, database>>

(* CreateOrder stores the answer under the row's id. *)
ConfirmOrder ==
    /\ w.pc = "confirm"
    /\ \/ /\ LinkAllowed(rows, w.x)
          /\ rows' = Linked(rows, w.row, w.x, w.resp)
          /\ IF w.resp = "open" THEN Return(strat)
             ELSE Goto(IF w.h = "buy" THEN "create" ELSE "close")
       \/ /\ ~LinkAllowed(rows, w.x) \/ Fails({"db"})
          /\ Return(strat) /\ UNCHANGED rows
    /\ UNCHANGED <<control, pos, wallet, exchange>>

(* A buy filled at once: CreatePosition, ... *)
CreatePosition ==
    /\ w.pc = "create"
    /\ \/ /\ CreateAllowed(pos, w.row)
          /\ pos' = CreatedPosition(w.row, rows[w.row].qty) /\ Goto("settle")
       \/ /\ ~CreateAllowed(pos, w.row) \/ Fails({"db"})
          /\ Return(strat) /\ UNCHANGED pos
    /\ UNCHANGED <<control, rows, wallet, exchange>>

(* ... getBalance ... *)
SettleBalance ==
    /\ w.pc = "settle"
    /\ \/ /\ wallet' = hold
          /\ IF hold = 0 THEN Return("IN_POSITION")
             ELSE w' = [w EXCEPT !.pc = "quantity", !.bal = hold] /\ UNCHANGED strat
       \/ Fails({"gateway", "db"}) /\ Return(strat) /\ UNCHANGED wallet
    /\ UNCHANGED <<control, rows, pos, exchange>>

(* ... and UpdatePosition with the quantity found. *)
SettleQuantity ==
    /\ w.pc = "quantity"
    /\ LET u == QuantityOnly(w.bal) IN
        \/ UpdateAllowed(pos, u) /\ pos' = UpdatedPosition(pos, u) /\ Return("IN_POSITION")
        \/ (~UpdateAllowed(pos, u) \/ Fails({"db"})) /\ Return(strat) /\ UNCHANGED pos
    /\ UNCHANGED <<control, rows, wallet, exchange>>

(* A sell filled at once: the position goes first, then the strategy. *)
ClosePosition ==
    /\ w.pc = "close"
    /\ \/ pos' = NoPosition /\ Return("IDLE")
       \/ Fails({"db"}) /\ Return(strat) /\ UNCHANGED pos
    /\ UNCHANGED <<control, rows, wallet, exchange>>

(* Nothing left to sell: the strategy goes idle even when the delete fails. *)
DropPosition ==
    /\ w.pc = "delete"
    /\ \/ pos' = NoPosition
       \/ Fails({"db"}) /\ UNCHANGED pos
    /\ Return("IDLE")
    /\ UNCHANGED <<control, rows, wallet, exchange>>

(* getStopLossOrder: list the open orders of the exchange, ... *)
ListOpenOrders ==
    /\ w.pc = "stops"
    /\ \/ /\ w' = [w EXCEPT !.pc = "record", !.todo = {x \in DOMAIN xord : xord[x].status = "open"}]
          /\ UNCHANGED strat
       \/ Fails({"gateway"}) /\ OnError
    /\ UNCHANGED <<control, database, exchange>>

(* ... store each of them; one that cannot be stored is left out of the     *)
(* list; the first stop order left is the answer.                           *)
RecordOpenOrder ==
    /\ w.pc = "record" /\ w.todo # {}
    /\ LET x == Min(w.todo) IN
        \/ /\ UpsertAllowed(rows, x, xord[x])
           /\ rows' = Upserted(rows, x, xord[x], "open")
           /\ w' = [w EXCEPT !.todo = @ \ {x},
                             !.x = IF @ = 0 /\ xord[x].kind = "stop" THEN x ELSE @]
        \/ /\ ~UpsertAllowed(rows, x, xord[x]) \/ Fails({"db"})
           /\ w' = [w EXCEPT !.todo = @ \ {x}] /\ UNCHANGED rows
    /\ UNCHANGED <<strat, control, pos, wallet, exchange>>

(* mutant: a stop order is placed whatever was found *)
DecideOnStopArmed ==
    /\ w.pc = "record" /\ w.todo = {}
    /\ \/ w.h = "track" /\ Goto("arm")
       \/ w.h \in {"sell", "waitsell"} /\ Return(strat)
    /\ UNCHANGED <<control, database, exchange>>

(* mutant: the stop order is left in place when the lots are sold *)
DecideOnStopUncancelled ==
    /\ w.pc = "record" /\ w.todo = {}
    /\ \/ /\ w.h = "track" /\ w.x = 0 /\ Goto("arm")
       \/ /\ w.h = "track" /\ w.x # 0
          /\ w' = [w EXCEPT !.pc = "raise", !.pos.sl = TRUE] /\ UNCHANGED strat
       \/ w.h = "sell" /\ Goto(IF w.bal = 0 THEN "delete" ELSE "persist")
       \/ w.h = "waitsell" /\ Return(Retry(strat))
    /\ UNCHANGED <<control, database, exchange>>

(* What the handlers do about the stop order they found, or did not find. *)
DecideOnStop ==
    /\ w.pc = "record" /\ w.todo = {}
    /\ \/ /\ w.h = "track" /\ w.x = 0 /\ Goto("arm")
       \/ /\ w.h = "track" /\ w.x # 0
          /\ w' = [w EXCEPT !.pc = "raise", !.pos.sl = TRUE] /\ UNCHANGED strat
       \/ w.h = "sell" /\ w.x # 0 /\ w.bal > 0 /\ Return(strat)   \* the stop will sell
       \/ w.h \in {"sell", "waitsell"} /\ w.x # 0 /\ Goto("cancel")
       \/ w.h = "sell" /\ w.x = 0 /\ Goto(IF w.bal = 0 THEN "delete" ELSE "persist")
       \/ w.h = "waitsell" /\ w.x = 0 /\ Return(Retry(strat))
    /\ UNCHANGED <<control, database, exchange>>

(* CreateStopOrder: the gateway call comes first, ... *)
ArmStop ==
    /\ w.pc = "arm"
    /\ \/ /\ Len(xord) < MaxOrders /\ Free >= w.pos.qty
          /\ xord' = Append(xord, [cid |-> 0, side |-> "sell", kind |-> "stop",
                                   qty |-> w.pos.qty, status |-> "open"])
          /\ \/ w' = [w EXCEPT !.pc = "stoprow", !.x = Len(xord) + 1] /\ UNCHANGED strat
             \/ Fails({"lost"}) /\ Return(strat)
       \/ /\ Fails({"gateway"}) \/ Len(xord) = MaxOrders \/ Free < w.pos.qty
          /\ Return(strat) /\ UNCHANGED xord
    /\ UNCHANGED <<control, database, hold>>

(* ... then the row is inserted. *)
PersistStop ==
    /\ w.pc = "stoprow"
    /\ \/ /\ LinkAllowed(rows, w.x)
          /\ rows' = Upserted(rows, w.x, xord[w.x], "open")
          /\ w' = [w EXCEPT !.pc = "raise", !.pos.sl = TRUE] /\ UNCHANGED strat
       \/ /\ ~LinkAllowed(rows, w.x) \/ Fails({"db"})
          /\ Return(strat) /\ UNCHANGED rows
    /\ UNCHANGED <<control, pos, wallet, exchange>>

(* UpdatePosition with the position as it was read at the start. *)
RaisePosition ==
    /\ w.pc = "raise"
    /\ \/ UpdateAllowed(pos, w.pos) /\ pos' = UpdatedPosition(pos, w.pos)
       \/ (~UpdateAllowed(pos, w.pos) \/ Fails({"db"})) /\ UNCHANGED pos
    /\ Return(IF w.h = "waitbuy" THEN "IN_POSITION" ELSE strat)
    /\ UNCHANGED <<control, rows, wallet, exchange>>

(* CancelOrder; an order that is no longer open is answered or refused.     *)
CancelStop ==
    /\ w.pc = "cancel"
    /\ \/ /\ IF xord[w.x].status = "open" THEN Settled(w.x, "canceled") ELSE UNCHANGED xord
          /\ Goto("canceled") \/ (Fails({"lost"}) /\ OnError)
       \/ (xord[w.x].status # "open" \/ Fails({"gateway"})) /\ OnError /\ UNCHANGED xord
    /\ UNCHANGED <<control, database, hold>>

(* CancelOrder reads the order back and stores it. *)
StoreCanceled ==
    /\ w.pc = "canceled"
    /\ \/ /\ rows' = Upserted(rows, w.x, xord[w.x], xord[w.x].status)
          /\ IF w.h = "waitsell" THEN Return(Retry(strat))
             ELSE Goto(IF w.bal = 0 THEN "delete" ELSE "persist")
       \/ Fails({"gateway", "db"}) /\ OnError /\ UNCHANGED rows
    /\ UNCHANGED <<control, pos, wallet, exchange>>

(* The deferred termination check: no position, ... *)
CheckTermination ==
    /\ w.pc = "retire"
    /\ \/ pos.st = "none" /\ w' = [w EXCEPT !.pc = "apply"]
       \/ (pos.st # "none" \/ Fails({"db"})) /\ w' = Idle
    /\ UNCHANGED <<strat, control, database, exchange>>

(* ... then ApplyStrategyDisable, which only touches a pair that is still    *)
(* scheduled, and stopWorker.                                               *)
ApplyDisable ==
    /\ w.pc = "apply"
    /\ \/ /\ w' = [Idle EXCEPT !.pc = "stopped"]
          /\ pair' = IF pair = "pending_disabled" THEN "disabled" ELSE pair
       \/ Fails({"db"}) /\ w' = Idle /\ UNCHANGED pair
    /\ UNCHANGED <<strat, term, database, exchange>>

WorkerStep ==
    \/ Tick \/ CheckPending \/ Lookup \/ GiveUp \/ CheckPosition \/ CheckOpenOrders
    \/ CheckBalance \/ PersistOrder \/ SendOrder \/ ConfirmOrder \/ CreatePosition
    \/ SettleBalance \/ SettleQuantity \/ ClosePosition \/ DropPosition \/ ListOpenOrders
    \/ RecordOpenOrder \/ DecideOnStop \/ ArmStop \/ PersistStop \/ RaisePosition
    \/ CancelStop \/ StoreCanceled \/ CheckTermination \/ ApplyDisable
----------------------------------------------------------------------------
(* initSignalHandler: the engine and the flag are rebuilt from the database;  *)
(* a position that cannot be read leaves the engine as it is when new.       *)
Restarted ==
    /\ w' = Idle
    /\ strat' \in {Hydrated(pos)} \cup (IF Fails({"db"}) THEN {"IDLE"} ELSE {})
    /\ term' = (pair = "pending_disabled")
    /\ UNCHANGED <<pair, database, exchange>>

(* The bot dies and starts again. *)
CrashWorker == Fails({"crash"}) /\ w.pc # "stopped" /\ Restarted

(* GetStrategyPairs, as loadValidStrategies asks: the pairs that have a worker. *)
Runnable == pair \in {"enabled", "pending_disabled"}

(* refreshStrategies: a runnable pair without a worker gets one, ... *)
StartWorker == w.pc = "stopped" /\ Runnable /\ Restarted

(* ... a running worker gets the flag of its pair. *)
UpdateWorker ==
    /\ w.pc # "stopped" /\ Runnable
    /\ term' = (pair = "pending_disabled")
    /\ UNCHANGED <<strat, w, pair, database, exchange>>

(* RequestStrategyDisable only touches a pair that is enabled. *)
RequestDisable == pair = "enabled" /\ pair' = "pending_disabled"

(* UpsertEnabledStrategy takes the pair back from any status. *)
EnableStrategy == pair # "enabled" /\ pair' = "enabled"

(* The management API: UpdateStrategy. *)
Manage ==
    /\ Fails({"disable"})
    /\ RequestDisable \/ EnableStrategy
    /\ UNCHANGED <<strat, w, term, database, exchange>>

----------------------------------------------------------------------------
(* Type invariant. *)
TypeOK ==
    /\ strat \in StrategyState
    /\ w \in Worker
    /\ term \in BOOLEAN
    /\ pair \in {"enabled", "pending_disabled", "disabled"}
    /\ rows \in Seq(Row)
    /\ pos \in Position
    /\ wallet \in Nat
    /\ xord \in Seq(ExchangeOrder)
    /\ hold \in Nat

(* "Check if there's a pending order in the database to avoid duplication":  *)
(* the pair never has more than one lot bought or being bought, although     *)
(* calls fail, answers are lost and orders are canceled (signal_handler.go   *)
(* signalBuy).                                                               *)
NoDoubleBuy == hold + LotsOf(Live("buy", "market")) <= 1

(* checkPendingOrder gives a row up only when the order it was written for   *)
(* is not on the exchange (helper.go:68, 116-125).                           *)
RejectOnlyUnsent ==
    [][\A r \in DOMAIN rows : rows[r].status = "new" /\ rows'[r].status = "rejected" =>
          \A x \in DOMAIN xord : xord[x].cid # r]_pairVars

(* The row of a market buy order that the exchange has filled.               *)
Backed(r) ==
    /\ r \in DOMAIN rows
    /\ rows[r].side = "buy" /\ rows[r].kind = "market"
    /\ rows[r].xid \in DOMAIN xord
    /\ xord[rows[r].xid].side = "buy" /\ xord[rows[r].xid].status = "closed"

(* A position of known origin is linked to a buy order that was filled,      *)
(* whoever created it and whatever was written to it since (position.go      *)
(* CreatePosition, UpdatePosition and their callers).                        *)
KnownPositionBacked == pos.st = "known" => Backed(pos.order)

(* What the bot takes for the order of a row is never an order it sent for   *)
(* another row, nor one of its stop orders: it is of the row's side, and     *)
(* carries the row's own client order id or none.  One without may well be   *)
(* an order of the owner, and of any type (helper.go:86-103).                *)
LinkFaithful ==
    \A r \in DOMAIN rows : rows[r].xid # 0 =>
        LET o == xord[rows[r].xid] IN
          /\ o.side = rows[r].side
          /\ IF rows[r].kind = "stop" THEN o.cid = 0 ELSE o.cid \in {r, Unnamed}

(* At most one stop order protects the pair: signalTrackingSellExit looks    *)
(* for one on the exchange before it places another (signal_handler.go:426). *)
OneStop == Cardinality(Live("sell", "stop")) <= 1

(* A pair is disabled only when nothing of it is left to manage              *)
(* (signal_handler.go:114, "no position is active").                         *)
DisabledWhenFlat == pair = "disabled" => hold = 0 /\ Live("buy", "market") = {}
=============================================================================
