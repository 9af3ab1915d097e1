------------------------------ MODULE Backtest ------------------------------
(***************************************************************************)
(* A backtest from an empty database (cmd/server/backtest.go): a file of    *)
(* prices becomes candles, the one worker serves them to the engine one by  *)
(* one and handles every signal against SimulatedClient, and the trade log  *)
(* is written when the candles are used up.  No periodic task runs, nothing *)
(* fails, and orders are filled at once, so a whole handler is one step;    *)
(* what no such run can see is left out, and would end it in a deadlock: a  *)
(* purchase is refused by the last of its checks, costs more than there is, *)
(* or is of less than a lot.                                                *)
(*                                                                         *)
(* abandoned and refused are history variables: some asset was once given   *)
(* up as too little to be a position, and a purchase was once refused for   *)
(* want of budget.  Bounds: the file has at most MaxRows rows, each of      *)
(* which is one of Steps, a price some time after the row before.           *)
(***************************************************************************)
EXTENDS SimulatedClient, FiniteSets

CONSTANTS MaxChange, JumpGap, Tolerance, Staleness, Configs, \* of the engine
          Capitals,    \* initialCapital
          MinBudget,   \* MinExchangeBudget
          Shares,      \* a purchase may take one of them of the capital: 10
          Lot,         \* the amounts of an order are its multiples
          Steps, MaxRows

VARIABLES
    file, load,      \* the rows read so far, and what became of them
    phase,           \* "load", "serve", "handle" or "over"
    index,           \* historyIndex
    capital, client, \* initialCapital and the SimulatedClient
    stored,          \* the row of trading.balances for the cash
    pos,             \* the row of trading.positions
    signal,          \* the signal being handled
    abandoned, refused,
    loading, window, cfg, entries, state, entry, high, ticks, feed \* the engine

engine == <<loading, window, cfg, entries, state, entry, high, ticks, feed>>
input  == <<file, load, capital>>
vars   == <<input, phase, index, client, stored, pos, signal, abandoned, refused, engine>>

ASSUME BacktestAssumption ==
    /\ JumpGap \in 1..Interval /\ MaxChange \in Nat
    /\ Staleness \in Nat /\ Tolerance \in Nat /\ Staleness <= Tolerance /\ Interval <= Tolerance
    /\ Capitals \subseteq Nat /\ MinBudget \in Nat /\ MaxRows \in Nat
    /\ Shares \in Nat \ {0} /\ Lot \in Nat \ {0}
    /\ Steps \subseteq [after : Int, price : Nat]

MaxTicks == MaxRows * (1 + End)   \* more than there are candles
E == INSTANCE Engine WITH Points <- {}

ASSUME BacktestConfigs ==
    Configs \subseteq E!Config /\ \A c \in Configs : c.type # "dummy"

NoPosition == [active |-> FALSE, entry |-> 0, high |-> 0, armed |-> FALSE]
EnteredAt(price) == [active |-> TRUE, entry |-> price, high |-> price, armed |-> FALSE]
Signals == {"SearchingBuyEntry", "Buy", "WaitingBuyFill", "TrackingSellExit", "Sell", "WaitingSellFill"}

(* An engine that has no history to warm up from. *)
Init ==
    /\ file = <<>> /\ load = Fresh /\ phase = "load" /\ index = 0
    /\ capital \in Capitals /\ client = NewClient(capital) /\ stored = client.cash
    /\ pos = NoPosition /\ signal = "SearchingBuyEntry"
    /\ abandoned = FALSE /\ refused = FALSE
    /\ cfg \in {c \in Configs : E!Valid(c)} /\ window = cfg.window
    /\ loading = FALSE /\ entries = <<>> /\ ticks = <<>> /\ feed = 0
    /\ state = "IDLE" /\ entry = 0 /\ high = 0

Unheld(price) == client.crypto * price * 100 <= 95 * MinBudget * Unit
TooLittle(price) == client.crypto * price * 200 < 95 * MinBudget * Unit

(* mutant: the budget is all there is *)
BudgetWhole(balance) == balance

(* EvaluateEntry for the share of the capital a backtest allocates, of a     *)
(* balance that is the stored one in the pre-check.                          *)
Budget(balance) ==
    LET share == (capital * Unit) \div Shares IN IF share > balance THEN balance ELSE share

Allowed(balance) == Budget(balance) >= MinBudget * Unit
ApprovedUnits(balance, price) == (Budget(balance) * 99) \div (100 * price)

FormatOrderAmount(amount) == (amount \div Lot) * Lot
----------------------------------------------------------------------------
ReadRow(step) ==
    LET row == [ts |-> step.after + IF file = <<>> THEN 0 ELSE Last(file).ts, price |-> step.price] IN
    /\ phase = "load" /\ load.st # "unsorted" /\ Len(file) < MaxRows /\ row.ts >= 0
    /\ file' = Append(file, row) /\ load' = Loaded(load, row)
    /\ UNCHANGED <<capital, phase, index, client, stored, pos, signal, abandoned, refused, engine>>

(* Without a single candle the program ends here. *)
StartBacktest ==
    /\ phase = "load" /\ phase' = IF load.hist = <<>> THEN "over" ELSE "serve"
    /\ UNCHANGED <<input, index, client, stored, pos, signal, abandoned, refused, engine>>

SignalOf(before, after) ==
    CASE before = "IDLE" -> IF after = "IDLE" THEN "SearchingBuyEntry" ELSE "Buy"
      [] before = "PENDING_BUY" -> "WaitingBuyFill"
      [] before = "IN_POSITION" -> IF after = before THEN "TrackingSellExit" ELSE "Sell"
      [] before = "PENDING_SELL" -> "WaitingSellFill"

(* GetTicker and GetSignal; a tick the engine refuses has no signal. *)
ServeCandle ==
    LET candle == load.hist[index + 1] IN
    /\ phase = "serve" /\ index < Len(load.hist) /\ index' = index + 1
    /\ client' = Served(client, candle.price)
    /\ E!Tick(candle)
    /\ signal' = SignalOf(state, state')
    /\ phase' = IF ticks' = ticks THEN "serve" ELSE "handle"
    /\ UNCHANGED <<input, stored, pos, abandoned, refused>>

(* GetTicker when the candles are used up: the log is written. *)
EndOfData ==
    /\ phase = "serve" /\ index = Len(load.hist) /\ phase' = "over"
    /\ client' = Closed(client, Last(load.hist))
    /\ UNCHANGED <<input, index, stored, pos, signal, abandoned, refused, engine>>
----------------------------------------------------------------------------
Current == load.hist[index]

Handle(sig) ==
    /\ phase = "handle" /\ signal = sig /\ phase' = "serve"
    /\ UNCHANGED <<input, index, signal>>

SignalSearchingBuyEntry ==
    /\ Handle("SearchingBuyEntry") /\ ~pos.active
    /\ UNCHANGED <<client, stored, pos, abandoned, refused, engine>>

(* A refusal by the pre-check leaves the stored balance as it is.  What is   *)
(* left of an abandoned position can be worth a position again: the handler  *)
(* believes its order was filled and waits for a reconciler.                 *)
SignalBuy ==
    /\ Handle("Buy") /\ ~pos.active
    /\ LET price == Current.price
           units == FormatOrderAmount(ApprovedUnits(client.cash, price))
       IN  \/ /\ ~Allowed(stored) /\ refused' = TRUE /\ E!RetrySignal
              /\ UNCHANGED <<client, stored, pos>>
           \/ /\ Allowed(stored) /\ ~Unheld(price) /\ stored' = client.cash
              /\ UNCHANGED <<client, pos, refused, engine>>
           \/ /\ Allowed(stored) /\ Unheld(price) /\ Allowed(client.cash)
              /\ units > 0 /\ CanBuy(client, units, price)
              /\ client' = Bought(client, units, Current) /\ stored' = client'.cash
              /\ pos' = EnteredAt(price)
              /\ E!SetInPosition(price, price) /\ UNCHANGED refused
    /\ UNCHANGED abandoned

SignalWaitingBuyFill ==
    /\ Handle("WaitingBuyFill") /\ ~pos.active /\ stored' = client.cash
    /\ IF Unheld(Current.price) THEN E!RetrySignal ELSE UNCHANGED engine
    /\ UNCHANGED <<client, pos, abandoned, refused>>

(* A stop order is placed unless one is open already. *)
SignalTrackingSellExit ==
    /\ Handle("TrackingSellExit") /\ pos.active
    /\ pos' = [pos EXCEPT !.armed = TRUE,
                          !.high = IF Current.price > @ THEN Current.price ELSE @]
    /\ client' = IF pos.armed \/ client.open # {} THEN client
                 ELSE StopPlaced(client, pos.entry * (Unit - cfg.stop))
    /\ UNCHANGED <<stored, abandoned, refused, engine>>

(* CancelOrder for a stop order found among the open orders, if any. *)
Freed(c) == IF c.open = {} THEN {c} ELSE {Canceled(c, id) : id \in c.open}

(* mutant: the position is forgotten and the strategy is not reset *)
PositionGoneUnreset == pos' = NoPosition /\ UNCHANGED engine

PositionGone == pos' = NoPosition /\ E!ResetPosition

(* mutant: every sale is left to the stop order *)
LeftToStopAlways(price) == client.open # {} /\ ~TooLittle(price)

(* A sale at or below the entry price is left to the stop order. *)
LeftToStop(price) == client.open # {} /\ price <= pos.entry /\ ~TooLittle(price)

(* What is sold is the balance less what is no lot, and the cash it brings   *)
(* is not fetched.                                                           *)
SignalSell ==
    LET price == Current.price IN
    /\ Handle("Sell") /\ pos.active /\ stored' = client.cash
    /\ \/ LeftToStop(price) /\ UNCHANGED <<client, pos, abandoned, engine>>
       \/ /\ ~LeftToStop(price) /\ TooLittle(price) /\ PositionGone
          /\ client' \in Freed(client) /\ abandoned' = TRUE
       \/ /\ ~LeftToStop(price) /\ ~TooLittle(price) /\ PositionGone
          /\ \E c \in Freed(client) : client' = Sold(c, FormatOrderAmount(c.crypto), Current, cfg.type)
          /\ UNCHANGED abandoned
    /\ UNCHANGED refused

SignalWaitingSellFill ==
    /\ Handle("WaitingSellFill") /\ pos.active /\ stored' = client.cash
    /\ \/ /\ TooLittle(Current.price) /\ PositionGone
          /\ abandoned' = TRUE /\ UNCHANGED client
       \/ /\ ~TooLittle(Current.price) /\ E!RetrySignal
          /\ client' \in Freed(client) /\ UNCHANGED <<pos, abandoned>>
    /\ UNCHANGED refused

Exited == phase = "over" /\ UNCHANGED vars

Next ==
    \/ \E step \in Steps : ReadRow(step)
    \/ StartBacktest \/ ServeCandle \/ EndOfData
    \/ SignalSearchingBuyEntry \/ SignalBuy \/ SignalWaitingBuyFill
    \/ SignalTrackingSellExit \/ SignalSell \/ SignalWaitingSellFill
    \/ Exited

Spec == Init /\ [][Next]_vars
----------------------------------------------------------------------------
(* Type invariant; no balance is ever negative, the stored one is never more *)
(* than what there is, and the candles are in the order of time             *)
(* (simulated_client.go:554, "price file not sorted").                       *)
TypeOK ==
    /\ phase \in {"load", "serve", "handle", "over"} /\ signal \in Signals
    /\ index \in 0..Len(load.hist) /\ abandoned \in BOOLEAN /\ refused \in BOOLEAN
    /\ load \in Loading
    /\ client.cash \in Nat /\ stored \in 0..client.cash /\ client.crypto \in Nat
    /\ client.open \subseteq Nat /\ client.counter \in Nat /\ client.tc \in Nat
    /\ \A k \in 2..Len(load.hist) : load.hist[k - 1].ts <= load.hist[k].ts

(* No two candles are two intervals apart: wherever rows of the file are     *)
(* missing or skipped, candles in between stand in for them, or the engine   *)
(* would find every lookback stale (simulated_client.go:572).                *)
GapsFilled ==
    \A k \in 2..Len(load.hist) : load.hist[k].ts - load.hist[k - 1].ts < 2 * Interval

(* "only the stop order in simulation" (simulated_client.go:334): an order   *)
(* that is open at the exchange is the pending one, so that a handler that   *)
(* looks for the stop order cannot find one that nothing triggers.           *)
OnlyStopOpen == client.open = {client.stop.id} \ {0}

(* The candles of the price files of the repository, whose rows are whole    *)
(* intervals apart.  Of two candles at almost the same time the engine can   *)
(* refuse the second as a jump, and after a longer gap it can miss a lookback. *)
Regular ==
    \A k \in 2..Len(load.hist) : load.hist[k].ts - load.hist[k - 1].ts = Interval

(* A lot of the asset is never worth a position: neither is what is left     *)
(* when everything but that is sold.                                         *)
LotWorthless == \A k \in DOMAIN load.hist : Lot * load.hist[k].price * 100 <= 95 * MinBudget * Unit

(* Between two ticks the engine, the position, the trade that is not         *)
(* finished and the asset held tell the same story, unless some asset was    *)
(* once given up: of a position that was sold less than a lot is left.       *)
Agreed ==
    phase = "serve" /\ ~abandoned /\ LotWorthless =>
        /\ state # "PENDING_BUY" /\ pos.active = (state \in E!Holding)
        /\ pos.active = TradeOpen(client)
        /\ IF pos.active THEN pos.entry = entry /\ entry = client.trades[client.tc].buy
                         ELSE client.crypto < Lot

(* A protected position keeps its stop order from tick to tick: GetTicker    *)
(* cancels it only for the sale of the same tick (simulated_client.go:150,   *)
(* signal_handler.go:524).  A trailing stop below the entry price breaks it, *)
(* see README.                                                               *)
StopKept ==
    phase = "serve" /\ cfg.type = "profit" /\ pos.armed /\ Regular => client.stop.id # 0

(* The trades of the log follow one another, each from a candle to one that  *)
(* is not earlier and at the prices of both, whatever exits were put off and *)
(* whatever asset was given up: its trade is written over by the next.       *)
LogFaithful ==
    LET PricesAt(ts) == {load.hist[k].price : k \in {j \in DOMAIN load.hist : load.hist[j].ts = ts}}
    IN  phase = "over" =>
        /\ Len(client.trades) = client.tc - 1
        /\ \A k \in DOMAIN client.trades :
               LET t == client.trades[k] IN
               /\ t.entry <= t.exit /\ t.reason # ""
               /\ t.buy \in PricesAt(t.entry) /\ t.sell \in PricesAt(t.exit)
               /\ k > 1 => client.trades[k - 1].exit <= t.entry

(* "In simulation mode, we use a fraction of the initial USDT budget"        *)
(* (signal_handler.go:47), whatever is left of it: none of the first Shares   *)
(* purchases is refused, though every trade may lose all it took and what it  *)
(* returned is not in the stored balance, as long as that fraction is a       *)
(* budget the risk manager allows.                                           *)
FundsLast ==
    refused /\ ~abandoned /\ capital >= Shares * MinBudget => Len(client.trades) >= Shares

(* The files of the repository are in the order of time; only one that is    *)
(* not can have a row of the period after one from beyond it, where the      *)
(* client stops reading ("Since the file must be sorted, we can stop here",  *)
(* simulated_client.go:549) and the simulator goes on.                       *)
StopsOnce == \A i, j \in DOMAIN file : i < j /\ file[i].ts > End => file[j].ts > End

(* The target covers what both trades are taxed: the client names the reason *)
(* of a sale by its result, and calls one at a lower target a stop_loss.     *)
PaysTaxes(c) == (Unit + c.target) * (Unit - Tax) >= Unit * (Unit + Tax)

(* "The simulator output should be compared against the go-bot backtest to   *)
(* validate that both implementations produce identical results"             *)
(* (src/simulator/README.md:107): the independent simulator makes the same   *)
(* candles of the file and the same trades of the candles, which it buys     *)
(* with no budget and sells to the last unit.                                *)
Ref == INSTANCE Simulator
Parity ==
    /\ StopsOnce => load.hist = Ref!LoadPriceHistory(file)
    /\ phase = "over" /\ cfg.type = "profit" /\ PaysTaxes(cfg) /\ Regular /\ LotWorthless
       /\ ~abandoned /\ ~refused => client.trades = Ref!RunSimulation(load.hist, cfg)
=============================================================================
