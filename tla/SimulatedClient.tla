--------------------------- MODULE SimulatedClient ---------------------------
(***************************************************************************)
(* The exchange of a backtest (simulated_client.go): the candles it makes  *)
(* of a file of prices, and what each call does to its books.  A row of    *)
(* the file is a time and a closing price, 0 for a price that cannot be    *)
(* read or is not positive.  Amounts of the asset and of cash are counted  *)
(* in units of 1 / Unit, prices are natural numbers and those between two  *)
(* rows rounded down.                                                      *)
(***************************************************************************)
EXTENDS Integers, Sequences

CONSTANTS Unit,      \* 100 %
          Interval,  \* artificialInterval
          MaxRatio,  \* maxPriceJumpRatio
          Tax,       \* exchangeTaxRate
          Begin, End \* the period

ASSUME ClientAssumption ==
    /\ Unit \in Nat \ {0} /\ Interval \in Nat \ {0} /\ MaxRatio \in Nat
    /\ Tax \in 0..Unit /\ Begin \in Nat \ {0} /\ End \in Nat

Row    == [ts : Nat, price : Nat]
Candle == [ts : Nat \ {0}, price : Nat \ {0}]
Last(s) == s[Len(s)]

(* What loadPriceHistory has made of the rows it has read. *)
Loading == [hist : Seq(Candle), st : {"open", "ended", "unsorted"}]
Fresh == [hist |-> <<>>, st |-> "open"]

(* mutant: one candle too few *)
ArtificialShort(p, q) ==
    LET gap == q.ts - p.ts
        n   == gap \div Interval
    IN  IF gap <= Interval THEN <<>>
        ELSE [j \in 1..n - 2 |-> [ts    |-> p.ts + j * Interval,
                                  price |-> p.price + (j * (q.price - p.price)) \div n]]

(* The candles between two rows that are more than one interval apart. *)
Artificial(p, q) ==
    LET gap == q.ts - p.ts
        n   == gap \div Interval
    IN  IF gap <= Interval THEN <<>>
        ELSE [j \in 1..n - 1 |-> [ts    |-> p.ts + j * Interval,
                                  price |-> p.price + (j * (q.price - p.price)) \div n]]

JumpsFrom(p, q) ==
    q.price - p.price > MaxRatio * p.price \/ p.price - q.price > MaxRatio * p.price

Joined(h, row) == IF h = <<>> THEN <<row>> ELSE h \o Artificial(Last(h), row) \o <<row>>

(* mutant: a row that was skipped still counts as the previous one *)
LoadedBlind(l, row) ==
    IF l.st # "open" \/ row.ts < Begin THEN l
    ELSE IF row.ts > End THEN [l EXCEPT !.st = "ended"]
    ELSE IF row.price = 0 THEN l
    ELSE [l EXCEPT !.hist = Joined(@, row)]

(* One row of the loop of loadPriceHistory; the previous row that counted   *)
(* is the last candle so far.                                               *)
Loaded(l, row) ==
    LET first == l.hist = <<>> IN
    IF l.st # "open" \/ row.ts < Begin THEN l
    ELSE IF row.ts > End THEN [l EXCEPT !.st = "ended"]
    ELSE IF row.price = 0 THEN l
    ELSE IF ~first /\ row.ts < Last(l.hist).ts THEN [hist |-> <<>>, st |-> "unsorted"]
    ELSE IF ~first /\ JumpsFrom(Last(l.hist), row) THEN l
    ELSE [l EXCEPT !.hist = Joined(@, row)]
------------------------------------------------------------------------------
(* The client.  open holds the orders with status open; stop is the pending  *)
(* stop order, its price in units of 1 / Unit; trades[tc] is the trade that  *)
(* is not finished yet, if there is one.                                     *)
Reasons == {"", "stop_loss", "profit_target", "trailing_stop", "end_of_data"}
Trade == [entry : Nat, buy : Nat, exit : Nat, sell : Nat, reason : Reasons]
NoStop == [id |-> 0, price |-> 0]
NewClient(capital) ==
    [cash |-> capital * Unit, crypto |-> 0, open |-> {}, counter |-> 1, stop |-> NoStop,
     trades |-> <<>>, tc |-> 1]

TradeOpen(c) == c.tc \in DOMAIN c.trades

(* mutant: the pending stop order is left *)
CanceledHalf(c, id) == [c EXCEPT !.open = @ \ {id}]

(* CancelOrder. *)
Canceled(c, id) ==
    [c EXCEPT !.open = @ \ {id}, !.stop = IF @.id = id THEN NoStop ELSE @]

(* mutant: a price equal to the stop price does not trigger it *)
ServedAbove(c, price) ==
    IF c.stop.id # 0 /\ price * Unit < c.stop.price THEN Canceled(c, c.stop.id) ELSE c

(* GetTicker: the price served triggers the pending stop order, which is    *)
(* canceled and sells nothing.                                              *)
Served(c, price) ==
    IF c.stop.id # 0 /\ price * Unit <= c.stop.price THEN Canceled(c, c.stop.id) ELSE c

CanBuy(c, amount, price)  == amount * price <= c.cash
CanSell(c, amount) == amount <= c.crypto

(* CreateOrder, a buy: filled at once, its fee kept back in the asset. *)
Bought(c, amount, candle) ==
    [c EXCEPT !.cash = @ - amount * candle.price, !.crypto = @ + amount - (amount * Tax) \div Unit,
              !.counter = @ + 1,
              !.trades = SubSeq(@, 1, c.tc - 1) \o
                  <<[entry |-> candle.ts, buy |-> candle.price, exit |-> 0, sell |-> 0, reason |-> ""]>>]

(* PnLPct is negative. *)
Loses(buy, sell) == sell * (Unit - Tax) < buy * (Unit + Tax)

(* mutant: the counter stays *)
FinishedUncounted(c, candle, reason) ==
    [c EXCEPT !.trades[c.tc] = [@ EXCEPT !.exit = candle.ts, !.sell = candle.price, !.reason = reason]]

(* The exit of the trade that is not finished. *)
Finished(c, candle, reason) ==
    [c EXCEPT !.trades[c.tc] = [@ EXCEPT !.exit = candle.ts, !.sell = candle.price, !.reason = reason],
              !.tc = @ + 1]

(* CreateOrder, a sell, for a strategy of the given type. *)
Sold(c, amount, candle, type) ==
    LET reason == IF Loses(c.trades[c.tc].buy, candle.price) THEN "stop_loss"
                  ELSE IF type = "profit" THEN "profit_target" ELSE "trailing_stop"
    IN  Finished([c EXCEPT !.crypto = @ - amount,
                           !.cash = @ + amount * candle.price - (amount * candle.price * Tax) \div Unit,
                           !.counter = @ + 1], candle, reason)

(* CreateStopOrder: the pending stop order is replaced, not canceled. *)
StopPlaced(c, price) ==
    [c EXCEPT !.open = @ \cup {c.counter}, !.stop = [id |-> c.counter, price |-> price],
              !.counter = @ + 1]

(* Close: a trade that is not finished ends with the data. *)
Closed(c, candle) == IF TradeOpen(c) THEN Finished(c, candle, "end_of_data") ELSE c
==============================================================================
