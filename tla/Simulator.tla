------------------------------ MODULE Simulator ------------------------------
(***************************************************************************)
(* The independent simulator of the strategy (src/simulator/src/simulator. *)
(* cpp), whose trade log a backtest must reproduce: how it reads a file of *)
(* prices, and RunSimulation, the loop over all of them.                   *)
(***************************************************************************)
EXTENDS Integers, Sequences, FiniteSetsExt

CONSTANTS Unit, Interval, MaxRatio, Tax, Begin, End,
          Staleness   \* kMaxLookbackStaleness

(* LoadPriceHistory, one line; a line out of order empties the history. *)
Between(p, q) ==
    LET steps == (q.ts - p.ts) \div Interval
    IN  [j \in 1..steps - 1 |-> [ts    |-> p.ts + j * Interval,
                                 price |-> p.price + (j * (q.price - p.price)) \div steps]]

Unbelievable(p, q) == (q.price - p.price) \notin (-MaxRatio * p.price)..(MaxRatio * p.price)

ReadLine(l, row) ==
    IF l.failed \/ row.ts \notin Begin..End \/ row.price = 0 THEN l
    ELSE IF l.history = <<>> THEN [l EXCEPT !.history = <<row>>]
    ELSE LET prev == l.history[Len(l.history)] IN
         IF row.ts < prev.ts THEN [history |-> <<>>, failed |-> TRUE]
         ELSE IF Unbelievable(prev, row) THEN l
         ELSE [l EXCEPT !.history = @ \o Between(prev, row) \o <<row>>]

(* Its loop: what is read of the first n lines. *)
Read(file) ==
    LET read[n \in 0..Len(file)] ==
            IF n = 0 THEN [history |-> <<>>, failed |-> FALSE] ELSE ReadLine(read[n - 1], file[n])
    IN  read

LoadPriceHistory(file) == Read(file)[Len(file)].history
------------------------------------------------------------------------------
(* PriceSecondsAgo: the last tick up to index that is old enough, 0 when    *)
(* there is none or it is stale.                                            *)
PriceSecondsAgo(history, index, ago) ==
    LET target == history[index].ts - ago
        old    == {k \in 1..index : history[k].ts <= target}
    IN  IF old = {} THEN 0
        ELSE LET best == history[Max(old)]
             IN  IF target - best.ts > Staleness THEN 0 ELSE best.price

MomentumEntryTriggered(history, index, cfg) ==
    LET Met(m) == LET past == PriceSecondsAgo(history, index, m.lookback)
                  IN  past > 0 /\ (history[index].price - past) * Unit >= m.threshold * past
    IN  /\ history[index].ts - history[1].ts >= cfg.window
        /\ IF cfg.all THEN \A m \in cfg.momentum : Met(m) ELSE \E m \in cfg.momentum : Met(m)

(* ExitTriggered, by its reason; "" when it is not. *)
ExitReason(cfg, price, ent, high) ==
    LET loss == IF price * Unit <= ent * (Unit - cfg.stop) THEN "stop_loss" ELSE ""
    IN  IF cfg.type = "profit"
        THEN IF loss = "" /\ price * Unit >= ent * (Unit + cfg.target) THEN "profit_target" ELSE loss
        ELSE IF (high - ent) * Unit >= cfg.activation * ent
             THEN IF price * Unit <= high * (Unit - cfg.trail) THEN "trailing_stop" ELSE ""
             ELSE loss

(* One pass of the loop of RunSimulation; s.at = 0 while it searches. *)
Pass(s, index, history, cfg) ==
    LET price == history[index].price
        high  == IF price > s.high THEN price ELSE s.high
        why   == ExitReason(cfg, price, s.entry, high)
    IN  IF s.at = 0
        THEN IF MomentumEntryTriggered(history, index, cfg)
             THEN [s EXCEPT !.at = history[index].ts, !.entry = price, !.high = price] ELSE s
        ELSE IF why = "" THEN [s EXCEPT !.high = high]
        ELSE [at |-> 0, entry |-> 0, high |-> 0,
              trades |-> Append(s.trades, [entry |-> s.at, buy |-> s.entry, exit |-> history[index].ts,
                                           sell |-> price, reason |-> why])]

(* The loop: how it stands after the first n ticks. *)
Searching == [at |-> 0, entry |-> 0, high |-> 0, trades |-> <<>>]
Loop(history, cfg) ==
    LET loop[n \in 0..Len(history)] ==
            IF n = 0 THEN Searching ELSE Pass(loop[n - 1], n, history, cfg)
    IN  loop

(* RunSimulation: a position still open is closed at the last price.        *)
RunSimulation(history, cfg) ==
    LET end  == Loop(history, cfg)[Len(history)]
        last == history[Len(history)]
    IN  IF end.at = 0 THEN end.trades
        ELSE Append(end.trades, [entry |-> end.at, buy |-> end.entry, exit |-> last.ts,
                                 sell |-> last.price, reason |-> "end_of_data"])
==============================================================================
