--------------------------- MODULE BacktestProofs ---------------------------
(***************************************************************************)
(* Theorems of the backtest, for any file of prices, period, interval, tax, *)
(* capital and strategies.                                                  *)
(***************************************************************************)
EXTENDS Backtest, SequenceTheorems, WellFoundedInduction, TLAPS

(* The candles are in the order of time and less than two intervals apart. *)
Spaced(h) ==
    /\ h \in Seq(Candle)
    /\ \A k \in 2..Len(h) : /\ h[k - 1].ts <= h[k].ts
                            /\ h[k].ts - h[k - 1].ts < 2 * Interval

LoadInv == load \in Loading /\ Spaced(load.hist)
----------------------------------------------------------------------------
LEMMA LessThan == \A a, b \in Nat : a < b => <<a, b>> \in OpToRel(<, Nat)
BY Z3 DEF OpToRel

(* A set of positions has a least one. *)
LEMMA Least ==
    ASSUME NEW S \in SUBSET Nat, S # {}
    PROVE  E!Min(S) \in S /\ \A y \in S : E!Min(S) <= y
<1>1. PICK x \in S : \A y \in S : ~(<<y, x>> \in OpToRel(<, Nat))
  BY NatLessThanWellFounded, WFMin
<1>2. ASSUME NEW y \in S PROVE x <= y
  <2>1. x \in Nat /\ y \in Nat
    OBVIOUS
  <2>2. ~(y < x)
    BY <1>1, <2>1, LessThan
  <2>3. QED
    BY <2>1, <2>2
<1>3. QED
  BY <1>2 DEF E!Min

(* What is charged, and what a step between two prices comes to. *)
LEMMA WholeIntervals ==
    ASSUME NEW g \in Nat
    PROVE  LET n == g \div Interval IN n \in Nat /\ n * Interval <= g /\ g < n * Interval + Interval
BY ClientAssumption, SMT

LEMMA Multiples ==
    ASSUME NEW j \in Nat
    PROVE  j * Interval \in Nat /\ (j + 1) * Interval = j * Interval + Interval
           /\ (j >= 1 => (j - 1) * Interval = j * Interval - Interval)
BY ClientAssumption, SMT

LEMMA PriceBetween ==
    ASSUME NEW p \in Nat \ {0}, NEW q \in Nat \ {0}, NEW n \in Nat, NEW j \in 1..n - 1
    PROVE  p + (j * (q - p)) \div n \in Nat \ {0}
BY SMT

LEMMA FeeCovered == ASSUME NEW x \in Nat PROVE (x * Tax) \div Unit \in 0..x
BY ClientAssumption, SMT

(* The candles between two rows, and how far apart they are. *)
LEMMA ArtificialIs ==
    ASSUME NEW p \in Candle, NEW q \in Candle, p.ts <= q.ts
    PROVE  LET a == Artificial(p, q) IN
           /\ a \in Seq(Candle)
           /\ \A j \in 1..Len(a) : a[j].ts = p.ts + j * Interval
           /\ q.ts - p.ts - Len(a) * Interval \in 0..2 * Interval - 1
<1> DEFINE gap == q.ts - p.ts
           n   == gap \div Interval
           c(j) == [ts |-> p.ts + j * Interval, price |-> p.price + (j * (q.price - p.price)) \div n]
<1>1. p.ts \in Nat \ {0} /\ q.ts \in Nat /\ p.price \in Nat \ {0} /\ q.price \in Nat \ {0} /\ gap \in Nat
  BY DEF Candle
<1>2. n \in Nat /\ n * Interval <= gap /\ gap < n * Interval + Interval
  BY <1>1, WholeIntervals
<1> HIDE DEF gap, n
<1>3. CASE gap <= Interval
  <2>1. Artificial(p, q) = <<>>
    BY <1>3 DEF Artificial, gap
  <2>2. gap - 0 * Interval \in 0..2 * Interval - 1
    BY <1>1, <1>3, ClientAssumption, SMT
  <2>3. QED
    BY <2>1, <2>2 DEF gap
<1>4. CASE ~(gap <= Interval)
  <2>1. n >= 1
    <3>1. CASE n = 0
      BY <3>1, <1>1, <1>2, <1>4, ClientAssumption, SMT
    <3>2. QED
      BY <3>1, <1>2
  <2>2. Artificial(p, q) = [j \in 1..n - 1 |-> c(j)]
    BY <1>4 DEF Artificial, gap, n
  <2>3. \A j \in 1..n - 1 : c(j) \in Candle
    <3>1. TAKE j \in 1..n - 1
    <3>2. p.price + (j * (q.price - p.price)) \div n \in Nat \ {0}
      BY <1>1, <1>2, PriceBetween
    <3>3. p.ts + j * Interval \in Nat \ {0}
      BY <1>1, <1>2, Multiples
    <3>4. QED
      BY <3>2, <3>3 DEF Candle
  <2> HIDE DEF c
  <2>4. [j \in 1..n - 1 |-> c(j)] \in Seq(Candle) /\ Len([j \in 1..n - 1 |-> c(j)]) = n - 1
    BY <2>1, <2>3, <1>2
  <2>5. (n - 1) * Interval = n * Interval - Interval
    BY <2>1, <1>2, Multiples
  <2>6. gap - (n - 1) * Interval \in 0..2 * Interval - 1
    BY <2>5, <1>1, <1>2, Multiples, ClientAssumption
  <2>7. \A j \in 1..n - 1 : c(j).ts = p.ts + j * Interval
    BY DEF c
  <2>8. QED
    BY <2>2, <2>4, <2>6, <2>7 DEF gap
<1>5. QED
  BY <1>3, <1>4

(* The next row that counts. *)
LEMMA JoinedSpaced ==
    ASSUME NEW h, Spaced(h), NEW row \in Candle, h # <<>> => Last(h).ts <= row.ts
    PROVE  Spaced(Joined(h, row)) /\ Joined(h, row) # <<>>
<1>1. h \in Seq(Candle) /\ Len(h) \in Nat
  BY DEF Spaced
<1>2. CASE h = <<>>
  <2>1. Joined(h, row) = <<row>>
    BY <1>2 DEF Joined
  <2>2. <<row>> \in Seq(Candle) /\ Len(<<row>>) = 1 /\ <<row>> # <<>>
    OBVIOUS
  <2>3. QED
    BY <2>1, <2>2 DEF Spaced
<1>3. CASE h # <<>>
  <2> DEFINE p == Last(h)
             a == Artificial(p, row)
             new == Joined(h, row)
  <2>1. Len(h) >= 1 /\ p = h[Len(h)] /\ p \in Candle
    BY <1>1, <1>3, EmptySeq DEF Last
  <2>2. /\ a \in Seq(Candle) /\ Len(a) \in Nat
        /\ \A j \in 1..Len(a) : a[j].ts = p.ts + j * Interval
        /\ row.ts - p.ts - Len(a) * Interval \in 0..2 * Interval - 1
    BY <2>1, <1>3, ArtificialIs
  <2> HIDE DEF a, p
  <2>3. /\ new \in Seq(Candle) /\ Len(new) = Len(h) + Len(a) + 1
        /\ \A k \in 1..Len(h) : new[k] = h[k]
        /\ \A j \in 1..Len(a) : new[Len(h) + j] = a[j]
        /\ new[Len(h) + Len(a) + 1] = row
    <3>1. new = h \o a \o <<row>>
      BY <1>3 DEF Joined, a, p
    <3>2. h \o a \in Seq(Candle) /\ Len(h \o a) = Len(h) + Len(a)
          /\ \A k \in 1..Len(h) : (h \o a)[k] = h[k]
          /\ \A j \in 1..Len(a) : (h \o a)[Len(h) + j] = a[j]
      BY <1>1, <2>2, ConcatProperties
    <3> DEFINE ha == h \o a
    <3> HIDE DEF ha
    <3>3. ha \in Seq(Candle) /\ Len(ha) = Len(h) + Len(a)
      BY <3>2 DEF ha
    <3>4. /\ new \in Seq(Candle) /\ Len(new) = Len(ha) + 1
          /\ \A k \in 1..Len(ha) : new[k] = ha[k]
          /\ new[Len(ha) + 1] = row
      <4>1. new = ha \o <<row>>
        BY <3>1 DEF ha
      <4> HIDE DEF new
      <4>2. Append(ha, row) = ha \o <<row>>
        BY <3>3, AppendIsConcat, Zenon
      <4>3. new = Append(ha, row)
        BY <4>1, <4>2, Zenon
      <4>4. QED
        BY <3>3, <4>3, AppendProperties
    <3>5. /\ \A k \in 1..Len(h) : ha[k] = h[k]
          /\ \A j \in 1..Len(a) : ha[Len(h) + j] = a[j]
      BY <3>2 DEF ha
    <3> HIDE DEF new
    <3>6. Len(new) = Len(h) + Len(a) + 1 /\ new[Len(h) + Len(a) + 1] = row
      BY <3>3, <3>4
    <3>7. ASSUME NEW k \in 1..Len(h) PROVE new[k] = h[k]
      <4>1. k \in 1..Len(ha)
        BY <3>3, <1>1, <2>2
      <4>2. QED
        BY <4>1, <3>4, <3>5
    <3>8. ASSUME NEW j \in 1..Len(a) PROVE new[Len(h) + j] = a[j]
      <4>1. Len(h) + j \in 1..Len(ha)
        BY <3>3, <1>1, <2>2
      <4>2. QED
        BY <4>1, <3>4, <3>5
    <3>9. QED
      BY <3>4, <3>6, <3>7, <3>8
  <2> HIDE DEF new
  <2>4. \A k \in 1..Len(h) : h[k].ts \in Nat
    <3>1. \A k \in 1..Len(h) : h[k] \in Candle
      BY <1>1
    <3>2. \A c \in Candle : c.ts \in Nat
      BY DEF Candle
    <3>3. QED
      BY <3>1, <3>2
  <2>5. p.ts \in Nat /\ row.ts \in Nat
    BY <2>1 DEF Candle
  <2> DEFINE Ok(k) == new[k - 1].ts <= new[k].ts /\ new[k].ts - new[k - 1].ts < 2 * Interval
  <2>6. ASSUME NEW k \in 2..Len(new) PROVE Ok(k)
    <3>1. CASE k <= Len(h)
      <4>1. k \in 2..Len(h) /\ k \in 1..Len(h) /\ k - 1 \in 1..Len(h)
        BY <3>1, <1>1
      <4>2. QED
        BY <4>1, <2>3 DEF Spaced
    <3>2. CASE k > Len(h) /\ k <= Len(h) + Len(a)
      <4>1. PICK j \in 1..Len(a) : k = Len(h) + j
        <5>1. k - Len(h) \in 1..Len(a) /\ k = Len(h) + (k - Len(h))
          BY <3>2, <1>1, <2>2
        <5>2. QED
          BY <5>1
      <4>2. new[k].ts = p.ts + j * Interval
        BY <4>1, <2>2, <2>3
      <4>3. new[k - 1].ts = p.ts + (j - 1) * Interval
        <5>1. CASE j = 1
          <6>1. k - 1 = Len(h) /\ Len(h) \in 1..Len(h)
            BY <5>1, <4>1, <1>1, <2>1
          <6>2. (j - 1) * Interval = 0
            BY <5>1, ClientAssumption
          <6>3. QED
            BY <6>1, <6>2, <2>1, <2>3, <2>5
        <5>2. CASE j # 1
          <6>1. j - 1 \in 1..Len(a) /\ k - 1 = Len(h) + (j - 1)
            BY <5>2, <4>1, <1>1, <2>2
          <6>2. QED
            BY <6>1, <2>2, <2>3
        <5>3. QED
          BY <5>1, <5>2
      <4>4. j \in Nat /\ j * Interval \in Nat /\ (j - 1) * Interval = j * Interval - Interval
        BY <4>1, <2>2, Multiples
      <4>5. QED
        BY <4>2, <4>3, <4>4, <2>5, ClientAssumption
    <3>3. CASE k = Len(h) + Len(a) + 1
      <4>1. new[k] = row
        BY <3>3, <2>3
      <4>2. new[k - 1].ts = p.ts + Len(a) * Interval
        <5>1. CASE Len(a) = 0
          <6>1. k - 1 = Len(h) /\ Len(h) \in 1..Len(h) /\ 0 * Interval = 0
            BY <5>1, <3>3, <1>1, <2>1, ClientAssumption
          <6>2. QED
            BY <6>1, <5>1, <2>1, <2>3, <2>5
        <5>2. CASE Len(a) # 0
          <6>1. Len(a) \in 1..Len(a) /\ k - 1 = Len(h) + Len(a)
            BY <5>2, <3>3, <1>1, <2>2
          <6>2. new[k - 1] = a[Len(a)]
            BY <6>1, <2>3
          <6>3. a[Len(a)].ts = p.ts + Len(a) * Interval
            BY <6>1, <2>2
          <6>4. QED
            BY <6>2, <6>3
        <5>3. QED
          BY <5>1, <5>2
      <4>3. Len(a) * Interval \in Nat
        BY <2>2, Multiples
      <4>4. QED
        BY <4>1, <4>2, <4>3, <2>2, <2>5, ClientAssumption
    <3>4. QED
      BY <3>1, <3>2, <3>3, <2>3, <1>1, <2>2
  <2>7. new # <<>>
    BY <2>3, <1>1, <2>2
  <2>8. QED
    BY <2>3, <2>6, <2>7 DEF Spaced, new
<1>4. QED
  BY <1>2, <1>3

LEMMA LoadedKept ==
    ASSUME LoadInv, NEW row \in Row
    PROVE  LET l == Loaded(load, row) IN l \in Loading /\ Spaced(l.hist)
<1>1. Spaced(<<>>)
  BY DEF Spaced
<1>2. load.hist \in Seq(Candle)
  BY DEF LoadInv, Spaced
<1>3. CASE Loaded(load, row) = [load EXCEPT !.hist = Joined(@, row)] /\ ~(row.ts < Begin) /\ row.price # 0
           /\ (load.hist # <<>> => ~(row.ts < Last(load.hist).ts))
  <2>1. row \in Candle
    BY <1>3, ClientAssumption DEF Row, Candle
  <2>2. load.hist # <<>> => Last(load.hist) \in Candle
    BY <1>2, EmptySeq DEF Last
  <2>3. load.hist # <<>> => Last(load.hist).ts <= row.ts
    BY <1>3, <2>1, <2>2 DEF Candle
  <2>4. Spaced(Joined(load.hist, row))
    BY <2>1, <2>3, JoinedSpaced DEF LoadInv
  <2>5. Joined(load.hist, row) \in Seq(Candle)
    BY <2>4 DEF Spaced
  <2>6. QED
    BY <1>3, <2>4, <2>5 DEF LoadInv, Loading
<1>4. CASE Loaded(load, row) \in {load, [load EXCEPT !.st = "ended"], [hist |-> <<>>, st |-> "unsorted"]}
  <2>1. load \in Loading /\ Spaced(load.hist)
    BY DEF LoadInv
  <2>2. LET l == [load EXCEPT !.st = "ended"] IN l \in Loading /\ l.hist = load.hist
    BY <2>1 DEF Loading
  <2>3. LET l == [hist |-> <<>>, st |-> "unsorted"] IN l \in Loading /\ l.hist = <<>>
    <3>1. <<>> \in Seq(Candle)
      OBVIOUS
    <3>2. QED
      BY <3>1 DEF Loading
  <2>4. QED
    BY <1>1, <1>4, <2>1, <2>2, <2>3
<1>5. QED
  BY <1>3, <1>4 DEF Loaded
----------------------------------------------------------------------------
(* What the calls do to the books, whatever they find in them. *)
Books(c) ==
    /\ DOMAIN c = {"cash", "crypto", "open", "counter", "stop", "trades", "tc"}
    /\ c.cash \in Nat /\ c.crypto \in Nat
    /\ c.counter \in Nat \ {0} /\ c.tc \in Nat \ {0}
    /\ c.trades \in Seq(Trade) /\ Len(c.trades) \in {c.tc - 1, c.tc}
    /\ DOMAIN c.stop = {"id", "price"} /\ c.stop.id \in Nat
    /\ c.open = {c.stop.id} \ {0}

(* All but the orders. *)
SameAccounts(c, d) == d.cash = c.cash /\ d.crypto = c.crypto /\ d.trades = c.trades /\ d.tc = c.tc

LEMMA CanceledIs ==
    ASSUME NEW c, Books(c), NEW id
    PROVE  LET d == Canceled(c, id) IN
           /\ Books(d) /\ SameAccounts(c, d)
           /\ IF id = c.stop.id THEN d.stop = NoStop ELSE d.stop = c.stop
<1> DEFINE d == Canceled(c, id)
<1>1. /\ d.cash = c.cash /\ d.crypto = c.crypto /\ d.trades = c.trades /\ d.tc = c.tc
      /\ d.counter = c.counter /\ d.open = c.open \ {id}
      /\ d.stop = IF c.stop.id = id THEN NoStop ELSE c.stop
      /\ DOMAIN d = DOMAIN c
  BY DEF Canceled, Books
<1> HIDE DEF d
<1>2. CASE c.stop.id = id
  <2>1. d.stop = NoStop /\ d.open = {} /\ d.stop.id = 0 /\ DOMAIN d.stop = {"id", "price"}
    BY <1>1, <1>2 DEF Books, NoStop
  <2>2. QED
    BY <1>1, <1>2, <2>1 DEF Books, SameAccounts, d
<1>3. CASE c.stop.id # id
  <2>1. d.open = c.open
    BY <1>1, <1>3 DEF Books
  <2>2. QED
    BY <1>1, <1>3, <2>1 DEF Books, SameAccounts, d
<1>4. QED
  BY <1>2, <1>3

(* After it no order is open, or the stop order was not reached. *)
LEMMA ServedIs ==
    ASSUME NEW c, Books(c), NEW price
    PROVE  LET d == Served(c, price) IN
           /\ Books(d) /\ SameAccounts(c, d)
           /\ d.open = {} \/ (d.stop = c.stop /\ ~(price * Unit <= c.stop.price))
           /\ d.stop = c.stop \/ (d.open = {} /\ price * Unit <= c.stop.price)
<1>1. Books(Canceled(c, c.stop.id)) /\ SameAccounts(c, Canceled(c, c.stop.id))
      /\ Canceled(c, c.stop.id).stop = NoStop
  BY CanceledIs
<1>2. Canceled(c, c.stop.id).open = {}
  BY <1>1 DEF Books, NoStop
<1>3. Books(c) /\ SameAccounts(c, c) /\ (c.stop.id = 0 => c.open = {})
  BY DEF SameAccounts, Books
<1>4. QED
  BY <1>1, <1>2, <1>3 DEF Served

LEMMA BoughtIs ==
    ASSUME NEW c, Books(c), NEW amount \in Nat, NEW candle \in Candle, CanBuy(c, amount, candle.price)
    PROVE  LET d == Bought(c, amount, candle) IN
           /\ Books(d) /\ d.open = c.open /\ d.stop = c.stop /\ d.tc = c.tc
           /\ TradeOpen(d) /\ d.trades[d.tc].buy = candle.price
<1> DEFINE d == Bought(c, amount, candle)
           t == [entry |-> candle.ts, buy |-> candle.price, exit |-> 0, sell |-> 0, reason |-> ""]
           done == SubSeq(c.trades, 1, c.tc - 1)
<1>1. /\ d.cash = c.cash - amount * candle.price
      /\ d.crypto = c.crypto + amount - (amount * Tax) \div Unit
      /\ d.counter = c.counter + 1 /\ d.trades = done \o <<t>>
      /\ d.open = c.open /\ d.stop = c.stop /\ d.tc = c.tc /\ DOMAIN d = DOMAIN c
  BY DEF Bought, Books
<1>2. candle.price \in Nat /\ candle.ts \in Nat
  BY DEF Candle
<1>3. t \in Trade
  BY <1>2 DEF Trade, Reasons
<1>4. t.buy = candle.price
  OBVIOUS
<1> HIDE DEF d, t
<1>5. amount * candle.price \in Nat
  BY <1>2, SMT
<1>6. d.cash \in Nat
  BY <1>1, <1>5 DEF Books, CanBuy
<1>7. d.crypto \in Nat
  <2>1. (amount * Tax) \div Unit \in 0..amount
    BY FeeCovered
  <2>2. c.crypto \in Nat
    BY DEF Books
  <2>3. QED
    BY <1>1, <2>1, <2>2
<1>8. c.trades \in Seq(Trade) /\ c.tc \in Nat \ {0} /\ c.tc - 1 \in 0..Len(c.trades) /\ Len(c.trades) \in Nat
  BY DEF Books
<1>9. done \in Seq(Trade) /\ Len(done) = c.tc - 1
  <2>1. \A i \in 1..c.tc - 1 : c.trades[i] \in Trade
    BY <1>8
  <2>2. QED
    BY <1>8, <2>1, SubSeqProperties
<1> HIDE DEF done
<1>10. Append(done, t) = done \o <<t>>
  BY <1>3, <1>9, AppendIsConcat, Zenon
<1>11. d.trades = Append(done, t)
  BY <1>1, <1>10, Zenon
<1>12. d.trades \in Seq(Trade) /\ Len(d.trades) = c.tc /\ d.trades[c.tc] = t
  BY <1>3, <1>8, <1>9, <1>11, AppendProperties
<1>13. TradeOpen(d)
  BY <1>1, <1>8, <1>12 DEF TradeOpen
<1>14. Books(d)
  <2>1. /\ DOMAIN d = DOMAIN c /\ d.tc = c.tc /\ d.stop = c.stop /\ d.open = c.open
        /\ d.counter = c.counter + 1
    BY <1>1
  <2>2. d.counter \in Nat \ {0} /\ d.tc \in Nat \ {0}
    BY <2>1 DEF Books
  <2>3. Len(d.trades) \in {d.tc - 1, d.tc}
    BY <1>12, <2>1
  <2>4. QED
    BY <1>6, <1>7, <1>12, <2>1, <2>2, <2>3 DEF Books
<1>15. QED
  BY <1>1, <1>4, <1>12, <1>13, <1>14 DEF d

LEMMA FinishedIs ==
    ASSUME NEW c, Books(c), TradeOpen(c), NEW candle \in Candle, NEW reason \in Reasons
    PROVE  LET d == Finished(c, candle, reason) IN
           /\ Books(d) /\ d.open = c.open /\ d.stop = c.stop /\ d.tc = c.tc + 1
           /\ d.cash = c.cash /\ d.crypto = c.crypto /\ Len(d.trades) = Len(c.trades)
           /\ ~TradeOpen(d)
<1> DEFINE d == Finished(c, candle, reason)
           t == [c.trades[c.tc] EXCEPT !.exit = candle.ts, !.sell = candle.price, !.reason = reason]
<1>1. /\ d.cash = c.cash /\ d.crypto = c.crypto /\ d.counter = c.counter
      /\ d.trades = [c.trades EXCEPT ![c.tc] = t] /\ d.tc = c.tc + 1
      /\ d.open = c.open /\ d.stop = c.stop /\ DOMAIN d = DOMAIN c
  BY DEF Finished, Books
<1>2. c.trades \in Seq(Trade) /\ c.tc \in 1..Len(c.trades) /\ c.tc = Len(c.trades)
  BY DEF Books, TradeOpen
<1>3. t \in Trade
  <2>1. c.trades[c.tc] \in Trade
    BY <1>2
  <2>2. candle.price \in Nat /\ candle.ts \in Nat
    BY DEF Candle
  <2>3. QED
    BY <2>1, <2>2 DEF Trade
<1> HIDE DEF d, t
<1>4. d.trades \in Seq(Trade) /\ Len(d.trades) = Len(c.trades)
  BY <1>1, <1>2, <1>3
<1>5. Books(d)
  BY <1>1, <1>2, <1>4 DEF Books
<1>6. ~TradeOpen(d)
  BY <1>1, <1>2, <1>4 DEF TradeOpen
<1>7. QED
  BY <1>1, <1>4, <1>5, <1>6 DEF d

(* A sale books the proceeds, and ends the trade with its reason. *)
Paid(c, amount, candle) ==
    [c EXCEPT !.crypto = @ - amount,
              !.cash = @ + amount * candle.price - (amount * candle.price * Tax) \div Unit,
              !.counter = @ + 1]
Verdict(c, candle, type) ==
    IF Loses(c.trades[c.tc].buy, candle.price) THEN "stop_loss"
    ELSE IF type = "profit" THEN "profit_target" ELSE "trailing_stop"

(* A trade that has ended names its reason. *)
Given(reason) == reason # ""

LEMMA SoldFinishes ==
    ASSUME NEW c, Books(c), TradeOpen(c), NEW candle \in Candle, NEW type, NEW amount \in 0..c.crypto
    PROVE  LET b == Paid(c, amount, candle)
               why == Verdict(c, candle, type)
           IN  /\ Sold(c, amount, candle, type) = Finished(b, candle, why)
               /\ Books(b) /\ TradeOpen(b) /\ b.trades = c.trades /\ b.tc = c.tc
               /\ b.open = c.open /\ b.crypto = c.crypto - amount /\ b.cash >= c.cash
               /\ why \in Reasons /\ Given(why)
<1> DEFINE b == Paid(c, amount, candle)
<1>1. /\ b.cash = c.cash + amount * candle.price - (amount * candle.price * Tax) \div Unit
      /\ b.crypto = c.crypto - amount /\ b.counter = c.counter + 1
      /\ b.trades = c.trades /\ b.tc = c.tc /\ b.open = c.open /\ b.stop = c.stop
      /\ DOMAIN b = DOMAIN c
  BY DEF Books, Paid
<1>2. Sold(c, amount, candle, type) = Finished(b, candle, Verdict(c, candle, type))
  BY DEF Sold, Paid, Verdict
<1>3. Verdict(c, candle, type) \in Reasons /\ Given(Verdict(c, candle, type))
  BY DEF Reasons, Verdict, Given
<1> HIDE DEF b
<1>4. c.crypto \in Nat /\ amount \in Nat /\ c.crypto - amount \in Nat /\ c.cash \in Nat /\ candle.price \in Nat
  BY DEF Books, Candle
<1>5. amount * candle.price \in Nat
  BY <1>4, SMT
<1>6. b.cash \in Nat /\ b.cash >= c.cash /\ b.crypto \in Nat
  BY <1>1, <1>4, <1>5, FeeCovered
<1>7. Books(b) /\ TradeOpen(b)
  BY <1>1, <1>6 DEF Books, TradeOpen
<1>8. QED
  BY <1>1, <1>2, <1>3, <1>6, <1>7 DEF b

LEMMA SoldIs ==
    ASSUME NEW c, Books(c), TradeOpen(c), NEW candle \in Candle, NEW type, NEW amount \in 0..c.crypto
    PROVE  LET d == Sold(c, amount, candle, type) IN
           Books(d) /\ d.open = c.open /\ d.cash >= c.cash /\ d.crypto = c.crypto - amount /\ ~TradeOpen(d)
<1> DEFINE b == Paid(c, amount, candle)
           why == Verdict(c, candle, type)
<1>1. /\ Sold(c, amount, candle, type) = Finished(b, candle, why)
      /\ Books(b) /\ TradeOpen(b) /\ b.open = c.open /\ b.crypto = c.crypto - amount
      /\ b.cash >= c.cash /\ why \in Reasons
  BY SoldFinishes
<1> HIDE DEF b, why
<1>2. LET d == Finished(b, candle, why) IN
      Books(d) /\ d.open = b.open /\ d.cash = b.cash /\ d.crypto = b.crypto /\ ~TradeOpen(d)
  BY <1>1, FinishedIs
<1>3. QED
  BY <1>1, <1>2

LEMMA StopPlacedIs ==
    ASSUME NEW c, Books(c), c.open = {}, NEW price
    PROVE  LET d == StopPlaced(c, price) IN
           /\ Books(d) /\ SameAccounts(c, d) /\ d.stop.id # 0 /\ d.stop.price = price
<1> DEFINE d == StopPlaced(c, price)
<1>1. /\ d.cash = c.cash /\ d.crypto = c.crypto /\ d.trades = c.trades /\ d.tc = c.tc
      /\ d.counter = c.counter + 1 /\ d.open = c.open \cup {c.counter}
      /\ d.stop = [id |-> c.counter, price |-> price] /\ DOMAIN d = DOMAIN c
  BY DEF StopPlaced, Books
<1> HIDE DEF d
<1>2. d.stop.id = c.counter /\ d.stop.price = price /\ DOMAIN d.stop = {"id", "price"}
  BY <1>1
<1>3. d.open = {d.stop.id} \ {0}
  BY <1>1, <1>2 DEF Books
<1>4. QED
  BY <1>1, <1>2, <1>3 DEF Books, SameAccounts, d
----------------------------------------------------------------------------
(* The inductive invariant: what is where, whatever was given up. *)
Typed ==
    /\ LoadInv /\ file \in Seq(Row)
    /\ phase \in {"load", "serve", "handle", "over"} /\ signal \in Signals /\ abandoned \in BOOLEAN
    /\ index \in 0..Len(load.hist)
    /\ phase = "handle" => index # 0
    /\ phase = "serve" => load.hist # <<>>
    /\ capital \in Nat /\ Books(client) /\ stored \in 0..client.cash
    /\ DOMAIN pos = {"active", "entry", "high", "armed"} /\ pos.active \in BOOLEAN /\ pos.armed \in BOOLEAN
    /\ cfg \in Configs /\ E!Valid(cfg) /\ ~loading /\ state \in E!StrategyState
    /\ entries \in Seq(Candle) /\ ticks \in Seq(Candle)

(* The state of the engine at the signal being handled. *)
Signalled ==
    /\ signal = "SearchingBuyEntry" => state = "IDLE"
    /\ signal \in {"Buy", "WaitingBuyFill"} => state = "PENDING_BUY"
    /\ signal = "TrackingSellExit" => state = "IN_POSITION"
    /\ signal \in {"Sell", "WaitingSellFill"} => state = "PENDING_SELL"

(* What Agreed needs at any time. *)
Story ==
    /\ phase = "load" => index = 0 /\ entries = <<>> /\ pos = NoPosition /\ client.open = {} /\ state = "IDLE"
    /\ phase = "handle" => Signalled
    /\ pos.active = (state \in E!Holding)
    /\ pos.active => entry \in Nat \ {0} /\ pos.entry = entry
    /\ phase # "over" /\ pos.active => TradeOpen(client) /\ client.trades[client.tc].buy = entry
    /\ phase # "over" /\ ~pos.active /\ ~abandoned => ~TradeOpen(client)
    /\ ~pos.active /\ ~abandoned => client.crypto < Lot
    /\ ~abandoned /\ LotWorthless /\ ~(phase = "handle" /\ signal = "Buy") => state # "PENDING_BUY"

(* What StopKept needs at any time, of a strategy with a profit target and   *)
(* candles one interval apart: the engine takes every one of them, so that   *)
(* it sells at the stop price whenever the stop order is canceled there.     *)
Protected ==
    /\ IF index = 0 THEN entries = <<>>
                    ELSE entries # <<>> /\ E!Newest(entries).ts = load.hist[index].ts
    /\ pos.armed => pos.active
    /\ ~pos.armed => client.open = {}
    /\ pos.armed /\ ~(phase = "handle" /\ signal = "Sell") =>
           client.stop.id # 0 /\ client.stop.price = pos.entry * (Unit - cfg.stop)
    /\ ~(phase = "handle" /\ signal = "Sell") => state # "PENDING_SELL"
    /\ phase = "handle" /\ signal = "Sell" /\ Current.price <= pos.entry => client.open = {}

IInv == Typed /\ Story /\ (phase # "load" /\ cfg.type = "profit" /\ Regular => Protected)
----------------------------------------------------------------------------
(* A window that has taken a tick ends with it. *)
LEMMA AcceptedEnds ==
    ASSUME NEW es \in Seq(Candle), NEW p \in Candle, NEW win
    PROVE  LET new == E!Accepted(es, p, win) IN
           new \in Seq(Candle) /\ new # <<>> /\ E!Newest(new) = p
<1> DEFINE all  == Append(es, p)
           kept == {k \in DOMAIN all : k = Len(all) \/ all[k].ts >= p.ts - win - Tolerance}
<1>1. all \in Seq(Candle) /\ Len(all) = Len(es) + 1 /\ all[Len(es) + 1] = p /\ Len(es) \in Nat
  BY AppendProperties
<1>2. E!Accepted(es, p, win) = SubSeq(all, E!Min(kept), Len(all))
  BY DEF E!Accepted
<1> HIDE DEF all
<1>3. DOMAIN all = 1..Len(all) /\ Len(all) \in Nat \ {0}
  BY <1>1
<1>4. kept \in SUBSET Nat /\ Len(all) \in kept /\ kept \subseteq 1..Len(all)
  BY <1>3
<1> HIDE DEF kept
<1>5. E!Min(kept) \in 1..Len(all)
  BY <1>4, Least
<1> DEFINE m == E!Min(kept)
           new == SubSeq(all, m, Len(all))
<1> HIDE DEF m
<1>6. \A i \in m..Len(all) : all[i] \in Candle
  BY <1>1, <1>5 DEF m
<1>7. /\ new \in Seq(Candle) /\ Len(new) = Len(all) - m + 1
      /\ \A i \in 1..Len(all) - m + 1 : new[i] = all[m + i - 1]
  <2>1. m \in Int /\ Len(all) \in Int /\ m <= Len(all)
    BY <1>3, <1>5 DEF m
  <2>2. QED
    BY <1>6, <2>1, SubSeqProperties
<1> HIDE DEF new
<1>8. Len(new) \in 1..Len(all) - m + 1 /\ m + Len(new) - 1 = Len(es) + 1
  BY <1>1, <1>3, <1>5, <1>7 DEF m
<1>9. new # <<>> /\ new[Len(new)] = p
  BY <1>1, <1>7, <1>8
<1>10. QED
  BY <1>2, <1>7, <1>9 DEF E!Newest, new, m

(* What a tick does to the engine. *)
LEMMA TickIs ==
    ASSUME Typed, NEW p \in Candle, E!Tick(p)
    PROVE  /\ loading' = loading /\ cfg' = cfg /\ entry' = entry
           /\ entries' \in Seq(Candle) /\ ticks' \in Seq(Candle)
           /\ ticks' = ticks => state' = state /\ ~E!Admits(entries, p)
           /\ ticks' # ticks => entries' # <<>> /\ E!Newest(entries') = p
           /\ state = "IDLE" => state' \in {"IDLE", "PENDING_BUY"}
           /\ state \in {"PENDING_BUY", "PENDING_SELL"} => state' = state
           /\ state = "IN_POSITION" /\ ticks' # ticks =>
                  state' = IF E!ExitRule(cfg, p.price, entry, high') THEN "PENDING_SELL" ELSE "IN_POSITION"
           /\ state = "IN_POSITION" => state' \in {"IN_POSITION", "PENDING_SELL"}
<1>1. /\ loading' = loading /\ cfg' = cfg /\ entry' = entry
      /\ entries \in Seq(Candle) /\ ticks \in Seq(Candle) /\ state \in E!StrategyState
  BY DEF E!Tick, Typed
<1>2. CASE /\ entries' = E!Accepted(entries, p, window) /\ ticks' = Append(ticks, p)
           /\ state' = E!AfterSignal(entries', high')
  <2>1. entries' \in Seq(Candle) /\ entries' # <<>> /\ E!Newest(entries') = p
    BY <1>1, <1>2, AcceptedEnds
  <2>2. ticks' \in Seq(Candle) /\ Len(ticks') = Len(ticks) + 1 /\ Len(ticks) \in Nat
    BY <1>1, <1>2, AppendProperties
  <2>3. ticks' # ticks
    BY <2>2
  <2>4. /\ state = "IDLE" => state' \in {"IDLE", "PENDING_BUY"}
        /\ state \in {"PENDING_BUY", "PENDING_SELL"} => state' = state
        /\ state = "IN_POSITION" =>
               state' = IF E!ExitRule(cfg, E!Newest(entries').price, entry, high')
                        THEN "PENDING_SELL" ELSE "IN_POSITION"
    BY <1>2 DEF E!AfterSignal
  <2>5. QED
    BY <1>1, <2>1, <2>2, <2>3, <2>4
<1>3. CASE ~E!Admits(entries, p) /\ entries' = entries /\ ticks' = ticks /\ state' = state
  BY <1>1, <1>3
<1>4. QED
  BY <1>2, <1>3 DEF E!Tick

(* The candle being handled. *)
LEMMA CurrentIs == ASSUME Typed, index # 0 PROVE Current \in Candle /\ Current.price \in Nat \ {0}
<1>1. load.hist \in Seq(Candle) /\ index \in 1..Len(load.hist)
  BY DEF Typed, LoadInv, Spaced
<1>2. Current \in Candle
  BY <1>1 DEF Current
<1>3. QED
  BY <1>2 DEF Candle

LEMMA NextCandle ==
    ASSUME Typed, index < Len(load.hist)
    PROVE  load.hist[index + 1] \in Candle /\ index + 1 \in 1..Len(load.hist)
<1>1. load.hist \in Seq(Candle) /\ index \in 0..Len(load.hist) /\ Len(load.hist) \in Nat
  BY DEF Typed, LoadInv, Spaced
<1>2. index + 1 \in 1..Len(load.hist)
  BY <1>1
<1>3. QED
  BY <1>1, <1>2

(* An order that is canceled before a sale leaves none open. *)
LEMMA FreedIs ==
    ASSUME Books(client), NEW c \in Freed(client)
    PROVE  Books(c) /\ SameAccounts(client, c) /\ c.open = {}
<1>1. CASE client.open = {}
  BY <1>1 DEF Freed, SameAccounts
<1>2. CASE client.open # {}
  <2>1. PICK id \in client.open : c = Canceled(client, id)
    BY <1>2 DEF Freed
  <2>2. id = client.stop.id
    BY <2>1 DEF Books
  <2>3. Books(c) /\ SameAccounts(client, c) /\ c.stop = NoStop
    BY <2>1, <2>2, CanceledIs
  <2>4. c.open = {}
    BY <2>3 DEF Books, NoStop
  <2>5. QED
    BY <2>3, <2>4
<1>3. QED
  BY <1>1, <1>2
----------------------------------------------------------------------------
(* What is no lot is worth no position either: after a sale no purchase is   *)
(* skipped for what was left.                                                *)
LEMMA NothingUnheld ==
    ASSUME Typed, index # 0, LotWorthless, client.crypto < Lot
    PROVE  Unheld(Current.price)
<1> DEFINE crypto == client.crypto
           price  == Current.price
           most   == 95 * MinBudget * Unit
<1>1. crypto \in Nat /\ Lot \in Nat /\ price \in Nat /\ most \in Int /\ crypto < Lot
  BY CurrentIs, BacktestAssumption, ClientAssumption DEF Typed, Books
<1>2. Lot * price * 100 <= most
  <2>1. index \in DOMAIN load.hist
    BY DEF Typed, LoadInv, Spaced
  <2>2. QED
    BY <2>1 DEF LotWorthless, Current
<1> HIDE DEF crypto, price, most
<1>3. crypto * price <= Lot * price
  <2>1. \A x, y, z \in Nat : x < y => x * z <= y * z
    BY SMT
  <2>2. QED
    BY <1>1, <2>1
<1>4. crypto * price \in Nat /\ Lot * price \in Nat
  BY <1>1, SMT
<1>5. crypto * price * 100 <= most
  BY <1>1, <1>2, <1>3, <1>4
<1>6. QED
  BY <1>5 DEF Unheld, crypto, price, most

(* A rounded amount is not above, and less than a lot below. *)
LEMMA FormattedIs ==
    ASSUME NEW amount \in Nat
    PROVE  FormatOrderAmount(amount) \in 0..amount /\ amount - FormatOrderAmount(amount) < Lot
<1>1. \A x \in Nat, y \in Nat \ {0} : (x \div y) * y \in 0..x /\ x - (x \div y) * y < y
  BY SMT
<1>2. Lot \in Nat \ {0}
  BY BacktestAssumption
<1>3. QED
  BY <1>1, <1>2 DEF FormatOrderAmount

(* What a purchase is of. *)
Units(price) == FormatOrderAmount(ApprovedUnits(client.cash, price))

LEMMA BudgetIs ==
    ASSUME Typed, NEW price \in Nat \ {0}
    PROVE  /\ Budget(client.cash) \in Nat /\ ApprovedUnits(client.cash, price) \in Nat
           /\ Units(price) \in Nat /\ Units(price) <= ApprovedUnits(client.cash, price)
<1>1. Budget(client.cash) \in Nat
  <2>1. capital \in Nat /\ Unit \in Nat /\ client.cash \in Nat /\ Shares \in Nat \ {0}
    BY ClientAssumption, BacktestAssumption DEF Typed, Books
  <2>2. (capital * Unit) \div Shares \in Nat
    BY <2>1, SMT
  <2>3. QED
    BY <2>1, <2>2 DEF Budget
<1>2. Budget(client.cash) * 99 \in Nat /\ 100 * price \in Nat \ {0}
  BY <1>1
<1>3. ApprovedUnits(client.cash, price) \in Nat
  BY <1>2, SMT DEF ApprovedUnits
<1>4. QED
  BY <1>1, <1>3, FormattedIs DEF Units

LEMMA InitIInv == Init => IInv
<1> SUFFICES ASSUME Init PROVE IInv
  OBVIOUS
<1>1. Books(client) /\ client.open = {} /\ client.crypto < Lot /\ ~TradeOpen(client) /\ stored \in 0..client.cash
  <2>1. /\ client.cash = capital * Unit /\ client.crypto = 0 /\ client.open = {} /\ client.counter = 1
        /\ client.stop = NoStop /\ client.trades = <<>> /\ client.tc = 1
        /\ DOMAIN client = {"cash", "crypto", "open", "counter", "stop", "trades", "tc"}
    BY DEF Init, NewClient
  <2>2. client.cash \in Nat
    <3>1. capital \in Nat /\ Unit \in Nat
      BY BacktestAssumption, ClientAssumption DEF Init
    <3>2. QED
      BY <2>1, <3>1, SMT
  <2>3. <<>> \in Seq(Trade) /\ Len(<<>>) = 0
    OBVIOUS
  <2>4. stored \in 0..client.cash /\ client.crypto < Lot
    BY <2>1, <2>2, BacktestAssumption DEF Init
  <2>5. QED
    BY <2>1, <2>2, <2>3, <2>4 DEF Books, TradeOpen, NoStop
<1>2. LoadInv /\ Len(load.hist) = 0
  <2>1. <<>> \in Seq(Candle)
    OBVIOUS
  <2>2. load.hist = <<>> /\ load \in Loading
    BY <2>1 DEF Init, Fresh, Loading
  <2>3. QED
    BY <2>2 DEF LoadInv, Spaced
<1>3. /\ phase = "load" /\ index = 0 /\ signal = "SearchingBuyEntry" /\ abandoned = FALSE
      /\ file = <<>> /\ entries = <<>> /\ ticks = <<>> /\ state = "IDLE" /\ loading = FALSE
      /\ cfg \in Configs /\ E!Valid(cfg) /\ capital \in Nat
  BY BacktestAssumption DEF Init
<1>4. pos = NoPosition /\ DOMAIN pos = {"active", "entry", "high", "armed"} /\ ~pos.active /\ ~pos.armed
      /\ pos.active \in BOOLEAN /\ pos.armed \in BOOLEAN
  BY DEF Init, NoPosition
<1>5. <<>> \in Seq(Row) /\ <<>> \in Seq(Candle)
  OBVIOUS
<1>6. Typed
  <2>1. index \in 0..Len(load.hist)
    BY <1>2, <1>3
  <2>2. signal \in Signals /\ state \in E!StrategyState /\ abandoned \in BOOLEAN
    BY <1>3 DEF Signals, E!StrategyState
  <2>3. QED
    BY <1>1, <1>2, <1>3, <1>4, <1>5, <2>1, <2>2 DEF Typed
<1>7. Story
  BY <1>1, <1>3, <1>4 DEF Story, E!Holding
<1>8. QED
  BY <1>3, <1>6, <1>7 DEF IInv

LEMMA ReadRowKeeps == ASSUME IInv, NEW step \in Steps, ReadRow(step) PROVE IInv'
<1> DEFINE row == [ts |-> step.after + IF file = <<>> THEN 0 ELSE Last(file).ts, price |-> step.price]
<1>1. /\ phase = "load" /\ phase' = phase /\ row.ts >= 0 /\ file' = Append(file, row) /\ load' = Loaded(load, row)
      /\ UNCHANGED <<capital, index, client, stored, pos, signal, abandoned, engine>>
  BY DEF ReadRow
<1>2. row \in Row
  <2>1. step.after \in Int /\ step.price \in Nat
    BY BacktestAssumption
  <2>2. file # <<>> => Last(file) \in Row
    BY EmptySeq DEF IInv, Typed, Last
  <2>3. file # <<>> => Last(file).ts \in Nat
    BY <2>2 DEF Row
  <2>4. row.ts \in Nat
    BY <1>1, <2>1, <2>3
  <2>5. QED
    BY <2>1, <2>4 DEF Row
<1> HIDE DEF row
<1>3. LoadInv'
  BY <1>1, <1>2, LoadedKept DEF IInv, Typed, LoadInv
<1>4. file' \in Seq(Row)
  BY <1>1, <1>2 DEF IInv, Typed
<1>5. index = 0 /\ Len(load'.hist) \in Nat
  BY <1>1, <1>3 DEF IInv, Story, LoadInv, Spaced
<1>6. Typed'
  BY <1>1, <1>3, <1>4, <1>5 DEF IInv, Typed, engine
<1>7. Story'
  BY <1>1 DEF IInv, Story, engine, Signalled, TradeOpen
<1>8. QED
  BY <1>1, <1>6, <1>7 DEF IInv

LEMMA StartKeeps == ASSUME IInv, StartBacktest PROVE IInv'
<1>1. /\ phase = "load" /\ phase' = IF load.hist = <<>> THEN "over" ELSE "serve"
      /\ UNCHANGED <<file, load, capital, index, client, stored, pos, signal, abandoned, engine>>
  BY DEF StartBacktest, input
<1>2. index = 0 /\ entries = <<>> /\ pos = NoPosition /\ client.open = {} /\ state = "IDLE"
  BY <1>1 DEF IInv, Story
<1>3. Typed'
  BY <1>1 DEF IInv, Typed, engine, LoadInv
<1>4. Story'
  BY <1>1, <1>2 DEF IInv, Story, engine, TradeOpen, NoPosition, E!Holding
<1>5. Protected'
  BY <1>1, <1>2 DEF Protected, engine, NoPosition
<1>6. QED
  BY <1>3, <1>4, <1>5 DEF IInv

LEMMA EndKeeps == ASSUME IInv, EndOfData PROVE IInv'
<1>1. /\ phase = "serve" /\ phase' = "over" /\ index = Len(load.hist)
      /\ client' = Closed(client, Last(load.hist))
      /\ UNCHANGED <<file, load, capital, index, stored, pos, signal, abandoned, engine>>
  BY DEF EndOfData, input
<1>2. Books(client)
  BY DEF IInv, Typed
<1>3. /\ Books(client') /\ client'.open = client.open /\ client'.stop = client.stop
      /\ client'.crypto = client.crypto /\ client'.cash = client.cash
  <2>1. CASE TradeOpen(client) /\ load.hist # <<>>
    <3>1. Last(load.hist) \in Candle
      BY <2>1, EmptySeq DEF IInv, Typed, LoadInv, Spaced, Last
    <3>2. "end_of_data" \in Reasons
      BY DEF Reasons
    <3>3. QED
      BY <1>1, <1>2, <2>1, <3>1, <3>2, FinishedIs DEF Closed
  <2>2. CASE ~TradeOpen(client)
    BY <1>1, <1>2, <2>2 DEF Closed
  <2>3. load.hist # <<>>
    BY <1>1 DEF IInv, Typed
  <2>4. QED
    BY <2>1, <2>2, <2>3
<1>4. Typed'
  BY <1>1, <1>3 DEF IInv, Typed, engine, LoadInv
<1>5. Story'
  <2>1. LotWorthless' = LotWorthless /\ state' = state /\ entry' = entry
    BY <1>1 DEF LotWorthless, engine
  <2>2. QED
    BY <1>1, <1>3, <2>1 DEF IInv, Story
<1>6. Protected => Protected'
  BY <1>1, <1>3 DEF Protected, engine
<1>7. QED
  BY <1>1, <1>4, <1>5, <1>6 DEF IInv, Regular, engine

(* Between two candles: the stop order is canceled exactly when the engine, *)
(* if it takes the candle, sells.                                           *)
LEMMA ServeTyped ==
    ASSUME IInv, ServeCandle
    PROVE  /\ Typed' /\ SameAccounts(client, client') /\ index' = index + 1 /\ index' # 0
           /\ UNCHANGED <<file, load, capital, pos, abandoned, cfg, entry, loading>>
<1> DEFINE candle == load.hist[index + 1]
<1>1. /\ phase = "serve" /\ index < Len(load.hist) /\ index' = index + 1
      /\ client' = Served(client, candle.price) /\ E!Tick(candle)
      /\ signal' = SignalOf(state, state') /\ phase' = IF ticks' = ticks THEN "serve" ELSE "handle"
      /\ UNCHANGED <<file, load, capital, stored, pos, abandoned>>
  BY DEF ServeCandle, input
<1>2. Typed
  BY DEF IInv
<1>3. candle \in Candle /\ index + 1 \in 1..Len(load.hist) /\ index \in Nat
  BY <1>1, <1>2, NextCandle DEF Typed
<1> HIDE DEF candle
<1>4. Books(client') /\ SameAccounts(client, client')
  BY <1>1, <1>2, ServedIs DEF Typed
<1>5. /\ loading' = loading /\ cfg' = cfg /\ entry' = entry
      /\ entries' \in Seq(Candle) /\ ticks' \in Seq(Candle)
  BY <1>1, <1>2, <1>3, TickIs
<1>6. state' \in E!StrategyState /\ signal' \in Signals
  <2>1. state \in {"IDLE", "PENDING_BUY", "IN_POSITION", "PENDING_SELL"}
    BY <1>2 DEF Typed, E!StrategyState
  <2>2. /\ state = "IDLE" => state' \in {"IDLE", "PENDING_BUY"}
        /\ state \in {"PENDING_BUY", "PENDING_SELL"} => state' = state
        /\ state = "IN_POSITION" => state' \in {"IN_POSITION", "PENDING_SELL"}
    BY <1>1, <1>2, <1>3, TickIs
  <2>3. QED
    BY <1>1, <2>1, <2>2 DEF SignalOf, Signals, E!StrategyState
<1>7. index' \in 0..Len(load'.hist) /\ index' # 0 /\ load'.hist # <<>>
  <2>1. load.hist # <<>>
    BY <1>1, <1>2 DEF Typed
  <2>2. QED
    BY <1>1, <1>3, <2>1
<1>8. Typed'
  <2>1. phase' \in {"serve", "handle"} /\ LoadInv' /\ stored' \in 0..client'.cash
    BY <1>1, <1>2, <1>4 DEF Typed, LoadInv, SameAccounts
  <2>2. QED
    BY <1>1, <1>2, <1>4, <1>5, <1>6, <1>7, <2>1 DEF Typed
<1>9. QED
  BY <1>1, <1>4, <1>5, <1>7, <1>8

LEMMA ServeStory == ASSUME IInv, ServeCandle PROVE Story'
<1> DEFINE candle == load.hist[index + 1]
<1>1. /\ phase = "serve" /\ index < Len(load.hist) /\ E!Tick(candle)
      /\ signal' = SignalOf(state, state') /\ phase' = IF ticks' = ticks THEN "serve" ELSE "handle"
  BY DEF ServeCandle
<1>2. Typed /\ Story /\ state \in {"IDLE", "PENDING_BUY", "IN_POSITION", "PENDING_SELL"}
  BY DEF IInv, Typed, E!StrategyState
<1>3. candle \in Candle
  BY <1>1, <1>2, NextCandle
<1> HIDE DEF candle
<1>4. /\ ticks' = ticks => state' = state
      /\ state = "IDLE" => state' \in {"IDLE", "PENDING_BUY"}
      /\ state \in {"PENDING_BUY", "PENDING_SELL"} => state' = state
      /\ state = "IN_POSITION" => state' \in {"IN_POSITION", "PENDING_SELL"}
  BY <1>1, <1>2, <1>3, TickIs
<1>5. SameAccounts(client, client') /\ pos' = pos /\ entry' = entry /\ abandoned' = abandoned
  BY ServeTyped
<1>6. Signalled'
  BY <1>1, <1>2, <1>4 DEF SignalOf, Signalled
<1>7. (state' \in E!Holding) = (state \in E!Holding)
  BY <1>2, <1>4 DEF E!Holding
<1>8. ~abandoned' /\ LotWorthless' /\ ~(phase' = "handle" /\ signal' = "Buy") => state' # "PENDING_BUY"
  <2>0. LotWorthless' = LotWorthless
    BY ServeTyped DEF LotWorthless
  <2>1. ~abandoned /\ LotWorthless => state # "PENDING_BUY"
    BY <1>1, <1>2 DEF Story
  <2>2. state' = "PENDING_BUY" /\ state # "PENDING_BUY" => signal' = "Buy" /\ phase' = "handle"
    BY <1>1, <1>2, <1>4 DEF SignalOf
  <2>3. QED
    BY <1>5, <2>0, <2>1, <2>2
<1>9. TradeOpen(client') = TradeOpen(client)
  BY <1>5 DEF TradeOpen, SameAccounts
<1>10. phase' # "load" /\ phase # "over"
  BY <1>1
<1>11. QED
  BY <1>2, <1>5, <1>6, <1>7, <1>8, <1>9, <1>10 DEF Story, SameAccounts

LEMMA NoTarget ==
    ASSUME NEW p \in Nat, NEW e \in Nat \ {0}, p <= e, NEW t \in Nat \ {0}
    PROVE  ~(p * Unit >= e * (Unit + t))
<1>1. Unit \in Nat
  BY ClientAssumption
<1>2. p * Unit <= e * Unit /\ e * (Unit + t) = e * Unit + e * t /\ e * t > 0
  BY <1>1, SMT
<1>3. p * Unit \in Nat /\ e * Unit \in Nat /\ e * t \in Nat
  BY <1>1, SMT
<1>4. QED
  BY <1>2, <1>3

(* The engine takes every candle of a regular file. *)
LEMMA CandleTaken ==
    ASSUME IInv, ServeCandle, cfg.type = "profit", Regular
    PROVE  E!Admits(entries, load.hist[index + 1])
<1> DEFINE candle == load.hist[index + 1]
<1>1. phase = "serve" /\ index < Len(load.hist)
  BY DEF ServeCandle
<1>2. Typed /\ Story /\ Protected
  BY <1>1 DEF IInv
<1>3. /\ candle \in Candle /\ candle.ts \in Nat \ {0} /\ candle.price \in Nat \ {0}
      /\ index + 1 \in 1..Len(load.hist) /\ index \in Nat
  <2>1. candle \in Candle /\ index + 1 \in 1..Len(load.hist) /\ index \in Nat
    BY <1>1, <1>2, NextCandle DEF Typed
  <2>2. QED
    BY <2>1 DEF Candle
<1>4. CASE index = 0
  <2>1. entries = <<>>
    BY <1>2, <1>4 DEF Protected
  <2>2. QED
    BY <1>3, <2>1 DEF E!Admits, E!Now
<1>5. CASE index # 0
  <2>1. entries # <<>> /\ E!Newest(entries).ts = load.hist[index].ts
    BY <1>2, <1>5 DEF Protected
  <2>2. index + 1 \in 2..Len(load.hist) /\ (index + 1) - 1 = index /\ index \in 1..Len(load.hist)
    BY <1>3, <1>5
  <2>3. candle.ts - load.hist[index].ts = Interval
    BY <2>2 DEF Regular, candle
  <2>4. load.hist[index].ts \in Nat
    <3>1. load.hist[index] \in Candle
      BY <1>2, <2>2 DEF Typed, LoadInv, Spaced
    <3>2. QED
      BY <3>1 DEF Candle
  <2> HIDE DEF candle
  <2>5. candle.ts >= load.hist[index].ts /\ ~(candle.ts - load.hist[index].ts < JumpGap)
    BY <1>3, <2>3, <2>4, ClientAssumption, BacktestAssumption
  <2>6. ~E!Jumps(E!Newest(entries), candle)
    BY <2>1, <2>5 DEF E!Jumps
  <2>7. E!Admits(entries, candle)
    BY <1>3, <2>1, <2>5, <2>6 DEF E!Admits, E!Now
  <2>8. QED
    BY <2>7 DEF candle
<1>6. QED
  BY <1>4, <1>5

LEMMA ServeProtected ==
    ASSUME IInv, ServeCandle, cfg.type = "profit", Regular
    PROVE  Protected'
<1> DEFINE candle == load.hist[index + 1]
<1>1. /\ phase = "serve" /\ index < Len(load.hist) /\ E!Tick(candle)
      /\ client' = Served(client, candle.price)
      /\ signal' = SignalOf(state, state') /\ phase' = IF ticks' = ticks THEN "serve" ELSE "handle"
  BY DEF ServeCandle
<1>2. Typed /\ Story /\ Protected
  BY <1>1 DEF IInv
<1>3. /\ candle \in Candle /\ candle.ts \in Nat \ {0} /\ candle.price \in Nat \ {0}
      /\ index + 1 \in 1..Len(load.hist) /\ index \in Nat
  <2>1. candle \in Candle /\ index + 1 \in 1..Len(load.hist) /\ index \in Nat
    BY <1>1, <1>2, NextCandle DEF Typed
  <2>2. QED
    BY <2>1 DEF Candle
<1>4. candle = Current' /\ index' = index + 1 /\ index' # 0
      /\ UNCHANGED <<file, load, capital, pos, abandoned, cfg, entry, loading>>
  BY ServeTyped DEF Current
<1>5. E!Admits(entries, candle)
  BY CandleTaken
<1> HIDE DEF candle
<1>6. ticks' # ticks /\ phase' = "handle" /\ entries' # <<>> /\ E!Newest(entries') = candle
  BY <1>1, <1>2, <1>3, <1>5, TickIs
<1>7. /\ state = "IDLE" => state' \in {"IDLE", "PENDING_BUY"}
      /\ state = "PENDING_BUY" => state' = state
      /\ state = "IN_POSITION" =>
             state' = IF E!ExitRule(cfg, candle.price, entry, high') THEN "PENDING_SELL" ELSE "IN_POSITION"
      /\ state \in {"IDLE", "PENDING_BUY", "IN_POSITION"}
  <2>1. state \in {"IDLE", "PENDING_BUY", "IN_POSITION"}
    BY <1>1, <1>2 DEF Typed, Protected, E!StrategyState
  <2>2. QED
    BY <1>1, <1>2, <1>3, <1>6, <2>1, TickIs
<1>8. LET d == client' IN
      /\ Books(d)
      /\ d.open = {} \/ (d.stop = client.stop /\ ~(candle.price * Unit <= client.stop.price))
      /\ d.stop = client.stop \/ (d.open = {} /\ candle.price * Unit <= client.stop.price)
  BY <1>1, <1>2, ServedIs DEF Typed
<1>9. client.open = {} => client'.open = {}
  BY <1>2, <1>8 DEF Typed, Books
<1>10. cfg.target \in Nat \ {0} /\ cfg.stop \in Nat
  <2>1. cfg \in E!Config /\ E!Valid(cfg)
    BY <1>2, BacktestConfigs DEF Typed
  <2>2. QED
    BY <2>1 DEF E!Config, E!Percent, E!Valid
<1>11. pos.armed => client.stop.price = entry * (Unit - cfg.stop) /\ state = "IN_POSITION" /\ client.stop.id # 0
  <2>1. phase # "handle"
    BY <1>1
  <2>2. pos.armed => pos.active /\ client.stop.id # 0 /\ client.stop.price = pos.entry * (Unit - cfg.stop)
    BY <1>2, <2>1 DEF Protected
  <2>3. pos.active => pos.entry = entry /\ state \in E!Holding
    BY <1>2 DEF Story
  <2>4. QED
    BY <1>7, <2>2, <2>3 DEF E!Holding
<1>12. state = "IN_POSITION" => (state' = "PENDING_SELL" <=>
           \/ candle.price * Unit <= entry * (Unit - cfg.stop)
           \/ candle.price * Unit >= entry * (Unit + cfg.target))
  BY <1>7 DEF E!ExitRule, E!ProfitRule, E!LossCut
<1>13. pos.armed /\ ~(phase' = "handle" /\ signal' = "Sell") => client'.stop = client.stop
  <2>1. SUFFICES ASSUME pos.armed, signal' # "Sell" PROVE client'.stop = client.stop
    BY <1>6
  <2>2. state' = "IN_POSITION"
    BY <1>1, <1>7, <1>11, <2>1 DEF SignalOf
  <2>3. ~(candle.price * Unit <= client.stop.price)
    BY <1>11, <1>12, <2>1, <2>2
  <2>4. QED
    BY <1>8, <2>3
<1>14. ~(phase' = "handle" /\ signal' = "Sell") => state' # "PENDING_SELL"
  BY <1>1, <1>6, <1>7 DEF SignalOf
<1>15. signal' = "Sell" /\ candle.price <= pos.entry => client'.open = {}
  <2>1. SUFFICES ASSUME signal' = "Sell", candle.price <= pos.entry PROVE client'.open = {}
    OBVIOUS
  <2>2. state = "IN_POSITION" /\ state' = "PENDING_SELL"
    BY <1>1, <1>7, <2>1 DEF SignalOf
  <2>3. pos.entry = entry /\ entry \in Nat \ {0}
    BY <1>2, <2>2 DEF Story, E!Holding
  <2>4. ~(candle.price * Unit >= entry * (Unit + cfg.target))
    BY <1>3, <1>10, <2>1, <2>3, NoTarget
  <2>5. candle.price * Unit <= entry * (Unit - cfg.stop)
    BY <1>12, <2>2, <2>4
  <2>6. CASE pos.armed
    BY <1>8, <1>11, <2>5, <2>6
  <2>7. CASE ~pos.armed
    BY <1>2, <1>9, <2>7 DEF Protected
  <2>8. QED
    BY <2>6, <2>7
<1>16. E!Newest(entries').ts = load'.hist[index'].ts
  BY <1>4, <1>6 DEF Current
<1>17. (pos.armed => pos.active) /\ (~pos.armed => client'.open = {})
  BY <1>2, <1>9 DEF Protected
<1>18. pos.armed => client.stop.id # 0 /\ client.stop.price = pos.entry * (Unit - cfg.stop)
  BY <1>1, <1>2 DEF Protected
<1>19. QED
  BY <1>4, <1>6, <1>13, <1>14, <1>15, <1>16, <1>17, <1>18 DEF Protected
----------------------------------------------------------------------------
(* Every handler: the candle stays, the next one is served. *)
LEMMA HandleIs ==
    ASSUME IInv, NEW sig, Handle(sig)
    PROVE  /\ phase = "handle" /\ signal = sig /\ phase' = "serve"
           /\ UNCHANGED <<file, load, capital, index, signal>>
           /\ load.hist # <<>> /\ Current \in Candle /\ Current.price \in Nat \ {0}
           /\ Typed /\ Story /\ Signalled /\ Regular' = Regular /\ LotWorthless' = LotWorthless /\ index # 0
           /\ cfg.type = "profit" /\ Regular => Protected
<1>1. /\ phase = "handle" /\ signal = sig /\ phase' = "serve"
      /\ UNCHANGED <<file, load, capital, index, signal>>
  BY DEF Handle, input
<1>2. Typed /\ Story /\ Signalled /\ (cfg.type = "profit" /\ Regular => Protected)
  BY <1>1 DEF IInv, Story
<1>3. index # 0
  BY <1>1, <1>2 DEF Typed
<1>4. Current \in Candle /\ Current.price \in Nat \ {0}
  BY <1>2, <1>3, CurrentIs
<1>5. load.hist # <<>>
  BY <1>2, <1>3 DEF Typed
<1>6. Regular' = Regular /\ LotWorthless' = LotWorthless
  BY <1>1 DEF Regular, LotWorthless
<1>7. QED
  BY <1>1, <1>2, <1>3, <1>4, <1>5, <1>6

(* What a handler has to keep of the types. *)
LEMMA HandledTyped ==
    ASSUME IInv, NEW sig, Handle(sig), Books(client'), abandoned' \in BOOLEAN,
           stored' \in 0..client'.cash,
           DOMAIN pos' = {"active", "entry", "high", "armed"},
           pos'.active \in BOOLEAN, pos'.armed \in BOOLEAN,
           cfg' = cfg, loading' = loading, state' \in E!StrategyState,
           entries' = entries, ticks' = ticks
    PROVE  Typed'
<1>1. phase' = "serve" /\ UNCHANGED <<file, load, capital, index, signal>> /\ load.hist # <<>> /\ Typed
  BY HandleIs
<1>2. LoadInv'
  BY <1>1 DEF Typed, LoadInv
<1>3. QED
  BY <1>1, <1>2 DEF Typed

LEMMA SearchingKeeps == ASSUME IInv, SignalSearchingBuyEntry PROVE IInv'
<1>1. Handle("SearchingBuyEntry") /\ ~pos.active /\ UNCHANGED <<client, stored, pos, abandoned, engine>>
  BY DEF SignalSearchingBuyEntry
<1>2. /\ phase = "handle" /\ signal = "SearchingBuyEntry" /\ phase' = "serve"
      /\ UNCHANGED <<file, load, capital, index, signal>>
      /\ Typed /\ Story /\ Signalled /\ Regular' = Regular /\ LotWorthless' = LotWorthless
      /\ cfg.type = "profit" /\ Regular => Protected
  BY <1>1, HandleIs
<1>3. Typed'
  BY <1>1, <1>2, HandledTyped DEF Typed, engine
<1>4. state = "IDLE"
  BY <1>2 DEF Signalled
<1>5. Story'
  BY <1>1, <1>2, <1>4 DEF Story, engine, TradeOpen
<1>6. Protected => Protected'
  BY <1>1, <1>2, <1>4 DEF Protected, engine
<1>7. QED
  BY <1>1, <1>2, <1>3, <1>5, <1>6 DEF IInv, engine

LEMMA BuyKeeps == ASSUME IInv, SignalBuy PROVE IInv'
<1>1. Handle("Buy") /\ ~pos.active /\ abandoned' = abandoned
  BY DEF SignalBuy
<1>2. /\ phase = "handle" /\ signal = "Buy" /\ phase' = "serve"
      /\ UNCHANGED <<file, load, capital, index, signal>>
      /\ Current \in Candle /\ Current.price \in Nat \ {0}
      /\ Typed /\ Story /\ Signalled /\ Regular' = Regular /\ LotWorthless' = LotWorthless /\ index # 0
      /\ cfg.type = "profit" /\ Regular => Protected
  BY <1>1, HandleIs
<1>3. state = "PENDING_BUY" /\ Books(client) /\ client.cash \in 0..client.cash
  BY <1>2 DEF Signalled, Typed, Books
<1>4. CASE E!RetrySignal /\ UNCHANGED <<client, stored, pos>>
  <2>1. state' = "IDLE" /\ UNCHANGED <<client, stored, pos, loading, entries, ticks, cfg, entry>>
    BY <1>3, <1>4 DEF E!RetrySignal, E!market
  <2>2. Typed'
    BY <1>1, <1>2, <2>1, HandledTyped DEF Typed, E!StrategyState
  <2>3. Story'
    <3>1. pos.active = (state \in E!Holding) /\ ~(state \in E!Holding) /\ ~(state' \in E!Holding)
      BY <1>2, <1>3, <2>1 DEF Story, E!Holding
    <3>2. phase' = "serve" /\ state' = "IDLE" /\ UNCHANGED <<client, pos, abandoned>>
      BY <1>1, <1>2, <2>1
    <3>3. TradeOpen(client') = TradeOpen(client)
      BY <3>2
    <3>4. QED
      BY <1>1, <1>2, <3>1, <3>2, <3>3 DEF Story
  <2>4. Protected => Protected'
    BY <1>1, <1>2, <2>1 DEF Protected
  <2>5. QED
    BY <1>2, <2>1, <2>2, <2>3, <2>4 DEF IInv
<1>5. CASE ~Unheld(Current.price) /\ stored' = client.cash /\ UNCHANGED <<client, pos, engine>>
  <2>1. Typed'
    BY <1>1, <1>2, <1>3, <1>5, HandledTyped DEF Typed, engine
  <2>2. abandoned \/ ~LotWorthless
    <3>1. ~LotWorthless \/ ~(client.crypto < Lot)
      BY <1>2, <1>5, NothingUnheld
    <3>2. QED
      BY <1>1, <1>2, <3>1 DEF Story, Typed
  <2>3. Story'
    BY <1>1, <1>2, <1>5, <2>2 DEF Story, TradeOpen, engine
  <2>4. Protected => Protected'
    BY <1>1, <1>2, <1>3, <1>5 DEF Protected, engine
  <2>5. QED
    BY <1>2, <1>5, <2>1, <2>3, <2>4 DEF IInv, engine
<1>6. CASE /\ CanBuy(client, Units(Current.price), Current.price)
           /\ client' = Bought(client, Units(Current.price), Current) /\ stored' = client'.cash
           /\ pos' = EnteredAt(Current.price)
           /\ E!SetInPosition(Current.price, Current.price)
  <2>1. state' = "IN_POSITION" /\ entry' = Current.price /\ UNCHANGED <<loading, entries, ticks, cfg>>
    BY <1>6 DEF E!SetInPosition, E!market
  <2>2. /\ DOMAIN pos' = {"active", "entry", "high", "armed"} /\ pos'.active = TRUE
        /\ pos'.entry = Current.price /\ pos'.armed = FALSE
    BY <1>6 DEF EnteredAt
  <2>3. Units(Current.price) \in Nat
    BY <1>2, BudgetIs
  <2>4. /\ Books(client') /\ client'.open = client.open
        /\ TradeOpen(client') /\ client'.trades[client'.tc].buy = Current.price
    BY <1>2, <1>3, <1>6, <2>3, BoughtIs
  <2>5. Typed'
    <3>1. pos'.active \in BOOLEAN /\ pos'.armed \in BOOLEAN /\ abandoned' \in BOOLEAN
      BY <1>1, <1>2, <2>2 DEF Typed
    <3>2. state' \in E!StrategyState /\ stored' \in 0..client'.cash
      BY <1>6, <2>1, <2>4 DEF E!StrategyState, Books
    <3>3. QED
      BY <1>1, <2>1, <2>2, <2>4, <3>1, <3>2, HandledTyped
  <2>6. Story'
    BY <1>2, <2>1, <2>2, <2>4 DEF Story, E!Holding
  <2>7. Protected => Protected'
    BY <1>1, <1>2, <2>1, <2>2, <2>4 DEF Protected
  <2>8. QED
    BY <1>2, <2>1, <2>5, <2>6, <2>7 DEF IInv
<1>7. QED
  BY <1>4, <1>5, <1>6 DEF SignalBuy, Units

LEMMA WaitingBuyKeeps == ASSUME IInv, SignalWaitingBuyFill PROVE IInv'
<1>1. /\ Handle("WaitingBuyFill") /\ ~pos.active /\ stored' = client.cash /\ UNCHANGED <<client, pos, abandoned>>
      /\ E!RetrySignal \/ UNCHANGED engine
  BY DEF SignalWaitingBuyFill
<1>2. /\ phase = "handle" /\ signal = "WaitingBuyFill" /\ phase' = "serve"
      /\ UNCHANGED <<file, load, capital, index, signal>>
      /\ Typed /\ Story /\ Signalled /\ Regular' = Regular /\ LotWorthless' = LotWorthless
      /\ cfg.type = "profit" /\ Regular => Protected
  BY <1>1, HandleIs
<1>3. state = "PENDING_BUY" /\ (abandoned \/ ~LotWorthless) /\ client.cash \in 0..client.cash
  BY <1>2 DEF Signalled, Story, Typed, Books
<1>4. state' \in {"IDLE", "PENDING_BUY"} /\ UNCHANGED <<loading, entries, ticks, cfg, entry>>
  BY <1>1, <1>3 DEF E!RetrySignal, E!market, engine
<1>5. Typed'
  BY <1>1, <1>2, <1>3, <1>4, HandledTyped DEF Typed, E!StrategyState
<1>6. Story'
  BY <1>1, <1>2, <1>3, <1>4 DEF Story, TradeOpen, E!Holding
<1>7. Protected => Protected'
  BY <1>1, <1>2, <1>4 DEF Protected
<1>8. QED
  BY <1>2, <1>4, <1>5, <1>6, <1>7 DEF IInv

LEMMA TrackingKeeps == ASSUME IInv, SignalTrackingSellExit PROVE IInv'
<1>1. /\ Handle("TrackingSellExit") /\ pos.active /\ UNCHANGED <<stored, abandoned, engine>>
      /\ pos' = [pos EXCEPT !.armed = TRUE,
                            !.high = IF Current.price > @ THEN Current.price ELSE @]
      /\ client' = IF pos.armed \/ client.open # {} THEN client
                   ELSE StopPlaced(client, pos.entry * (Unit - cfg.stop))
  BY DEF SignalTrackingSellExit
<1>2. /\ phase = "handle" /\ signal = "TrackingSellExit" /\ phase' = "serve"
      /\ UNCHANGED <<file, load, capital, index, signal>>
      /\ Typed /\ Story /\ Signalled /\ Regular' = Regular /\ LotWorthless' = LotWorthless
      /\ cfg.type = "profit" /\ Regular => Protected
  BY <1>1, HandleIs
<1>3. state = "IN_POSITION" /\ Books(client) /\ UNCHANGED <<loading, entries, ticks, cfg, entry, state>>
  BY <1>1, <1>2 DEF Signalled, Typed, engine
<1>4. /\ DOMAIN pos' = {"active", "entry", "high", "armed"} /\ pos'.active = pos.active
      /\ pos'.entry = pos.entry /\ pos'.armed = TRUE
  BY <1>1, <1>2 DEF Typed
<1>5. /\ Books(client') /\ SameAccounts(client, client')
      /\ ~pos.armed /\ client.open = {} =>
             client'.stop.id # 0 /\ client'.stop.price = pos.entry * (Unit - cfg.stop)
      /\ pos.armed => client' = client
  <2>1. CASE pos.armed \/ client.open # {}
    BY <1>1, <1>3, <2>1 DEF SameAccounts
  <2>2. CASE ~pos.armed /\ client.open = {}
    BY <1>1, <1>3, <2>2, StopPlacedIs
  <2>3. QED
    BY <2>1, <2>2
<1>6. Typed'
  <2>1. stored' \in 0..client'.cash
    BY <1>1, <1>2, <1>5 DEF Typed, SameAccounts
  <2>2. QED
    BY <1>1, <1>2, <1>3, <1>4, <1>5, <2>1, HandledTyped DEF Typed
<1>7. Story'
  <2>1. TradeOpen(client') = TradeOpen(client) /\ client'.trades = client.trades /\ client'.tc = client.tc
        /\ client'.crypto = client.crypto
    BY <1>5 DEF TradeOpen, SameAccounts
  <2>2. QED
    BY <1>1, <1>2, <1>3, <1>4, <2>1 DEF Story
<1>8. Protected => Protected'
  <2>1. SUFFICES ASSUME Protected PROVE Protected'
    OBVIOUS
  <2>2. client'.stop.id # 0 /\ client'.stop.price = pos.entry * (Unit - cfg.stop)
    <3>1. CASE pos.armed
      BY <1>2, <1>5, <2>1, <3>1 DEF Protected
    <3>2. CASE ~pos.armed
      BY <1>5, <2>1, <3>2 DEF Protected
    <3>3. QED
      BY <3>1, <3>2
  <2>3. QED
    BY <1>1, <1>2, <1>3, <1>4, <2>1, <2>2 DEF Protected
<1>9. QED
  BY <1>2, <1>3, <1>6, <1>7, <1>8 DEF IInv

(* Nothing of the position is left: how a sale ends. *)
LEMMA GoneKeeps ==
    ASSUME IInv, NEW sig, Handle(sig), PositionGone, Books(client'), abandoned' \in BOOLEAN,
           stored' = client.cash, client'.cash >= client.cash,
           abandoned' \/ (~abandoned /\ client'.crypto < Lot /\ ~TradeOpen(client')),
           Protected => client'.open = {}
    PROVE  IInv'
<1>1. phase' = "serve" /\ Typed /\ Regular' = Regular /\ UNCHANGED <<load, index>>
      /\ (cfg.type = "profit" /\ Regular => Protected)
  BY HandleIs
<1>2. /\ pos' = NoPosition /\ state' = "IDLE" /\ UNCHANGED <<loading, cfg, entries, ticks>>
      /\ DOMAIN pos' = {"active", "entry", "high", "armed"} /\ pos'.active = FALSE /\ pos'.armed = FALSE
  BY DEF PositionGone, NoPosition, E!ResetPosition, E!market
<1>3. Typed'
  <2>1. stored' \in 0..client'.cash
    BY <1>1 DEF Typed, Books
  <2>2. QED
    BY <1>2, <2>1, HandledTyped DEF E!StrategyState
<1>4. Story'
  <2>1. ~(state' \in E!Holding) /\ (~abandoned' => client'.crypto < Lot /\ ~TradeOpen(client'))
    BY <1>2 DEF E!Holding
  <2>2. pos'.active = (state' \in E!Holding)
    <3>1. (state' \in E!Holding) = FALSE
      BY <2>1
    <3>2. pos'.active = FALSE
      BY <1>2
    <3>3. QED
      BY <3>1, <3>2, Zenon
  <2>3. ~pos'.active /\ phase' # "load" /\ phase' # "handle" /\ state' # "PENDING_BUY"
    BY <1>1, <1>2
  <2>4. QED
    BY <2>1, <2>2, <2>3, Zenon DEF Story
<1>5. Protected => Protected'
  BY <1>1, <1>2 DEF Protected
<1>6. QED
  BY <1>1, <1>2, <1>3, <1>4, <1>5 DEF IInv

LEMMA SellKeeps == ASSUME IInv, SignalSell PROVE IInv'
<1>1. Handle("Sell") /\ pos.active /\ stored' = client.cash
  BY DEF SignalSell
<1>2. /\ phase = "handle" /\ signal = "Sell" /\ phase' = "serve"
      /\ UNCHANGED <<file, load, capital, index, signal>>
      /\ Current \in Candle /\ Typed /\ Story /\ Signalled /\ Regular' = Regular /\ LotWorthless' = LotWorthless
      /\ cfg.type = "profit" /\ Regular => Protected
  BY <1>1, HandleIs
<1>3. Books(client) /\ TradeOpen(client) /\ abandoned \in BOOLEAN /\ client.cash \in 0..client.cash
  BY <1>1, <1>2 DEF Typed, Story, Books
<1>4. CASE LeftToStop(Current.price) /\ UNCHANGED <<client, pos, abandoned, engine>>
  <2>1. Typed'
    BY <1>1, <1>2, <1>3, <1>4, HandledTyped DEF Typed, engine
  <2>2. Story'
    BY <1>1, <1>2, <1>4 DEF Story, TradeOpen, engine, Signalled
  <2>3. ~Protected
    BY <1>2, <1>4 DEF Protected, LeftToStop
  <2>4. QED
    BY <1>2, <1>4, <2>1, <2>2, <2>3 DEF IInv, engine
<1>5. CASE PositionGone /\ client' \in Freed(client) /\ abandoned' = TRUE
  <2>1. Books(client') /\ client'.open = {} /\ client'.cash >= client.cash
    BY <1>3, <1>5, FreedIs DEF SameAccounts
  <2>2. QED
    BY <1>1, <1>5, <2>1, GoneKeeps
<1>6. CASE /\ PositionGone /\ abandoned' = abandoned
           /\ \E c \in Freed(client) : client' = Sold(c, FormatOrderAmount(c.crypto), Current, cfg.type)
  <2>1. PICK c \in Freed(client) : client' = Sold(c, FormatOrderAmount(c.crypto), Current, cfg.type)
    BY <1>6
  <2>2. Books(c) /\ c.open = {} /\ TradeOpen(c) /\ c.cash = client.cash
    BY <1>3, FreedIs DEF SameAccounts, TradeOpen
  <2>3. FormatOrderAmount(c.crypto) \in 0..c.crypto /\ c.crypto - FormatOrderAmount(c.crypto) < Lot
    BY <2>2, FormattedIs DEF Books
  <2>4. /\ Books(client') /\ client'.open = {} /\ client'.cash >= client.cash
        /\ client'.crypto < Lot /\ ~TradeOpen(client')
    BY <1>2, <2>1, <2>2, <2>3, SoldIs
  <2>5. QED
    BY <1>1, <1>3, <1>6, <2>4, GoneKeeps
<1>7. QED
  BY <1>4, <1>5, <1>6 DEF SignalSell

LEMMA WaitingSellKeeps == ASSUME IInv, SignalWaitingSellFill PROVE IInv'
<1>1. Handle("WaitingSellFill") /\ pos.active /\ stored' = client.cash
  BY DEF SignalWaitingSellFill
<1>2. /\ phase = "handle" /\ signal = "WaitingSellFill" /\ phase' = "serve"
      /\ UNCHANGED <<file, load, capital, index, signal>>
      /\ Typed /\ Story /\ Signalled /\ Regular' = Regular /\ LotWorthless' = LotWorthless
      /\ cfg.type = "profit" /\ Regular => Protected
  BY <1>1, HandleIs
<1>3. Books(client) /\ state = "PENDING_SELL" /\ client.cash \in 0..client.cash
  BY <1>2 DEF Typed, Signalled, Books
<1>4. ~Protected
  BY <1>2, <1>3 DEF Protected
<1>5. CASE PositionGone /\ abandoned' = TRUE /\ UNCHANGED client
  BY <1>1, <1>3, <1>4, <1>5, GoneKeeps
<1>6. CASE E!RetrySignal /\ client' \in Freed(client) /\ UNCHANGED <<pos, abandoned>>
  <2>1. state' = "IN_POSITION" /\ UNCHANGED <<loading, entries, ticks, cfg, entry>>
    BY <1>3, <1>6 DEF E!RetrySignal, E!market
  <2>2. Books(client') /\ SameAccounts(client, client')
    BY <1>3, <1>6, FreedIs
  <2>3. Typed'
    <3>1. stored' \in 0..client'.cash
      BY <1>1, <1>3, <2>2 DEF SameAccounts
    <3>2. QED
      BY <1>1, <1>2, <1>6, <2>1, <2>2, <3>1, HandledTyped DEF Typed, E!StrategyState
  <2>4. Story'
    <3>1. TradeOpen(client') = TradeOpen(client) /\ client'.trades = client.trades /\ client'.tc = client.tc
          /\ client'.crypto = client.crypto
      BY <2>2 DEF TradeOpen, SameAccounts
    <3>2. (state \in E!Holding) /\ (state' \in E!Holding)
      BY <1>3, <2>1 DEF E!Holding
    <3>3. QED
      BY <1>1, <1>2, <1>6, <2>1, <3>1, <3>2 DEF Story
  <2>5. QED
    BY <1>2, <1>4, <2>1, <2>3, <2>4 DEF IInv
<1>7. QED
  BY <1>5, <1>6 DEF SignalWaitingSellFill
----------------------------------------------------------------------------
LEMMA NextIInv == IInv /\ [Next]_vars => IInv'
<1> SUFFICES ASSUME IInv, [Next]_vars PROVE IInv'
  OBVIOUS
<1>1. ASSUME NEW step \in Steps, ReadRow(step) PROVE IInv'
  BY <1>1, ReadRowKeeps
<1>2. CASE StartBacktest
  BY <1>2, StartKeeps
<1>3. CASE ServeCandle
  <2>1. phase' # "load"
    BY <1>3 DEF ServeCandle
  <2>2. cfg' = cfg /\ Regular' = Regular
    BY <1>3, ServeTyped DEF Regular
  <2>3. QED
    BY <1>3, <2>1, <2>2, ServeTyped, ServeStory, ServeProtected DEF IInv
<1>4. CASE EndOfData
  BY <1>4, EndKeeps
<1>5. CASE SignalSearchingBuyEntry
  BY <1>5, SearchingKeeps
<1>6. CASE SignalBuy
  BY <1>6, BuyKeeps
<1>7. CASE SignalWaitingBuyFill
  BY <1>7, WaitingBuyKeeps
<1>8. CASE SignalTrackingSellExit
  BY <1>8, TrackingKeeps
<1>9. CASE SignalSell
  BY <1>9, SellKeeps
<1>10. CASE SignalWaitingSellFill
  BY <1>10, WaitingSellKeeps
<1>11. CASE UNCHANGED vars
  <2>1. Typed'
    BY <1>11 DEF vars, input, engine, IInv, Typed, LoadInv
  <2>2. Story'
    BY <1>11 DEF vars, input, engine, IInv, Story, Signalled, TradeOpen, LotWorthless
  <2>3. Protected' = Protected /\ Regular' = Regular
    BY <1>11 DEF vars, input, engine, Protected, Regular, Current
  <2>4. QED
    BY <1>11, <2>1, <2>2, <2>3 DEF IInv, vars, engine
<1>12. QED
  BY <1>1, <1>2, <1>3, <1>4, <1>5, <1>6, <1>7, <1>8, <1>9, <1>10, <1>11 DEF Next, Exited

THEOREM Invariant == Spec => []IInv
<1>1. QED
  BY InitIInv, NextIInv, PTL DEF Spec

(* What the history variables record is not forgotten. *)
LEMMA Remembered ==
    ASSUME [Next]_vars
    PROVE  /\ refused' = refused \/ refused' = TRUE
           /\ abandoned' = abandoned \/ abandoned' = TRUE
<1>1. ASSUME NEW step \in Steps, ReadRow(step) PROVE refused' = refused /\ abandoned' = abandoned
  BY <1>1 DEF ReadRow
<1>2. CASE StartBacktest \/ ServeCandle \/ EndOfData
  BY <1>2 DEF StartBacktest, ServeCandle, EndOfData
<1>3. CASE SignalSearchingBuyEntry \/ SignalBuy \/ SignalWaitingBuyFill
  BY <1>3 DEF SignalSearchingBuyEntry, SignalBuy, SignalWaitingBuyFill
<1>4. CASE SignalTrackingSellExit \/ SignalSell \/ SignalWaitingSellFill
  BY <1>4 DEF SignalTrackingSellExit, SignalSell, SignalWaitingSellFill
<1>5. CASE UNCHANGED vars
  BY <1>5 DEF vars
<1>6. QED
  BY <1>1, <1>2, <1>3, <1>4, <1>5 DEF Next, Exited

(* No balance of the simulated exchange is ever negative, whatever the file, *)
(* the capital and the tax, and its candles are in the order of time.        *)
THEOREM BacktestTyped == Spec => []TypeOK
<1>1. IInv /\ refused \in BOOLEAN => TypeOK
  <2> SUFFICES ASSUME IInv, refused \in BOOLEAN PROVE TypeOK
    OBVIOUS
  <2>1. load \in Loading
    BY DEF IInv, Typed, LoadInv
  <2>2. client.open \subseteq Nat /\ client.cash \in Nat /\ stored \in 0..client.cash /\ client.crypto \in Nat
        /\ client.counter \in Nat /\ client.tc \in Nat
    BY DEF IInv, Typed, Books
  <2>3. QED
    BY <2>1, <2>2 DEF IInv, Typed, TypeOK, LoadInv, Spaced
<1>2. Init => refused \in BOOLEAN
  BY DEF Init
<1>3. refused \in BOOLEAN /\ [Next]_vars => (refused \in BOOLEAN)'
  BY Remembered
<1>4. QED
  BY <1>1, <1>2, <1>3, Invariant, PTL DEF Spec

(* Whatever rows are missing, out of order, unreadable or skipped as jumps,  *)
(* no two candles are two intervals apart.                                   *)
THEOREM GapsAreFilled == Spec => []GapsFilled
<1>1. IInv => GapsFilled
  BY DEF IInv, Typed, LoadInv, Spaced, GapsFilled
<1>2. QED
  BY <1>1, Invariant, PTL

(* The only order open at the simulated exchange is the pending stop order.  *)
THEOREM OneOpenOrder == Spec => []OnlyStopOpen
<1>1. IInv => OnlyStopOpen
  BY DEF IInv, Typed, Books, OnlyStopOpen
<1>2. QED
  BY <1>1, Invariant, PTL

(* Engine, database and simulated exchange agree on the position between two *)
(* ticks, for every strategy, unless some asset was given up as too little.  *)
THEOREM StoryAgreed == Spec => []Agreed
<1>1. IInv => Agreed
  <2> SUFFICES ASSUME IInv, phase = "serve", ~abandoned, LotWorthless
               PROVE  /\ state # "PENDING_BUY" /\ pos.active = (state \in E!Holding)
                      /\ pos.active = TradeOpen(client)
                      /\ IF pos.active THEN pos.entry = entry /\ entry = client.trades[client.tc].buy
                                       ELSE client.crypto < Lot
    BY DEF Agreed
  <2>1. state # "PENDING_BUY" /\ pos.active = (state \in E!Holding) /\ pos.active \in BOOLEAN
    BY DEF IInv, Typed, Story
  <2>2. pos.active => TradeOpen(client) /\ pos.entry = entry /\ entry = client.trades[client.tc].buy
    BY DEF IInv, Story
  <2>3. ~pos.active => ~TradeOpen(client) /\ client.crypto < Lot
    BY DEF IInv, Story
  <2>4. TradeOpen(client) \in BOOLEAN
    BY DEF TradeOpen
  <2>5. QED
    BY <2>1, <2>2, <2>3, <2>4
<1>2. QED
  BY <1>1, Invariant, PTL

(* With a profit target and candles one interval apart a protected position  *)
(* never goes on without its stop order.                                     *)
THEOREM StopStays == Spec => []StopKept
<1>1. IInv => StopKept
  BY DEF IInv, Protected, StopKept
<1>2. QED
  BY <1>1, Invariant, PTL
----------------------------------------------------------------------------
(* The trade log while it is written: every trade so far starts at a candle *)
(* that was served by now, at its price, a finished one ends at such a      *)
(* candle that is not earlier, and the next begins no earlier than that.    *)
Priced(hist, ts, price) == \E k \in 1..Len(hist) : hist[k].ts = ts /\ hist[k].price = price

Started(t, hist, now) == t.entry <= now /\ Priced(hist, t.entry, t.buy)
Ended(t, hist, now)   == t.entry <= t.exit /\ t.exit <= now /\ Priced(hist, t.exit, t.sell) /\ Given(t.reason)

LogUntil(c, hist, now) ==
    \A k \in 1..Len(c.trades) :
        /\ Started(c.trades[k], hist, now)
        /\ k < c.tc => Ended(c.trades[k], hist, now)
        /\ k > 1 => c.trades[k - 1].exit <= c.trades[k].entry

Logged ==
    /\ phase = "load" \/ index = 0 => client.trades = <<>>
    /\ phase = "over" => ~TradeOpen(client)
    /\ client.trades # <<>> => LogUntil(client, load.hist, Current.ts)

(* What a purchase writes to the log. *)
LEMMA BoughtLogs ==
    ASSUME NEW c, Books(c), NEW amount, NEW candle \in Candle
    PROVE  LET d == Bought(c, amount, candle) IN
           /\ d.tc = c.tc /\ Len(d.trades) = c.tc
           /\ d.trades[c.tc].entry = candle.ts /\ d.trades[c.tc].buy = candle.price
           /\ \A k \in 1..c.tc - 1 : d.trades[k] = c.trades[k]
<1> DEFINE d == Bought(c, amount, candle)
           t == [entry |-> candle.ts, buy |-> candle.price, exit |-> 0, sell |-> 0, reason |-> ""]
           done == SubSeq(c.trades, 1, c.tc - 1)
<1>1. d.trades = done \o <<t>> /\ d.tc = c.tc
  BY DEF Bought, Books
<1>2. t \in Trade /\ t.entry = candle.ts /\ t.buy = candle.price
  BY DEF Trade, Reasons, Candle
<1> HIDE DEF d, t
<1>3. c.trades \in Seq(Trade) /\ c.tc \in Nat \ {0} /\ c.tc - 1 \in 0..Len(c.trades) /\ Len(c.trades) \in Nat
  BY DEF Books
<1>4. done \in Seq(Trade) /\ Len(done) = c.tc - 1 /\ \A k \in 1..c.tc - 1 : done[k] = c.trades[k]
  <2>1. \A i \in 1..c.tc - 1 : c.trades[i] \in Trade
    BY <1>3
  <2>2. QED
    BY <1>3, <2>1, SubSeqProperties
<1> HIDE DEF done
<1>5. Append(done, t) = done \o <<t>>
  BY <1>2, <1>4, AppendIsConcat, Zenon
<1>6. d.trades = Append(done, t)
  BY <1>1, <1>5, Zenon
<1>7. /\ Len(d.trades) = c.tc /\ d.trades[c.tc] = t
      /\ \A k \in 1..c.tc - 1 : d.trades[k] = done[k]
  BY <1>2, <1>3, <1>4, <1>6, AppendProperties
<1>8. QED
  BY <1>1, <1>2, <1>4, <1>7 DEF d

(* What the end of a trade writes to it. *)
LEMMA FinishedLogs ==
    ASSUME NEW c, Books(c), TradeOpen(c), NEW candle \in Candle, NEW why
    PROVE  LET d == Finished(c, candle, why) IN
           /\ d.tc = c.tc + 1 /\ Len(d.trades) = Len(c.trades) /\ c.tc = Len(c.trades)
           /\ d.trades[c.tc].entry = c.trades[c.tc].entry /\ d.trades[c.tc].buy = c.trades[c.tc].buy
           /\ d.trades[c.tc].exit = candle.ts /\ d.trades[c.tc].sell = candle.price
           /\ d.trades[c.tc].reason = why
           /\ \A k \in 1..c.tc - 1 : d.trades[k] = c.trades[k]
<1> DEFINE d == Finished(c, candle, why)
           t == [c.trades[c.tc] EXCEPT !.exit = candle.ts, !.sell = candle.price, !.reason = why]
<1>1. d.trades = [c.trades EXCEPT ![c.tc] = t] /\ d.tc = c.tc + 1
  BY DEF Finished, Books
<1>2. c.trades \in Seq(Trade) /\ c.tc \in 1..Len(c.trades) /\ c.tc = Len(c.trades) /\ Len(c.trades) \in Nat
  BY DEF Books, TradeOpen
<1>3. c.trades[c.tc] \in Trade
  BY <1>2
<1>4. /\ t.entry = c.trades[c.tc].entry /\ t.buy = c.trades[c.tc].buy
      /\ t.exit = candle.ts /\ t.sell = candle.price /\ t.reason = why
  BY <1>3 DEF Trade
<1> HIDE DEF d, t
<1>5. d.trades[c.tc] = t /\ Len(d.trades) = Len(c.trades) /\ \A k \in 1..c.tc - 1 : d.trades[k] = c.trades[k]
  BY <1>1, <1>2
<1>6. QED
  BY <1>1, <1>2, <1>4, <1>5 DEF d

(* Time passes, and nothing is written. *)
LEMMA LogLater ==
    ASSUME NEW c, Books(c), NEW hist, NEW now \in Nat, NEW later \in Nat, now <= later, LogUntil(c, hist, now),
           NEW d, d.trades = c.trades, d.tc = c.tc
    PROVE  LogUntil(d, hist, later)
<1>1. c.trades \in Seq(Trade) /\ Len(c.trades) \in Nat
  BY DEF Books
<1>2. ASSUME NEW k \in 1..Len(c.trades)
      PROVE  /\ Started(c.trades[k], hist, later)
             /\ k < c.tc => Ended(c.trades[k], hist, later)
  <2>1. c.trades[k].entry \in Nat /\ c.trades[k].exit \in Nat
    <3>1. c.trades[k] \in Trade
      BY <1>1
    <3>2. QED
      BY <3>1 DEF Trade
  <2>2. Started(c.trades[k], hist, now) /\ (k < c.tc => Ended(c.trades[k], hist, now))
    BY DEF LogUntil
  <2>3. QED
    BY <2>1, <2>2 DEF Started, Ended
<1>3. QED
  BY <1>2 DEF LogUntil

(* A purchase at the candle of now is logged. *)
LEMMA LogBought ==
    ASSUME NEW c, Books(c), NEW hist, NEW candle \in Candle, Priced(hist, candle.ts, candle.price),
           c.trades # <<>> => LogUntil(c, hist, candle.ts), NEW amount
    PROVE  LogUntil(Bought(c, amount, candle), hist, candle.ts)
<1> DEFINE d == Bought(c, amount, candle)
<1>1. /\ d.tc = c.tc /\ Len(d.trades) = c.tc
      /\ d.trades[c.tc].entry = candle.ts /\ d.trades[c.tc].buy = candle.price
      /\ \A k \in 1..c.tc - 1 : d.trades[k] = c.trades[k]
  BY BoughtLogs
<1> HIDE DEF d
<1>2. c.tc \in Nat \ {0} /\ Len(c.trades) \in {c.tc - 1, c.tc} /\ candle.ts \in Nat /\ c.trades \in Seq(Trade)
  BY DEF Books, Candle
<1>3. ASSUME NEW k \in 1..c.tc - 1
      PROVE  /\ Started(d.trades[k], hist, candle.ts) /\ Ended(d.trades[k], hist, candle.ts)
             /\ k > 1 => d.trades[k - 1].exit <= d.trades[k].entry
             /\ d.trades[k].exit <= candle.ts
  <2>1. k \in 1..Len(c.trades) /\ k < c.tc /\ c.trades # <<>> /\ (k > 1 => k - 1 \in 1..c.tc - 1)
    BY <1>2
  <2>2. /\ Started(c.trades[k], hist, candle.ts) /\ Ended(c.trades[k], hist, candle.ts)
        /\ k > 1 => c.trades[k - 1].exit <= c.trades[k].entry
    BY <2>1 DEF LogUntil
  <2>3. QED
    BY <1>1, <2>1, <2>2 DEF Ended
<1>4. Started(d.trades[c.tc], hist, candle.ts)
  BY <1>1, <1>2 DEF Started
<1>5. c.tc > 1 => d.trades[c.tc - 1].exit <= d.trades[c.tc].entry
  <2>1. c.tc > 1 => c.tc - 1 \in 1..c.tc - 1
    BY <1>2
  <2>2. QED
    BY <1>1, <1>3, <2>1
<1>6. ASSUME NEW k \in 1..Len(d.trades)
      PROVE  /\ Started(d.trades[k], hist, candle.ts)
             /\ k < d.tc => Ended(d.trades[k], hist, candle.ts)
             /\ k > 1 => d.trades[k - 1].exit <= d.trades[k].entry
  <2>1. k = c.tc \/ k \in 1..c.tc - 1
    BY <1>1, <1>2
  <2>2. QED
    BY <1>1, <1>2, <1>3, <1>4, <1>5, <2>1
<1>7. QED
  BY <1>6 DEF LogUntil, d

(* So is the end of a trade. *)
LEMMA LogFinished ==
    ASSUME NEW c, Books(c), TradeOpen(c), NEW hist, NEW candle \in Candle, Priced(hist, candle.ts, candle.price),
           LogUntil(c, hist, candle.ts), NEW why, Given(why)
    PROVE  LogUntil(Finished(c, candle, why), hist, candle.ts)
<1> SUFFICES ASSUME NEW d, d = Finished(c, candle, why)
             PROVE  LogUntil(d, hist, candle.ts)
  OBVIOUS
<1>1. /\ d.tc = c.tc + 1 /\ Len(d.trades) = Len(c.trades) /\ c.tc = Len(c.trades)
      /\ d.trades[c.tc].entry = c.trades[c.tc].entry /\ d.trades[c.tc].buy = c.trades[c.tc].buy
      /\ d.trades[c.tc].exit = candle.ts /\ d.trades[c.tc].sell = candle.price
      /\ d.trades[c.tc].reason = why
      /\ \A k \in 1..c.tc - 1 : d.trades[k] = c.trades[k]
  BY FinishedLogs
<1>2. c.tc \in 1..Len(c.trades) /\ Len(c.trades) \in Nat /\ candle.ts \in Nat
  BY DEF Books, TradeOpen, Candle
<1>3. ASSUME NEW k \in 1..Len(c.trades)
      PROVE  /\ Started(c.trades[k], hist, candle.ts)
             /\ k < c.tc => Ended(c.trades[k], hist, candle.ts)
             /\ k > 1 => c.trades[k - 1].exit <= c.trades[k].entry
  BY DEF LogUntil
<1>4. Started(d.trades[c.tc], hist, candle.ts) /\ Ended(d.trades[c.tc], hist, candle.ts)
  <2>1. Started(c.trades[c.tc], hist, candle.ts)
    BY <1>1, <1>2, <1>3
  <2>2. QED
    BY <1>1, <1>2, <2>1 DEF Started, Ended
<1>5. ASSUME NEW k \in 1..Len(d.trades)
      PROVE  /\ Started(d.trades[k], hist, candle.ts) /\ Ended(d.trades[k], hist, candle.ts)
             /\ k > 1 => d.trades[k - 1].exit <= d.trades[k].entry
  <2>1. k \in 1..Len(c.trades) /\ (k = c.tc \/ (k \in 1..c.tc - 1 /\ k < c.tc)) /\ (k > 1 => k - 1 \in 1..c.tc - 1)
    BY <1>1, <1>2
  <2>2. /\ Started(c.trades[k], hist, candle.ts)
        /\ k < c.tc => Ended(c.trades[k], hist, candle.ts)
        /\ k > 1 => c.trades[k - 1].exit <= c.trades[k].entry
    BY <1>3, <2>1
  <2>3. d.trades[k].entry = c.trades[k].entry /\ (k > 1 => d.trades[k - 1] = c.trades[k - 1])
    BY <1>1, <2>1
  <2>4. CASE k = c.tc
    BY <1>4, <2>2, <2>3, <2>4
  <2>5. CASE k \in 1..c.tc - 1
    BY <1>1, <2>1, <2>2, <2>3, <2>5
  <2>6. QED
    BY <2>1, <2>4, <2>5
<1>6. QED
  BY <1>5 DEF LogUntil

(* And a sale. *)
LEMMA LogSold ==
    ASSUME NEW c, Books(c), TradeOpen(c), NEW hist, NEW candle \in Candle, Priced(hist, candle.ts, candle.price),
           LogUntil(c, hist, candle.ts), NEW type, NEW amount \in 0..c.crypto
    PROVE  LogUntil(Sold(c, amount, candle, type), hist, candle.ts)
<1> DEFINE b == Paid(c, amount, candle)
           why == Verdict(c, candle, type)
<1>1. /\ Sold(c, amount, candle, type) = Finished(b, candle, why)
      /\ Books(b) /\ TradeOpen(b) /\ b.trades = c.trades /\ b.tc = c.tc /\ Given(why)
  BY SoldFinishes
<1> HIDE DEF b, why
<1>2. LogUntil(b, hist, candle.ts)
  BY <1>1 DEF LogUntil
<1>3. LogUntil(Finished(b, candle, why), hist, candle.ts)
  BY <1>1, <1>2, LogFinished
<1>4. QED
  BY <1>1, <1>3

(* The candle of now is among those that were served. *)
LEMMA CurrentPriced ==
    ASSUME Typed, index # 0
    PROVE  Current \in Candle /\ Current.ts \in Nat /\ Priced(load.hist, Current.ts, Current.price)
<1>1. index \in 1..Len(load.hist) /\ Current \in Candle
  BY CurrentIs DEF Typed, LoadInv, Spaced
<1>2. QED
  BY <1>1 DEF Priced, Current, Candle

(* Steps that write no trade keep the log. *)
LEMMA QuietKeeps ==
    ASSUME Typed, Typed', Logged, phase \in {"serve", "handle"}, phase' \in {"serve", "handle"}, load' = load,
           index' \in {index, index + 1}, client'.trades = client.trades, client'.tc = client.tc
    PROVE  Logged'
<1>1. /\ load.hist \in Seq(Candle) /\ Len(load.hist) \in Nat /\ index \in 0..Len(load.hist)
      /\ index' \in 0..Len(load.hist)
      /\ \A k \in 2..Len(load.hist) : load.hist[k - 1].ts <= load.hist[k].ts
  BY DEF Typed, LoadInv, Spaced
<1>2. index' = 0 => client'.trades = <<>>
  BY <1>1 DEF Logged
<1>3. ASSUME client'.trades # <<>> PROVE LogUntil(client', load.hist, Current'.ts)
  <2>1. index # 0 /\ index' # 0 /\ client.trades # <<>>
    BY <1>1, <1>3 DEF Logged
  <2>2. Current.ts \in Nat /\ Current'.ts \in Nat
    <3>1. Current.ts \in Nat
      BY <2>1, CurrentPriced
    <3>2. load'.hist[index'] \in Candle
      BY <1>1, <2>1
    <3>3. QED
      BY <3>1, <3>2 DEF Current, Candle
  <2>3. Current.ts <= Current'.ts
    <3>1. CASE index' = index
      BY <2>2, <3>1 DEF Current
    <3>2. CASE index' = index + 1
      <4>1. index' \in 2..Len(load.hist) /\ index' - 1 = index
        BY <1>1, <2>1, <3>2
      <4>2. QED
        BY <1>1, <4>1 DEF Current
    <3>3. QED
      BY <3>1, <3>2
  <2>4. Books(client) /\ LogUntil(client, load.hist, Current.ts)
    BY <2>1 DEF Typed, Logged
  <2>5. QED
    BY <2>2, <2>3, <2>4, LogLater
<1>4. QED
  BY <1>2, <1>3 DEF Logged

(* The log when the candles are used up. *)
LEMMA EndLogs == ASSUME IInv, Logged, EndOfData PROVE Logged'
<1>1. /\ phase = "serve" /\ phase' = "over" /\ index = Len(load.hist) /\ index' = index /\ load' = load
      /\ client' = Closed(client, Last(load.hist))
  BY DEF EndOfData, input
<1>2. Typed /\ Books(client) /\ load.hist # <<>> /\ load.hist \in Seq(Candle)
  BY <1>1 DEF IInv, Typed, LoadInv, Spaced
<1>3. index # 0 /\ Last(load.hist) = Current /\ Current' = Current
  BY <1>1, <1>2, EmptySeq DEF Last, Current
<1>4. Current \in Candle /\ Priced(load.hist, Current.ts, Current.price)
  BY <1>2, <1>3, CurrentPriced
<1>5. CASE TradeOpen(client)
  <2>1. client' = Finished(client, Current, "end_of_data") /\ "end_of_data" \in Reasons
        /\ Given("end_of_data")
    BY <1>1, <1>3, <1>5 DEF Closed, Reasons, Given
  <2>2. LogUntil(client, load.hist, Current.ts)
    <3>1. client.trades # <<>>
      BY <1>5 DEF TradeOpen
    <3>2. QED
      BY <3>1 DEF Logged
  <2>3. LogUntil(client', load.hist, Current.ts)
    BY <1>2, <1>4, <1>5, <2>1, <2>2, LogFinished
  <2>4. ~TradeOpen(client')
    BY <1>2, <1>4, <1>5, <2>1, FinishedIs
  <2>5. QED
    BY <1>1, <1>3, <2>3, <2>4 DEF Logged
<1>6. CASE ~TradeOpen(client)
  <2>1. client' = client
    BY <1>1, <1>6 DEF Closed
  <2>2. QED
    BY <1>1, <1>3, <1>6, <2>1 DEF Logged
<1>7. QED
  BY <1>5, <1>6

(* The log after a purchase, and after a sale. *)
LEMMA BuyLogs == ASSUME IInv, IInv', Logged, SignalBuy PROVE Logged'
<1>1. Handle("Buy")
  BY DEF SignalBuy
<1>2. /\ phase = "handle" /\ phase' = "serve" /\ load' = load /\ index' = index /\ index # 0
      /\ Typed /\ Typed' /\ Books(client) /\ Current' = Current
  BY <1>1, HandleIs DEF IInv, Typed, Current
<1>3. Current \in Candle /\ Priced(load.hist, Current.ts, Current.price)
  BY <1>2, CurrentPriced
<1>4. CASE UNCHANGED client
  BY <1>2, <1>4, QuietKeeps
<1>5. CASE client' = Bought(client, Units(Current.price), Current)
  <2>1. LogUntil(client', load.hist, Current.ts)
    BY <1>2, <1>3, <1>5, LogBought DEF Logged
  <2>2. QED
    BY <1>2, <2>1 DEF Logged
<1>6. QED
  BY <1>4, <1>5 DEF SignalBuy, Units

LEMMA SellLogs == ASSUME IInv, IInv', Logged, SignalSell PROVE Logged'
<1>1. Handle("Sell") /\ pos.active
  BY DEF SignalSell
<1>2. /\ phase = "handle" /\ phase' = "serve" /\ load' = load /\ index' = index /\ index # 0
      /\ Typed /\ Typed' /\ Books(client) /\ Current' = Current
  BY <1>1, HandleIs DEF IInv, Typed, Current
<1>3. Current \in Candle /\ Priced(load.hist, Current.ts, Current.price) /\ TradeOpen(client)
  BY <1>1, <1>2, CurrentPriced DEF IInv, Story
<1>4. CASE client' = client \/ client' \in Freed(client)
  <2>1. client'.trades = client.trades /\ client'.tc = client.tc
    BY <1>2, <1>4, FreedIs DEF SameAccounts
  <2>2. QED
    BY <1>2, <2>1, QuietKeeps
<1>5. CASE \E c \in Freed(client) : client' = Sold(c, FormatOrderAmount(c.crypto), Current, cfg.type)
  <2>1. PICK c \in Freed(client) : client' = Sold(c, FormatOrderAmount(c.crypto), Current, cfg.type)
    BY <1>5
  <2>2. Books(c) /\ c.trades = client.trades /\ c.tc = client.tc
    BY <1>2, FreedIs DEF SameAccounts
  <2>3. LogUntil(client, load.hist, Current.ts)
    <3>1. client.trades # <<>>
      BY <1>3 DEF TradeOpen
    <3>2. QED
      BY <3>1 DEF Logged
  <2>4. TradeOpen(c) /\ LogUntil(c, load.hist, Current.ts)
    BY <1>3, <2>2, <2>3 DEF TradeOpen, LogUntil
  <2>5. FormatOrderAmount(c.crypto) \in 0..c.crypto
    BY <2>2, FormattedIs DEF Books
  <2>6. LogUntil(client', load.hist, Current.ts)
    BY <1>3, <2>1, <2>2, <2>4, <2>5, LogSold
  <2>7. QED
    BY <1>2, <2>6 DEF Logged
<1>6. QED
  BY <1>4, <1>5 DEF SignalSell

LEMMA LoggedKept == ASSUME IInv, IInv', Logged, [Next]_vars PROVE Logged'
<1>1. ASSUME NEW step \in Steps, ReadRow(step) PROVE Logged'
  BY <1>1 DEF ReadRow, Logged
<1>2. CASE StartBacktest
  <2>1. client.trades = <<>> /\ client' = client /\ index' = index
    BY <1>2 DEF StartBacktest, Logged
  <2>2. ~TradeOpen(client')
    BY <2>1 DEF TradeOpen
  <2>3. QED
    BY <2>1, <2>2 DEF Logged
<1>3. CASE ServeCandle
  <2>1. SameAccounts(client, client') /\ index' = index + 1 /\ load' = load
    BY <1>3, ServeTyped
  <2>2. phase = "serve" /\ phase' \in {"serve", "handle"}
    BY <1>3 DEF ServeCandle
  <2>3. QED
    BY <2>1, <2>2, QuietKeeps DEF IInv, SameAccounts
<1>4. CASE EndOfData
  BY <1>4, EndLogs
<1>5. ASSUME NEW sig, Handle(sig), client'.trades = client.trades, client'.tc = client.tc PROVE Logged'
  <2>1. phase = "handle" /\ phase' = "serve" /\ load' = load /\ index' = index
    BY <1>5, HandleIs
  <2>2. QED
    BY <1>5, <2>1, QuietKeeps DEF IInv
<1>6. CASE SignalSearchingBuyEntry \/ SignalWaitingBuyFill
  BY <1>5, <1>6 DEF SignalSearchingBuyEntry, SignalWaitingBuyFill
<1>7. CASE SignalBuy
  BY <1>7, BuyLogs
<1>8. CASE SignalTrackingSellExit
  <2>1. Handle("TrackingSellExit") /\ Books(client)
    BY <1>8 DEF SignalTrackingSellExit, IInv, Typed
  <2>2. client' = client \/ (client.open = {} /\ client' = StopPlaced(client, pos.entry * (Unit - cfg.stop)))
    BY <1>8 DEF SignalTrackingSellExit
  <2>3. client'.trades = client.trades /\ client'.tc = client.tc
    BY <2>1, <2>2, StopPlacedIs DEF SameAccounts
  <2>4. QED
    BY <1>5, <2>1, <2>3
<1>9. CASE SignalSell
  BY <1>9, SellLogs
<1>10. CASE SignalWaitingSellFill
  <2>1. Handle("WaitingSellFill") /\ Books(client) /\ (client' = client \/ client' \in Freed(client))
    BY <1>10 DEF SignalWaitingSellFill, IInv, Typed
  <2>2. client'.trades = client.trades /\ client'.tc = client.tc
    BY <2>1, FreedIs DEF SameAccounts
  <2>3. QED
    BY <1>5, <2>1, <2>2
<1>11. CASE UNCHANGED vars
  BY <1>11 DEF vars, input, Logged, Current
<1>12. QED
  BY <1>1, <1>2, <1>3, <1>4, <1>6, <1>7, <1>8, <1>9, <1>10, <1>11 DEF Next, Exited

(* The trades of the log follow one another, each from a candle to one that  *)
(* is not earlier and at the prices of both, for every file and strategy, and*)
(* for assets given up too: their trade is written over or ends with the data.*)
THEOREM LogIsFaithful == Spec => []LogFaithful
<1>1. Init => Logged
  BY DEF Init, NewClient, Logged
<1>2. IInv /\ IInv' /\ Logged /\ [Next]_vars => Logged'
  BY LoggedKept
<1>3. IInv /\ Logged => LogFaithful
  <2> SUFFICES ASSUME IInv, Logged, phase = "over" PROVE LogFaithful
    BY DEF LogFaithful
  <2> DEFINE PricesAt(ts) == {load.hist[k].price : k \in {j \in DOMAIN load.hist : load.hist[j].ts = ts}}
  <2>1. client.trades \in Seq(Trade) /\ Len(client.trades) = client.tc - 1 /\ client.tc \in Nat
        /\ DOMAIN load.hist = 1..Len(load.hist)
    <3>1. Books(client) /\ LoadInv
      BY DEF IInv, Typed
    <3>2. QED
      BY <3>1 DEF Books, LoadInv, Spaced, Logged, TradeOpen
  <2>2. \A ts, price : Priced(load.hist, ts, price) => price \in PricesAt(ts)
    BY <2>1 DEF Priced
  <2> HIDE DEF PricesAt
  <2>3. ASSUME NEW k \in DOMAIN client.trades
        PROVE  LET t == client.trades[k] IN
               /\ t.entry <= t.exit /\ t.reason # ""
               /\ t.buy \in PricesAt(t.entry) /\ t.sell \in PricesAt(t.exit)
               /\ k > 1 => client.trades[k - 1].exit <= t.entry
    <3>1. k \in 1..Len(client.trades) /\ k < client.tc /\ client.trades # <<>>
      BY <2>1
    <3>2. /\ Started(client.trades[k], load.hist, Current.ts)
          /\ Ended(client.trades[k], load.hist, Current.ts)
          /\ k > 1 => client.trades[k - 1].exit <= client.trades[k].entry
      BY <3>1 DEF Logged, LogUntil
    <3>3. QED
      BY <2>2, <3>2 DEF Started, Ended, Given
  <2>4. QED
    BY <2>1, <2>3 DEF LogFaithful, PricesAt
<1>4. QED
  BY <1>1, <1>2, <1>3, Invariant, PTL DEF Spec
----------------------------------------------------------------------------
(* What Parity needs: the simulator reads the same candles, the engine keeps *)
(* of them what the simulator would look up, and the two decide the same at  *)
(* every candle, so that client and simulator stand the same after each.     *)
(* First the loop over the lines, by its equation.                           *)
Line(f, l, n) == IF n = 0 THEN [history |-> <<>>, failed |-> FALSE] ELSE Ref!ReadLine(l, f[n])
ReadTo(f, m, r) == r = [n \in 0..m |-> Line(f, r[n - 1], n)]

LEMMA ReadIs ==
    ASSUME NEW f, Len(f) \in Nat
    PROVE  \A n \in 0..Len(f) : Ref!Read(f)[n] = Line(f, Ref!Read(f)[n - 1], n)
<1>1. \A m \in Nat : \E r : ReadTo(f, m, r)
  <2> SUFFICES ASSUME NEW S, S = {m \in Nat : ~\E r : ReadTo(f, m, r)}, S # {}
               PROVE  FALSE
    OBVIOUS
  <2>1. E!Min(S) \in S /\ \A y \in S : E!Min(S) <= y
    BY Least
  <2>2. PICK m \in S : \A y \in S : m <= y
    BY <2>1
  <2>3. CASE m = 0
    <3>1. ReadTo(f, 0, [n \in 0..0 |-> [history |-> <<>>, failed |-> FALSE]])
      BY DEF ReadTo, Line
    <3>2. QED
      BY <2>2, <2>3, <3>1
  <2>4. CASE m # 0
    <3>1. m \in Nat /\ m - 1 \in Nat /\ m - 1 \notin S
      BY <2>2, <2>4
    <3>2. PICK g : ReadTo(f, m - 1, g)
      BY <3>1
    <3> DEFINE r == [n \in 0..m |-> Line(f, g[n - 1], n)]
    <3>3. \A n \in 0..m - 1 : r[n] = g[n]
      <4>1. \A n \in 0..m - 1 : g[n] = Line(f, g[n - 1], n)
        BY <3>2 DEF ReadTo
      <4>2. QED
        BY <3>1, <4>1
    <3>4. \A n \in 0..m : Line(f, r[n - 1], n) = Line(f, g[n - 1], n)
      <4>1. TAKE n \in 0..m
      <4>2. CASE n = 0
        BY <4>2 DEF Line
      <4>3. CASE n # 0
        <5>1. n - 1 \in 0..m - 1
          BY <4>3, <3>1
        <5>2. QED
          BY <5>1, <3>3
      <4>4. QED
        BY <4>2, <4>3
    <3>5. r = [n \in 0..m |-> Line(f, r[n - 1], n)]
      BY <3>4, Zenon
    <3>6. ReadTo(f, m, r)
      BY <3>5 DEF ReadTo
    <3>7. QED
      BY <3>6, <3>1, <2>2
  <2>5. QED
    BY <2>3, <2>4
<1>2. ReadTo(f, Len(f), CHOOSE r : ReadTo(f, Len(f), r))
  BY <1>1
<1>3. Ref!Read(f) = CHOOSE r : ReadTo(f, Len(f), r)
  BY Zenon DEF Ref!Read, ReadTo, Line
<1>4. QED
  BY <1>2, <1>3 DEF ReadTo

(* A line more changes nothing of what was read before it. *)
LEMMA ReadMore ==
    ASSUME NEW f \in Seq(Row), NEW row \in Row
    PROVE  LET g == Append(f, row) IN
           \A n \in 0..Len(f) : Ref!Read(g)[n] = Ref!Read(f)[n]
<1> SUFFICES ASSUME NEW g, g = Append(f, row)
             PROVE  \A n \in 0..Len(f) : Ref!Read(g)[n] = Ref!Read(f)[n]
  OBVIOUS
<1> DEFINE S == {n \in 0..Len(f) : Ref!Read(g)[n] # Ref!Read(f)[n]}
<1> SUFFICES ASSUME S # {} PROVE FALSE
  OBVIOUS
<1>1. Len(f) \in Nat /\ Len(g) = Len(f) + 1 /\ \A n \in 1..Len(f) : g[n] = f[n]
  BY AppendProperties
<1>2. S \in SUBSET Nat
  BY <1>1
<1>3. PICK n \in S : \A y \in S : n <= y
  BY <1>2, Least
<1>4. n \in 0..Len(f) /\ n \in 0..Len(g) /\ n \in Nat
  BY <1>1, <1>2
<1>5. /\ Ref!Read(f)[n] = Line(f, Ref!Read(f)[n - 1], n)
      /\ Ref!Read(g)[n] = Line(g, Ref!Read(g)[n - 1], n)
  <2>1. Ref!Read(f)[n] = Line(f, Ref!Read(f)[n - 1], n)
    BY <1>1, <1>4, ReadIs
  <2>2. Len(g) \in Nat
    BY <1>1
  <2>3. Ref!Read(g)[n] = Line(g, Ref!Read(g)[n - 1], n)
    BY <2>2, <1>4, ReadIs
  <2>4. QED
    BY <2>1, <2>3
<1>6. CASE n = 0
  <2>1. Ref!Read(g)[n] = Ref!Read(f)[n]
    BY <1>5, <1>6 DEF Line
  <2>2. QED
    BY <1>3, <2>1
<1>7. CASE n # 0
  <2>1. n - 1 \in 0..Len(f) /\ n - 1 \notin S /\ n \in 1..Len(f)
    BY <1>1, <1>3, <1>4, <1>7
  <2>2. Ref!Read(g)[n - 1] = Ref!Read(f)[n - 1] /\ g[n] = f[n]
    BY <1>1, <2>1
  <2>3. Ref!Read(g)[n] = Ref!Read(f)[n]
    BY <1>5, <1>7, <2>2 DEF Line
  <2>4. QED
    BY <1>3, <2>3
<1>8. QED
  BY <1>6, <1>7

(* The simulator has read what the client has loaded. *)
Equal(l, d) ==
    l = IF d.st = "unsorted" THEN [history |-> d.hist, failed |-> TRUE] ELSE [history |-> d.hist, failed |-> FALSE]

(* The two skip the same rows, and put the same candles between the others. *)
LEMMA JumpsSame ==
    ASSUME NEW p \in Candle, NEW q \in Candle
    PROVE  Ref!Unbelievable(p, q) = JumpsFrom(p, q)
<1>1. p.price \in Nat /\ q.price \in Nat /\ MaxRatio \in Nat
  BY ClientAssumption DEF Candle
<1>2. MaxRatio * p.price \in Nat /\ -MaxRatio * p.price = -(MaxRatio * p.price)
  BY <1>1, SMT
<1>3. QED
  BY <1>1, <1>2 DEF Ref!Unbelievable, JumpsFrom

LEMMA BetweenSame ==
    ASSUME NEW p \in Candle, NEW q \in Candle, p.ts <= q.ts
    PROVE  Ref!Between(p, q) = Artificial(p, q)
<1> SUFFICES ASSUME NEW n, n = (q.ts - p.ts) \div Interval, q.ts - p.ts <= Interval
             PROVE  Ref!Between(p, q) = <<>>
  BY DEF Ref!Between, Artificial
<1>1. q.ts - p.ts \in Nat
  BY DEF Candle
<1>2. n \in 0..1
  BY <1>1, ClientAssumption, SMT
<1>3. 1..n - 1 = {}
  BY <1>2
<1>4. Ref!Between(p, q) = [j \in {} |-> [ts    |-> p.ts + j * Interval,
                                 price |-> p.price + (j * (q.price - p.price)) \div n]]
  BY <1>3, Zenon DEF Ref!Between
<1>5. QED
  BY <1>4

(* So they make the same of a row, unless it lies behind one beyond the period. *)
LEMMA LineSame ==
    ASSUME LoadInv, NEW row \in Row, load.st # "unsorted", load.st = "ended" => row.ts > End,
           NEW l, Equal(l, load)
    PROVE  /\ Equal(Ref!ReadLine(l, row), Loaded(load, row))
           /\ Loaded(load, row).st = "ended" => row.ts > End
<1> SUFFICES ASSUME NEW d, d = Loaded(load, row), NEW m, m = Ref!ReadLine(l, row)
             PROVE  Equal(m, d) /\ (d.st = "ended" => row.ts > End)
  OBVIOUS
<1>0. (\/ d.st # "unsorted" /\ m = [history |-> d.hist, failed |-> FALSE]
       \/ d.st = "unsorted" /\ m = [history |-> d.hist, failed |-> TRUE]) => Equal(m, d)
  BY DEF Equal
<1>1. /\ load \in Loading /\ load.hist \in Seq(Candle) /\ load.st \in {"open", "ended"}
      /\ load = [hist |-> load.hist, st |-> load.st]
      /\ l = [history |-> load.hist, failed |-> FALSE]
      /\ row.ts \in Nat /\ row.price \in Nat /\ Begin \in Nat \ {0} /\ End \in Nat
  BY ClientAssumption DEF LoadInv, Loading, Row, Equal
<1>2. CASE row.ts \notin Begin..End \/ row.price = 0
  <2>1. Ref!ReadLine(l, row) = l
    BY <1>2 DEF Ref!ReadLine
  <2>2. CASE load.st = "ended"
    BY <1>1, <2>1, <2>2 DEF Loaded
  <2>3. CASE load.st = "open" /\ row.ts > End /\ ~(row.ts < Begin)
    <3>1. Loaded(load, row) = [load EXCEPT !.st = "ended"]
      BY <1>1, <2>3 DEF Loaded
    <3>2. d.hist = load.hist /\ d.st = "ended"
      BY <1>1, <3>1
    <3>3. QED
      BY <1>0, <1>1, <2>1, <2>3, <3>2
  <2>4. CASE load.st = "open" /\ ~(row.ts > End /\ ~(row.ts < Begin))
    <3>1. Loaded(load, row) = load
      BY <1>1, <1>2, <2>4 DEF Loaded
    <3>2. QED
      BY <2>1, <2>4, <3>1
  <2>5. QED
    BY <1>1, <2>2, <2>3, <2>4
<1>3. CASE row.ts \in Begin..End /\ row.price # 0
  <2>1. row \in Candle /\ load.st = "open" /\ ~(row.ts > End) /\ ~(row.ts < Begin) /\ ~l.failed /\ l.history = load.hist
    BY <1>1, <1>3 DEF Row, Candle
  <2>2. CASE load.hist = <<>>
    <3>1. Loaded(load, row) = [load EXCEPT !.hist = <<row>>]
      BY <1>3, <2>1, <2>2 DEF Loaded, Joined
    <3>2. Ref!ReadLine(l, row) = [l EXCEPT !.history = <<row>>]
      BY <1>3, <2>1, <2>2 DEF Ref!ReadLine
    <3>3. d.hist = <<row>> /\ d.st = "open" /\ m = [history |-> <<row>>, failed |-> FALSE]
      BY <1>1, <2>1, <3>1, <3>2
    <3>4. QED
      BY <1>0, <3>3
  <2>3. CASE load.hist # <<>>
    <3> DEFINE prev == Last(load.hist)
               all == load.hist \o Artificial(prev, row) \o <<row>>
    <3>1. prev \in Candle /\ prev = l.history[Len(l.history)]
      BY <1>1, <2>1, <2>3, EmptySeq DEF Last
    <3> HIDE DEF prev
    <3>2. Loaded(load, row) = IF row.ts < prev.ts THEN [hist |-> <<>>, st |-> "unsorted"]
                              ELSE IF JumpsFrom(prev, row) THEN load ELSE [load EXCEPT !.hist = all]
      BY <1>3, <2>1, <2>3 DEF Loaded, Joined, prev
    <3>3. Ref!ReadLine(l, row) =
              IF row.ts < prev.ts THEN [history |-> <<>>, failed |-> TRUE]
              ELSE IF Ref!Unbelievable(prev, row) THEN l
              ELSE [l EXCEPT !.history = load.hist \o Ref!Between(prev, row) \o <<row>>]
      BY <1>3, <2>1, <2>3, <3>1 DEF Ref!ReadLine
    <3>4. CASE row.ts < prev.ts
      <4>1. d.hist = <<>> /\ d.st = "unsorted" /\ m = [history |-> <<>>, failed |-> TRUE]
        BY <3>2, <3>3, <3>4
      <4>2. QED
        BY <1>0, <4>1
    <3>5. CASE ~(row.ts < prev.ts) /\ JumpsFrom(prev, row)
      <4>1. Ref!Unbelievable(prev, row)
        BY <2>1, <3>1, <3>5, JumpsSame
      <4>2. QED
        BY <2>1, <3>2, <3>3, <3>5, <4>1
    <3>6. CASE ~(row.ts < prev.ts) /\ ~JumpsFrom(prev, row)
      <4>1. ~Ref!Unbelievable(prev, row)
        BY <2>1, <3>1, <3>6, JumpsSame
      <4>2. prev.ts <= row.ts
        BY <1>1, <3>1, <3>6 DEF Candle
      <4>3. Ref!Between(prev, row) = Artificial(prev, row)
        BY <2>1, <3>1, <4>2, BetweenSame
      <4> HIDE DEF all
      <4>4. Loaded(load, row) = [load EXCEPT !.hist = all] /\ Ref!ReadLine(l, row) = [l EXCEPT !.history = all]
        BY <3>2, <3>3, <3>6, <4>1, <4>3 DEF all
      <4>5. d.hist = all /\ d.st = "open" /\ m = [history |-> all, failed |-> FALSE]
        BY <1>1, <2>1, <4>4
      <4>6. QED
        BY <1>0, <4>5
    <3>7. QED
      BY <3>4, <3>5, <3>6
  <2>4. QED
    BY <2>2, <2>3
<1>4. QED
  BY <1>2, <1>3

(* So it has whenever the client stopped reading for good. *)
Copied ==
    StopsOnce =>
        /\ Equal(Ref!Read(file)[Len(file)], load)
        /\ load.st = "ended" => \E i \in 1..Len(file) : file[i].ts > End

(* Copied is inductive. *)
LEMMA InitCopied == Init => Copied
<1> SUFFICES ASSUME Init PROVE Copied
  OBVIOUS
<1>1. file = <<>> /\ Len(file) = 0 /\ load = [hist |-> <<>>, st |-> "open"]
  BY DEF Init, Fresh
<1>2. Ref!Read(file)[0] = Line(file, Ref!Read(file)[0 - 1], 0)
  <2>1. Len(file) \in Nat /\ 0 \in 0..Len(file)
    BY <1>1
  <2>2. QED
    BY <2>1, ReadIs
<1>3. Ref!Read(file)[Len(file)] = [history |-> <<>>, failed |-> FALSE]
  BY <1>1, <1>2 DEF Line
<1>4. QED
  BY <1>1, <1>3 DEF Copied, Equal

LEMMA ReadRowCopies == ASSUME IInv, Copied, NEW step \in Steps, ReadRow(step) PROVE Copied'
<1> SUFFICES ASSUME StopsOnce'
             PROVE  /\ Equal(Ref!Read(file')[Len(file')], load')
                    /\ load'.st = "ended" => \E i \in 1..Len(file') : file'[i].ts > End
  BY DEF Copied
<1> DEFINE row == [ts |-> step.after + IF file = <<>> THEN 0 ELSE Last(file).ts, price |-> step.price]
<1>1. /\ load.st # "unsorted" /\ row.ts >= 0 /\ file' = Append(file, row) /\ load' = Loaded(load, row)
      /\ file \in Seq(Row) /\ LoadInv
  BY DEF ReadRow, IInv, Typed
<1>2. row \in Row
  <2>1. step.after \in Int /\ step.price \in Nat
    BY BacktestAssumption
  <2>2. file # <<>> => Last(file) \in Row
    BY <1>1, EmptySeq DEF Last
  <2>3. file # <<>> => Last(file).ts \in Nat
    BY <2>2 DEF Row
  <2>4. row.ts \in Nat
    BY <1>1, <2>1, <2>3
  <2>5. QED
    BY <2>1, <2>4 DEF Row
<1> HIDE DEF row
<1>3. /\ Len(file) \in Nat /\ Len(file') = Len(file) + 1 /\ file'[Len(file')] = row
      /\ \A i \in 1..Len(file) : file'[i] = file[i]
      /\ DOMAIN file = 1..Len(file) /\ DOMAIN file' = 1..Len(file')
  BY <1>1, <1>2, AppendProperties
<1>4. StopsOnce
  <2> SUFFICES ASSUME NEW i \in DOMAIN file, NEW j \in DOMAIN file, i < j, file[i].ts > End
               PROVE  file[j].ts > End
    BY DEF StopsOnce
  <2>1. i \in DOMAIN file' /\ j \in DOMAIN file' /\ file'[i] = file[i] /\ file'[j] = file[j]
    BY <1>3
  <2>2. QED
    BY <2>1 DEF StopsOnce
<1>5. load.st = "ended" => row.ts > End
  <2> SUFFICES ASSUME load.st = "ended" PROVE row.ts > End
    OBVIOUS
  <2>1. PICK i \in 1..Len(file) : file[i].ts > End
    BY <1>4 DEF Copied
  <2>2. i \in DOMAIN file' /\ Len(file') \in DOMAIN file' /\ i < Len(file') /\ file'[i].ts > End
    BY <1>3, <2>1
  <2>3. QED
    BY <1>3, <2>2 DEF StopsOnce
<1> DEFINE l == Ref!Read(file)[Len(file)]
           m == Ref!Read(file')[Len(file')]
<1>6. Equal(l, load)
  BY <1>4 DEF Copied
<1>7. m = Ref!ReadLine(l, row)
  <2>1. Len(file') \in Nat /\ Len(file') \in 0..Len(file') /\ Len(file') # 0
    BY <1>3
  <2>2. m = Line(file', Ref!Read(file')[Len(file') - 1], Len(file'))
    BY <2>1, ReadIs
  <2>3. m = Ref!ReadLine(Ref!Read(file')[Len(file') - 1], row)
    BY <1>3, <2>1, <2>2 DEF Line
  <2>4. Len(file') - 1 = Len(file) /\ Len(file) \in 0..Len(file)
    BY <1>3
  <2>5. Ref!Read(file')[Len(file)] = l
    BY <1>1, <1>2, <2>4, ReadMore
  <2>6. QED
    BY <2>3, <2>4, <2>5
<1> HIDE DEF l, m
<1>8. Equal(m, load') /\ (load'.st = "ended" => row.ts > End)
  BY <1>1, <1>2, <1>5, <1>6, <1>7, LineSame
<1>9. Len(file') \in 1..Len(file')
  BY <1>3
<1>10. QED
  BY <1>3, <1>8, <1>9 DEF m

LEMMA CopiedKept == ASSUME IInv, Copied, [Next]_vars PROVE Copied'
<1>1. ASSUME NEW step \in Steps, ReadRow(step) PROVE Copied'
  BY <1>1, ReadRowCopies
<1>2. ASSUME UNCHANGED <<file, load>> PROVE Copied'
  BY <1>2 DEF Copied, StopsOnce
<1>3. CASE StartBacktest \/ ServeCandle \/ EndOfData
  BY <1>2, <1>3 DEF StartBacktest, ServeCandle, EndOfData, input
<1>4. ASSUME NEW sig, Handle(sig) PROVE UNCHANGED <<file, load>>
  BY <1>4 DEF Handle, input
<1>5. CASE SignalSearchingBuyEntry \/ SignalBuy \/ SignalWaitingBuyFill
  BY <1>2, <1>4, <1>5 DEF SignalSearchingBuyEntry, SignalBuy, SignalWaitingBuyFill
<1>6. CASE SignalTrackingSellExit \/ SignalSell \/ SignalWaitingSellFill
  BY <1>2, <1>4, <1>6 DEF SignalTrackingSellExit, SignalSell, SignalWaitingSellFill
<1>7. CASE UNCHANGED vars
  BY <1>2, <1>7 DEF vars, input
<1>8. QED
  BY <1>1, <1>3, <1>5, <1>6, <1>7 DEF Next, Exited

(* The first part of Parity. *)
LEMMA CopiedSame == Copied => (StopsOnce => load.hist = Ref!LoadPriceHistory(file))
BY DEF Copied, Equal, Ref!LoadPriceHistory
----------------------------------------------------------------------------
(* The loop over the candles. *)
Lap(h, c, s, n) == IF n = 0 THEN Ref!Searching ELSE Ref!Pass(s, n, h, c)
LoopTo(h, c, m, r) == r = [n \in 0..m |-> Lap(h, c, r[n - 1], n)]

LEMMA LoopIs ==
    ASSUME NEW h, NEW c, Len(h) \in Nat
    PROVE  \A n \in 0..Len(h) : Ref!Loop(h, c)[n] = Lap(h, c, Ref!Loop(h, c)[n - 1], n)
<1>1. \A m \in Nat : \E r : LoopTo(h, c, m, r)
  <2> SUFFICES ASSUME NEW S, S = {m \in Nat : ~\E r : LoopTo(h, c, m, r)}, S # {}
               PROVE  FALSE
    OBVIOUS
  <2>1. E!Min(S) \in S /\ \A y \in S : E!Min(S) <= y
    BY Least
  <2>2. PICK m \in S : \A y \in S : m <= y
    BY <2>1
  <2>3. CASE m = 0
    <3>1. LoopTo(h, c, 0, [n \in 0..0 |-> Ref!Searching])
      BY DEF LoopTo, Lap
    <3>2. QED
      BY <2>2, <2>3, <3>1
  <2>4. CASE m # 0
    <3>1. m \in Nat /\ m - 1 \in Nat /\ m - 1 \notin S
      BY <2>2, <2>4
    <3>2. PICK g : LoopTo(h, c, m - 1, g)
      BY <3>1
    <3> DEFINE r == [n \in 0..m |-> Lap(h, c, g[n - 1], n)]
    <3>3. \A n \in 0..m - 1 : r[n] = g[n]
      <4>1. \A n \in 0..m - 1 : g[n] = Lap(h, c, g[n - 1], n)
        BY <3>2 DEF LoopTo
      <4>2. QED
        BY <3>1, <4>1
    <3>4. \A n \in 0..m : Lap(h, c, r[n - 1], n) = Lap(h, c, g[n - 1], n)
      <4>1. TAKE n \in 0..m
      <4>2. CASE n = 0
        BY <4>2 DEF Lap
      <4>3. CASE n # 0
        <5>1. n - 1 \in 0..m - 1
          BY <4>3, <3>1
        <5>2. QED
          BY <5>1, <3>3
      <4>4. QED
        BY <4>2, <4>3
    <3>5. r = [n \in 0..m |-> Lap(h, c, r[n - 1], n)]
      BY <3>4, Zenon
    <3>6. LoopTo(h, c, m, r)
      BY <3>5 DEF LoopTo
    <3>7. QED
      BY <3>6, <3>1, <2>2
  <2>5. QED
    BY <2>3, <2>4
<1>2. LoopTo(h, c, Len(h), CHOOSE r : LoopTo(h, c, Len(h), r))
  BY <1>1
<1>3. Ref!Loop(h, c) = CHOOSE r : LoopTo(h, c, Len(h), r)
  BY Zenon DEF Ref!Loop, LoopTo, Lap
<1>4. QED
  BY <1>2, <1>3 DEF LoopTo

(* Candles in the order of time, pairwise. *)
LEMMA Sorted ==
    ASSUME NEW h, Spaced(h), NEW i \in 1..Len(h), NEW j \in 1..Len(h), i <= j
    PROVE  h[i].ts \in Nat /\ h[j].ts \in Nat /\ h[i].ts <= h[j].ts
<1>1. h \in Seq(Candle) /\ Len(h) \in Nat
  BY DEF Spaced
<1>2. \A k \in 1..Len(h) : h[k].ts \in Nat
  <2>1. \A k \in 1..Len(h) : h[k] \in Candle
    BY <1>1
  <2>2. \A x \in Candle : x.ts \in Nat
    BY DEF Candle
  <2>3. QED
    BY <2>1, <2>2
<1>3. \A k \in i..Len(h) : h[i].ts <= h[k].ts
  <2> SUFFICES ASSUME NEW S, S = {k \in i..Len(h) : ~(h[i].ts <= h[k].ts)}, S # {}
               PROVE  FALSE
    OBVIOUS
  <2>1. S \in SUBSET Nat
    BY <1>1
  <2>2. PICK k \in S : \A y \in S : k <= y
    BY <2>1, Least
  <2>3. k \in i..Len(h) /\ ~(h[i].ts <= h[k].ts)
    OBVIOUS
  <2>4. k # i
    BY <1>2, <2>3
  <2>5. k - 1 \in i..Len(h) /\ k \in 2..Len(h) /\ k - 1 \in 1..Len(h) /\ k - 1 \notin S
    BY <1>1, <2>2, <2>3, <2>4
  <2>6. h[i].ts <= h[k - 1].ts /\ h[k - 1].ts <= h[k].ts
    <3>1. h[k - 1].ts <= h[k].ts
      BY <2>5 DEF Spaced
    <3>2. h[i].ts <= h[k - 1].ts
      BY <2>5
    <3>3. QED
      BY <3>1, <3>2
  <2>7. h[i].ts \in Nat /\ h[k].ts \in Nat /\ h[k - 1].ts \in Nat
    BY <1>2, <2>5
  <2>8. \A x, y, z \in Nat : x <= y /\ y <= z => x <= z
    OBVIOUS
  <2>9. QED
    BY <2>3, <2>6, <2>7, <2>8
<1>4. QED
  BY <1>1, <1>2, <1>3

(* What the engine has kept of the first n candles: those from the a-th on;  *)
(* the last one dropped was older than the window and its tolerance.        *)
KeptFrom(h, n, w, es, a) ==
    /\ a \in 1..n /\ es \in Seq(Candle) /\ Len(es) = n - a + 1
    /\ \A k \in 1..Len(es) : es[k] = h[a + k - 1]
    /\ a = 1 \/ h[a - 1].ts < h[n].ts - w - Tolerance
Kept(h, n, w, es) == \E a \in 1..n : KeptFrom(h, n, w, es, a)

(* A window that takes the next candle keeps what it should. *)
LEMMA KeptNext ==
    ASSUME NEW h, Spaced(h), NEW n \in Nat, n + 1 \in 1..Len(h), NEW w \in Nat, NEW es,
           IF n = 0 THEN es = <<>> ELSE Kept(h, n, w, es)
    PROVE  Kept(h, n + 1, w, E!Accepted(es, h[n + 1], w))
<1>0. SUFFICES ASSUME NEW p, p = h[n + 1], NEW all, all = Append(es, p),
                        NEW kept, kept = {k \in DOMAIN all : k = Len(all) \/ all[k].ts >= p.ts - w - Tolerance},
                        NEW m, m = E!Min(kept), NEW new, new = SubSeq(all, m, Len(all))
                 PROVE  Kept(h, n + 1, w, new)
  BY DEF E!Accepted
<1>1. h \in Seq(Candle) /\ Len(h) \in Nat /\ p \in Candle /\ Tolerance \in Nat
  BY <1>0, BacktestAssumption DEF Spaced
<1>2. PICK a \in 1..n + 1 : /\ es \in Seq(Candle) /\ Len(es) = n + 1 - a
                            /\ \A k \in 1..Len(es) : es[k] = h[a + k - 1]
                            /\ a = 1 \/ (n # 0 /\ h[a - 1].ts < h[n].ts - w - Tolerance)
  <2>1. CASE n = 0
    <3>1. es = <<>> /\ es \in Seq(Candle) /\ Len(es) = 0 /\ 1 \in 1..n + 1
      BY <2>1
    <3>2. QED
      BY <2>1, <3>1
  <2>2. CASE n # 0
    <3>1. PICK a \in 1..n : KeptFrom(h, n, w, es, a)
      BY <2>2 DEF Kept
    <3>2. a \in 1..n + 1 /\ Len(es) = n + 1 - a
      BY <3>1 DEF KeptFrom
    <3>3. QED
      BY <2>2, <3>1, <3>2 DEF KeptFrom
  <2>3. QED
    BY <2>1, <2>2, SMTT(30)
<1>3. /\ all \in Seq(Candle) /\ Len(all) = n + 2 - a /\ DOMAIN all = 1..Len(all)
      /\ \A k \in 1..Len(es) : all[k] = es[k]
      /\ all[Len(es) + 1] = p
  <2>1. all = Append(es, p)
    BY <1>0
  <2>2. es \in Seq(Candle) /\ Len(es) = n + 1 - a
    BY <1>2
  <2>3. /\ all \in Seq(Candle) /\ Len(all) = Len(es) + 1 /\ all[Len(es) + 1] = p
        /\ \A k \in 1..Len(es) : all[k] = es[k]
    BY <1>1, <2>1, <2>2, AppendProperties
  <2>4. DOMAIN all = 1..Len(all)
    BY <2>3
  <2>5. Len(all) = n + 2 - a
    BY <2>2, <2>3
  <2>6. QED
    BY <2>3, <2>4, <2>5
<1>4. \A k \in 1..Len(all) : all[k] = h[a + k - 1]
  <2>1. TAKE k \in 1..Len(all)
  <2>2. CASE k = Len(es) + 1
    <3>0. Len(es) = n + 1 - a /\ a \in 1..n + 1
      BY <1>2
    <3>1. a + k - 1 = n + 1
      BY <2>2, <3>0
    <3>2. QED
      BY <1>0, <1>3, <2>2, <3>1
  <2>3. CASE k # Len(es) + 1
    <3>1. k \in 1..Len(es)
      BY <1>2, <1>3, <2>3
    <3>2. QED
      BY <1>2, <1>3, <3>1
  <2>4. QED
    BY <2>2, <2>3
<1>5. kept \in SUBSET Nat /\ kept # {} /\ kept \subseteq 1..Len(all)
  <2>1. Len(all) \in DOMAIN all
    BY <1>2, <1>3
  <2>2. QED
    BY <1>0, <1>3, <2>1
<1>6. m \in kept /\ \A y \in kept : m <= y
  BY <1>0, <1>5, Least
<1>7. m \in 1..Len(all) /\ Len(all) \in Nat
  <2>1. Len(all) \in Nat
    BY <1>3
  <2>2. m \in 1..Len(all)
    BY <1>5, <1>6
  <2>3. QED
    BY <2>1, <2>2
<1>8. /\ new \in Seq(Candle) /\ Len(new) = Len(all) - m + 1
      /\ \A i \in 1..Len(all) - m + 1 : new[i] = all[m + i - 1]
  <2>1. \A i \in m..Len(all) : all[i] \in Candle
    BY <1>3, <1>7
  <2>2. new = SubSeq(all, m, Len(all))
    BY <1>0
  <2>3. m \in Int /\ Len(all) \in Int /\ m <= Len(all)
    BY <1>7
  <2>4. QED
    BY <2>1, <2>2, <2>3, SubSeqProperties
<1> DEFINE b == a + m - 1
<1>9. b \in 1..n + 1 /\ Len(new) = n + 1 - b + 1
  BY <1>2, <1>3, <1>7, <1>8
<1>10. \A k \in 1..Len(new) : new[k] = h[b + k - 1]
  <2>1. TAKE k \in 1..Len(new)
  <2>2. k \in 1..Len(all) - m + 1 /\ m + k - 1 \in 1..Len(all) /\ a + (m + k - 1) - 1 = b + k - 1
    BY <1>2, <1>7, <1>8
  <2>3. new[k] = all[m + k - 1]
    BY <1>8, <2>2
  <2>4. QED
    BY <1>4, <2>2, <2>3
<1>11. b = 1 \/ h[b - 1].ts < h[n + 1].ts - w - Tolerance
  <2>1. CASE m = 1
    <3>1. CASE a = 1
      BY <2>1, <3>1
    <3>2. CASE a # 1
      <4>1. n # 0 /\ h[a - 1].ts < h[n].ts - w - Tolerance /\ b = a /\ a - 1 \in 1..Len(h)
            /\ n \in 1..Len(h) /\ n + 1 \in 1..Len(h) /\ n <= n + 1
        BY <1>1, <1>2, <2>1, <3>2
      <4>2. h[n].ts \in Nat /\ h[n + 1].ts \in Nat /\ h[n].ts <= h[n + 1].ts
        BY <4>1, Sorted
      <4>3. h[a - 1].ts \in Nat
        BY <4>1, Sorted
      <4>4. h[a - 1].ts < h[n + 1].ts - w - Tolerance
        <5>1. \A x, y, z, t \in Nat : x < y - w - t /\ y <= z => x < z - w - t
          OBVIOUS
        <5>2. h[a - 1].ts < h[n].ts - w - Tolerance
          BY <4>1
        <5>3. QED
          BY <1>1, <4>2, <4>3, <5>1, <5>2
      <4>5. b - 1 = a - 1
        BY <4>1
      <4>6. QED
        BY <4>4, <4>5
    <3>3. QED
      BY <3>1, <3>2
  <2>2. CASE m # 1
    <3>1. m - 1 \in 1..Len(all) /\ m - 1 \notin kept /\ m - 1 # Len(all) /\ a + (m - 1) - 1 = b - 1
      <4>1. m - 1 \in 1..Len(all) /\ m - 1 # Len(all) /\ a + (m - 1) - 1 = b - 1 /\ ~(m <= m - 1)
        BY <1>2, <1>7, <2>2
      <4>2. QED
        BY <1>6, <4>1
    <3>2. ~(all[m - 1].ts >= p.ts - w - Tolerance) /\ all[m - 1] = h[b - 1]
      BY <1>0, <1>3, <1>4, <3>1
    <3>3. b - 1 \in 1..Len(h)
      <4>1. m \in Nat /\ m > 1 /\ a \in Nat /\ a >= 1
        BY <1>7, <2>2
      <4>2. b - 1 >= 1 /\ b - 1 <= n /\ b - 1 \in Int
        BY <1>9, <4>1
      <4>3. n <= Len(h)
        BY <1>1
      <4>4. QED
        BY <1>1, <4>2, <4>3
    <3>4. h[b - 1].ts \in Nat /\ h[n + 1].ts \in Nat
      <4>1. h[b - 1].ts \in Nat
        BY <3>3, Sorted
      <4>2. QED
        BY <4>1, Sorted
    <3>5. h[b - 1].ts < p.ts - w - Tolerance /\ p = h[n + 1]
      <4>1. p = h[n + 1] /\ p.ts \in Nat
        BY <1>0, <3>4
      <4>2. QED
        BY <1>1, <3>2, <3>4, <4>1
    <3>6. QED
      BY <3>5
  <2>3. QED
    BY <2>1, <2>2
<1> HIDE DEF b
<1>12. KeptFrom(h, n + 1, w, new, b)
  BY <1>8, <1>9, <1>10, <1>11 DEF KeptFrom
<1>13. QED
  BY <1>9, <1>12 DEF Kept

(* A set of positions has a last one. *)
LEMMA Greatest ==
    ASSUME NEW n \in Nat, NEW S \in SUBSET (1..n), S # {}
    PROVE  Ref!Max(S) \in S /\ \A y \in S : y <= Ref!Max(S)
<1> SUFFICES \E x \in S : \A y \in S : x >= y
  <2>1. ASSUME NEW x \in S, NEW y \in S, x >= y PROVE y <= x
    BY <2>1
  <2>2. QED
    BY <2>1 DEF Ref!Max
<1> DEFINE T == {k \in Nat : \E x \in S : x + k = n}
<1>1. PICK x \in S : TRUE
  OBVIOUS
<1>2. x \in 1..n /\ n - x \in Nat /\ x + (n - x) = n
  BY <1>1
<1>3. T \in SUBSET Nat /\ T # {}
  BY <1>1, <1>2
<1>4. PICK k \in T : \A y \in T : k <= y
  <2>1. E!Min(T) \in T /\ \A y \in T : E!Min(T) <= y
    BY <1>3, Least
  <2>2. QED
    BY <2>1
<1>5. PICK z \in S : z + k = n
  BY <1>4
<1>6. ASSUME NEW y \in S PROVE z >= y
  <2>1. y \in 1..n /\ n - y \in Nat /\ y + (n - y) = n /\ z \in 1..n
    BY <1>5
  <2>2. n - y \in T
    BY <2>1
  <2>3. k <= n - y /\ k \in Nat
    BY <1>4, <2>2
  <2>4. QED
    BY <1>5, <2>1, <2>3
<1>7. QED
  BY <1>5, <1>6

LEMMA MaxIs ==
    ASSUME NEW n \in Nat, NEW S \in SUBSET (1..n), NEW g \in S, \A y \in S : y <= g
    PROVE  Ref!Max(S) = g
<1>1. Ref!Max(S) \in S /\ \A y \in S : y <= Ref!Max(S)
  BY Greatest
<1>2. g \in 1..n /\ Ref!Max(S) \in 1..n
  BY <1>1
<1>3. QED
  BY <1>1, <1>2

(* The facts about what is kept that the lookups need. *)
LEMMA KeptIs ==
    ASSUME NEW h, Spaced(h), NEW n \in 1..Len(h), NEW w, NEW es, NEW a \in 1..n, KeptFrom(h, n, w, es, a)
    PROVE  /\ Len(es) = n - a + 1 /\ Len(es) \in Nat \ {0} /\ es # <<>>
           /\ E!Newest(es) = h[n] /\ E!Now(es) = h[n].ts /\ h[n].ts \in Nat
           /\ \A k \in 1..Len(es) : es[k] = h[a + k - 1] /\ a + k - 1 \in 1..n /\ es[k].ts \in Nat
           /\ \A k \in 1..Len(es), j \in 1..Len(es) : k <= j => es[k].ts <= es[j].ts
<1>1. h \in Seq(Candle) /\ Len(h) \in Nat /\ n \in Nat /\ a \in Nat
  BY DEF Spaced
<1>2. Len(es) = n - a + 1 /\ Len(es) \in Nat \ {0} /\ \A k \in 1..Len(es) : es[k] = h[a + k - 1]
  BY <1>1 DEF KeptFrom
<1>3. ASSUME NEW k \in 1..Len(es)
      PROVE  a + k - 1 \in 1..n /\ a + k - 1 \in 1..Len(h) /\ es[k] = h[a + k - 1] /\ h[a + k - 1].ts \in Nat
  <2>1. a + k - 1 \in 1..n /\ a + k - 1 \in 1..Len(h)
    BY <1>1, <1>2
  <2>2. h[a + k - 1].ts \in Nat
    BY <2>1, Sorted
  <2>3. QED
    BY <1>2, <2>1, <2>2
<1>4. ASSUME NEW k \in 1..Len(es), NEW j \in 1..Len(es), k <= j PROVE es[k].ts <= es[j].ts
  <2>1. a + k - 1 \in 1..Len(h) /\ a + j - 1 \in 1..Len(h) /\ a + k - 1 <= a + j - 1
    BY <1>1, <1>2, <1>3, <1>4
  <2>2. h[a + k - 1].ts <= h[a + j - 1].ts
    BY <2>1, Sorted
  <2>3. QED
    BY <1>3, <2>2
<1>5. Len(es) \in 1..Len(es) /\ a + Len(es) - 1 = n
  BY <1>1, <1>2
<1>6. E!Newest(es) = h[n] /\ h[n].ts \in Nat
  BY <1>3, <1>5 DEF E!Newest
<1>7. es # <<>>
  BY <1>2
<1>8. E!Now(es) = h[n].ts
  BY <1>6, <1>7 DEF E!Now
<1>9. QED
  BY <1>2, <1>3, <1>4, <1>6, <1>7, <1>8

(* A lookback within the window finds what all the candles would give. *)
LEMMA AgoSame ==
    ASSUME NEW h, Spaced(h), NEW n \in 1..Len(h), NEW w \in Nat, NEW es, Kept(h, n, w, es), NEW ago \in 0..w
    PROVE  E!PriceAgo(es, ago) = Ref!PriceSecondsAgo(h, n, ago)
<1>1. PICK a \in 1..n : KeptFrom(h, n, w, es, a)
  BY DEF Kept
<1>2. /\ Len(es) = n - a + 1 /\ Len(es) \in Nat \ {0} /\ E!Now(es) = h[n].ts /\ h[n].ts \in Nat
      /\ \A k \in 1..Len(es) : es[k] = h[a + k - 1] /\ a + k - 1 \in 1..n /\ es[k].ts \in Nat
      /\ \A k \in 1..Len(es), j \in 1..Len(es) : k <= j => es[k].ts <= es[j].ts
  BY <1>1, KeptIs
<1>3. h \in Seq(Candle) /\ Len(h) \in Nat /\ n \in Nat /\ a \in Nat /\ Staleness \in Nat /\ Tolerance \in Nat
      /\ Staleness <= Tolerance /\ \A k \in 1..n : h[k].ts \in Nat
  <2>1. \A k \in 1..n : h[k].ts \in Nat
    <3>1. TAKE k \in 1..n
    <3>2. h \in Seq(Candle) /\ k \in 1..Len(h)
      BY DEF Spaced
    <3>3. h[k] \in Candle
      BY <3>2
    <3>4. QED
      BY <3>3 DEF Candle
  <2>2. h \in Seq(Candle) /\ Len(h) \in Nat
    BY DEF Spaced
  <2>3. Staleness \in Nat /\ Tolerance \in Nat /\ Staleness <= Tolerance
    BY BacktestAssumption
  <2>4. n \in Nat /\ a \in Nat
    BY <2>2
  <2>5. QED
    BY <2>1, <2>2, <2>3, <2>4
<1> DEFINE Young(t) == {k \in 1..Len(es) + 1 : k > Len(es) \/ es[k].ts > t}
           Old(t) == {k \in 1..n : h[k].ts <= t}
<1>a. \A t : t = E!Now(es) - ago => E!PriceAgo(es, ago) =
          IF E!Min(Young(t)) - 1 = 0 \/ t - es[E!Min(Young(t)) - 1].ts > Staleness THEN 0
          ELSE es[E!Min(Young(t)) - 1].price
  BY Zenon DEF E!PriceAgo
<1>b. \A t : t = h[n].ts - ago => Ref!PriceSecondsAgo(h, n, ago) =
          IF Old(t) = {} THEN 0
          ELSE IF t - h[Ref!Max(Old(t))].ts > Staleness THEN 0 ELSE h[Ref!Max(Old(t))].price
  BY Zenon DEF Ref!PriceSecondsAgo
<1>c. E!Now(es) - ago = h[n].ts - ago
  BY <1>2
<1>4. SUFFICES ASSUME NEW target, target = h[n].ts - ago,
                      NEW young, young = Young(target), NEW old, old = Old(target),
                      NEW m, m = E!Min(young)
               PROVE  E!PriceAgo(es, ago) = Ref!PriceSecondsAgo(h, n, ago)
  OBVIOUS
<1>d. /\ E!PriceAgo(es, ago) = IF m - 1 = 0 \/ target - es[m - 1].ts > Staleness THEN 0 ELSE es[m - 1].price
      /\ Ref!PriceSecondsAgo(h, n, ago) =
            IF old = {} THEN 0
            ELSE IF target - h[Ref!Max(old)].ts > Staleness THEN 0 ELSE h[Ref!Max(old)].price
  <2> HIDE DEF Young, Old
  <2>1. QED
    BY <1>a, <1>b, <1>c, <1>4
<1>5. target \in Int /\ target >= h[n].ts - w
  BY <1>2, <1>4
<1>6. young \in SUBSET Nat /\ Len(es) + 1 \in young
  BY <1>2, <1>4
<1>7. m \in young /\ \A y \in young : m <= y
  BY <1>4, <1>6, Least
<1>8. m \in 1..Len(es) + 1 /\ (m \in 1..Len(es) => es[m].ts > target)
  BY <1>2, <1>4, <1>7
<1>9. ASSUME NEW k \in 1..Len(es), k < m PROVE es[k].ts <= target
  <2>1. k \notin young /\ k \in 1..Len(es) + 1
    BY <1>2, <1>6, <1>7, <1>8, <1>9
  <2>2. ~(es[k].ts > target) /\ es[k].ts \in Nat
    BY <1>2, <1>4, <2>1
  <2>3. QED
    BY <1>5, <2>2
<1>10. ASSUME NEW k \in 1..Len(es), k >= m PROVE es[k].ts > target
  <2>1. m \in 1..Len(es)
    BY <1>2, <1>8, <1>10
  <2>2. es[m].ts <= es[k].ts /\ es[m].ts > target /\ es[k].ts \in Nat /\ es[m].ts \in Nat
    BY <1>2, <1>8, <1>10, <2>1
  <2>3. QED
    BY <1>5, <2>2
<1>11. old \in SUBSET (1..n) /\ \A k \in 1..n : k \in old <=> h[k].ts <= target
  BY <1>4
<1>12. ASSUME NEW y \in old PROVE y < a \/ (y - a + 1 \in 1..Len(es) /\ y - a + 1 < m)
  <2>1. y \in 1..n /\ h[y].ts <= target /\ h[y].ts \in Nat
    BY <1>3, <1>11
  <2>2. CASE y >= a
    <3> DEFINE k == y - a + 1
    <3>1. k \in 1..Len(es) /\ a + k - 1 = y
      BY <1>2, <1>3, <2>1, <2>2
    <3>2. es[k] = h[y]
      BY <1>2, <3>1
    <3> HIDE DEF k
    <3>3. ~(k >= m)
      BY <1>5, <1>10, <2>1, <3>1, <3>2
    <3>4. QED
      BY <1>8, <3>1, <3>3 DEF k
  <2>3. QED
    BY <1>3, <2>1, <2>2
<1>13. CASE m # 1
  <2> DEFINE g == a + (m - 1) - 1
  <2>1. m - 1 \in 1..Len(es) /\ m - 1 < m
    BY <1>2, <1>8, <1>13
  <2>2. g \in 1..n /\ es[m - 1] = h[g] /\ es[m - 1].ts <= target
    BY <1>2, <1>9, <2>1
  <2>3. g \in old
    BY <1>11, <2>2
  <2>4. ASSUME NEW y \in old PROVE y <= g
    <3>1. y < a \/ (y - a + 1 \in 1..Len(es) /\ y - a + 1 < m)
      BY <1>12
    <3>2. y \in Nat /\ m \in Nat
      BY <1>8, <1>11
    <3>3. QED
      BY <1>3, <1>8, <1>13, <3>1, <3>2
  <2> HIDE DEF g
  <2>5. Ref!Max(old) = g /\ old # {}
    BY <1>3, <1>11, <2>3, <2>4, MaxIs
  <2>6. m - 1 # 0
    BY <1>8, <1>13
  <2>7. QED
    BY <1>d, <2>2, <2>5, <2>6
<1>14. CASE m = 1
  <2>1. CASE old = {}
    BY <1>d, <1>14, <2>1
  <2>2. CASE old # {}
    <3> DEFINE b == Ref!Max(old)
    <3>1. b \in old
      BY <1>3, <1>11, <2>2, Greatest
    <3> HIDE DEF b
    <3>2. b \in 1..n /\ b < a
      <4>1. b \in 1..n
        BY <1>11, <3>1
      <4>2. b < a \/ (b - a + 1 \in 1..Len(es) /\ b - a + 1 < m)
        BY <1>12, <3>1
      <4>3. QED
        BY <1>3, <1>14, <4>1, <4>2
    <3>3. a # 1 /\ a - 1 \in 1..n /\ b <= a - 1
      BY <1>3, <3>2
    <3>4. h[a - 1].ts < h[n].ts - w - Tolerance
      BY <1>1, <3>3 DEF KeptFrom
    <3>5. h[b].ts <= h[a - 1].ts /\ h[b].ts \in Nat /\ h[a - 1].ts \in Nat
      <4>1. b \in 1..Len(h) /\ a - 1 \in 1..Len(h)
        BY <1>3, <3>2, <3>3
      <4>2. QED
        BY <3>3, <4>1, Sorted
    <3>6. target - h[b].ts > Staleness
      <4>1. h[n].ts \in Nat /\ Staleness \in Nat /\ Tolerance \in Nat /\ Staleness <= Tolerance
            /\ target \in Int /\ target >= h[n].ts - w
        BY <1>2, <1>3, <1>5
      <4>2. h[b].ts < h[n].ts - w - Tolerance
        <5>1. \A x, y, z \in Int : x <= y /\ y < z => x < z
          OBVIOUS
        <5>2. h[n].ts - w - Tolerance \in Int
          BY <4>1
        <5>3. QED
          BY <3>4, <3>5, <5>1, <5>2
      <4>3. target - h[b].ts > Tolerance
        <5>1. \A x, z, t, v, d \in Int : x < z - d - t /\ v >= z - d => v - x > t
          BY SMTT(60)
        <5>2. h[b].ts \in Int /\ h[n].ts \in Int /\ w \in Int /\ Tolerance \in Int /\ target \in Int
          BY <3>5, <4>1
        <5>3. QED
          BY <4>1, <4>2, <5>1, <5>2, SMTT(60)
      <4>4. QED
        BY <3>5, <4>1, <4>3
    <3>7. QED
      BY <1>d, <1>14, <2>2, <3>6 DEF b
  <2>3. QED
    BY <2>1, <2>2
<1>15. QED
  BY <1>13, <1>14

Even(h) == \A k \in 2..Len(h) : h[k].ts - h[k - 1].ts = Interval

(* What is kept spans the window as soon as all the candles do. *)
LEMMA ReadySame ==
    ASSUME NEW h, Spaced(h), Even(h), NEW n \in 1..Len(h), NEW w \in Nat, NEW es, Kept(h, n, w, es)
    PROVE  E!Ready(es, w) <=> h[n].ts - h[1].ts >= w
<1>1. PICK a \in 1..n : KeptFrom(h, n, w, es, a)
  BY DEF Kept
<1>2. /\ Len(es) \in Nat \ {0} /\ es # <<>> /\ E!Now(es) = h[n].ts /\ h[n].ts \in Nat
      /\ \A k \in 1..Len(es) : es[k] = h[a + k - 1] /\ a + k - 1 \in 1..n /\ es[k].ts \in Nat
  BY <1>1, KeptIs
<1>3. es[1] = h[a]
  <2>1. 1 \in 1..Len(es) /\ a + 1 - 1 = a
    BY <1>2
  <2>2. QED
    BY <1>2, <2>1
<1>4. E!Ready(es, w) <=> h[n].ts - h[a].ts >= w
  BY <1>2, <1>3 DEF E!Ready
<1>5. CASE a = 1
  BY <1>4, <1>5
<1>6. CASE a # 1
  <2>1. Len(h) \in Nat /\ n \in Nat /\ a \in 2..Len(h) /\ a \in 1..Len(h) /\ a - 1 \in 1..Len(h) /\ 1 \in 1..Len(h)
        /\ 1 <= a - 1
    BY <1>6 DEF Spaced
  <2>2. h[1].ts \in Nat /\ h[a - 1].ts \in Nat /\ h[1].ts <= h[a - 1].ts
    BY <2>1, Sorted
  <2>3. h[a].ts \in Nat
    BY <2>1, Sorted
  <2>4. h[a].ts - h[a - 1].ts = Interval
    BY <2>1 DEF Even
  <2>5. h[a - 1].ts < h[n].ts - w - Tolerance
    BY <1>1, <1>6 DEF KeptFrom
  <2>6. Interval \in Nat /\ Tolerance \in Nat /\ Interval <= Tolerance
    BY ClientAssumption, BacktestAssumption
  <2>7. h[n].ts - h[a].ts >= w /\ h[n].ts - h[1].ts >= w
    <3>1. h[1].ts \in Int /\ h[a - 1].ts \in Int /\ h[a].ts \in Int /\ h[n].ts \in Int
      BY <1>2, <2>2, <2>3
    <3>2. Interval \in Int /\ Tolerance \in Int /\ w \in Int /\ 0 <= Interval
      BY <2>6
    <3> DEFINE x == h[1].ts
               y == h[a - 1].ts
               z == h[a].ts
               now == h[n].ts
    <3>3. x \in Int /\ y \in Int /\ z \in Int /\ now \in Int
      BY <3>1
    <3>4. x <= y /\ z - y = Interval /\ y < now - w - Tolerance
      BY <2>2, <2>4, <2>5
    <3> HIDE DEF x, y, z, now
    <3>5. now - z >= w /\ now - x >= w
      BY <2>6, <3>2, <3>3, <3>4
    <3>6. QED
      BY <3>5 DEF x, z, now
  <2>8. QED
    BY <1>4, <2>7
<1>7. QED
  BY <1>5, <1>6

(* The two buy at the same candles. *)
LEMMA EntrySame ==
    ASSUME NEW h, Spaced(h), Even(h), NEW n \in 1..Len(h), NEW es, Kept(h, n, window, es),
           NEW c \in E!Config, E!Valid(c), c.type # "dummy", window = c.window
    PROVE  E!EntryRule(c, es) <=> Ref!MomentumEntryTriggered(h, n, c)
<1>1. window \in Nat /\ \A m \in c.momentum : m.lookback \in 0..window
  <2>1. window \in Nat
    BY DEF E!Config
  <2>2. \A m \in c.momentum : m.lookback \in Nat /\ m.lookback < window
    BY DEF E!Config, E!Valid
  <2>3. QED
    BY <2>1, <2>2
<1>2. PICK a \in 1..n : KeptFrom(h, n, window, es, a)
  BY DEF Kept
<1>3. E!Newest(es) = h[n]
  BY <1>2, KeptIs
<1>4. E!Ready(es, window) <=> h[n].ts - h[1].ts >= c.window
  BY <1>1, ReadySame
<1> DEFINE Met(m) == LET past == Ref!PriceSecondsAgo(h, n, m.lookback)
                     IN  past > 0 /\ (h[n].price - past) * Unit >= m.threshold * past
<1>5. \A m \in c.momentum : E!Rises(es, m) <=> Met(m)
  <2>1. TAKE m \in c.momentum
  <2>2. E!PriceAgo(es, m.lookback) = Ref!PriceSecondsAgo(h, n, m.lookback)
    BY <1>1, AgoSame
  <2>3. QED
    BY <1>3, <2>2, Zenon DEF E!Rises
<1>6. Ref!MomentumEntryTriggered(h, n, c) <=>
          /\ h[n].ts - h[1].ts >= c.window
          /\ IF c.all THEN \A m \in c.momentum : Met(m) ELSE \E m \in c.momentum : Met(m)
  BY Zenon DEF Ref!MomentumEntryTriggered
<1>7. E!EntryRule(c, es) <=>
          /\ E!Ready(es, window)
          /\ IF c.all THEN \A m \in c.momentum : E!Rises(es, m) ELSE \E m \in c.momentum : E!Rises(es, m)
  BY Zenon DEF E!EntryRule
<1> HIDE DEF Met
<1>8. QED
  BY <1>4, <1>5, <1>6, <1>7, Zenon

(* A sale at the stop price is a loss, one at a target above the taxes is none. *)
LEMMA SellsAtLoss ==
    ASSUME NEW buy \in Nat, NEW price \in Nat, NEW stop \in Nat \ {0}, buy # 0, price * Unit <= buy * (Unit - stop)
    PROVE  Loses(buy, price)
<1>1. Unit \in Nat \ {0} /\ Tax \in Nat /\ Tax <= Unit
  BY ClientAssumption
<1>2. price < buy
  <2>1. SUFFICES ASSUME price >= buy PROVE FALSE
    OBVIOUS
  <2>2. price * Unit >= buy * Unit
    BY <1>1, <2>1, SMT
  <2>3. buy * (Unit - stop) = buy * Unit - buy * stop /\ buy * stop > 0
    BY <1>1, SMT
  <2>4. price * Unit \in Int /\ buy * Unit \in Int /\ buy * stop \in Int
    BY <1>1
  <2>5. QED
    BY <2>2, <2>3, <2>4
<1>3. price * (Unit - Tax) <= price * Unit /\ price * Unit < buy * Unit /\ buy * Unit <= buy * (Unit + Tax)
  <2>1. price * (Unit - Tax) <= price * Unit
    BY <1>1, SMT
  <2>2. price * Unit < buy * Unit
    BY <1>1, <1>2, SMT
  <2>3. buy * Unit <= buy * (Unit + Tax)
    BY <1>1, SMT
  <2>4. QED
    BY <2>1, <2>2, <2>3
<1>4. price * (Unit - Tax) \in Int /\ price * Unit \in Int /\ buy * Unit \in Int /\ buy * (Unit + Tax) \in Int
  BY <1>1
<1>5. price * (Unit - Tax) < buy * (Unit + Tax)
  BY <1>3, <1>4
<1>6. QED
  BY <1>5 DEF Loses

LEMMA SellsAtTarget ==
    ASSUME NEW buy \in Nat, NEW price \in Nat, NEW c, c.target \in Nat, PaysTaxes(c),
           price * Unit >= buy * (Unit + c.target)
    PROVE  ~Loses(buy, price)
<1>1. Unit \in Nat \ {0} /\ Tax \in Nat /\ Unit - Tax \in Nat
  BY ClientAssumption
<1> DEFINE net == Unit - Tax
           gross == Unit + Tax
           goal == Unit + c.target
<1>2. net \in Nat /\ gross \in Nat /\ goal \in Nat
  BY <1>1
<1>3. goal * net >= Unit * gross
  BY DEF PaysTaxes
<1> HIDE DEF net, gross, goal
<1>4. (price * Unit) * net >= (buy * goal) * net
  <2>1. price * Unit \in Nat /\ buy * goal \in Nat /\ price * Unit >= buy * goal
    BY <1>1, <1>2 DEF goal
  <2>2. \A x, y, z \in Nat : x >= y => x * z >= y * z
    BY SMT
  <2>3. QED
    BY <1>2, <2>1, <2>2
<1>5. (buy * goal) * net = buy * (goal * net) /\ (price * Unit) * net = Unit * (price * net)
  BY <1>1, <1>2, SMT
<1>6. buy * (goal * net) >= buy * (Unit * gross)
  <2>1. goal * net \in Nat /\ Unit * gross \in Nat
    BY <1>1, <1>2
  <2>2. \A x, y, z \in Nat : x >= y => z * x >= z * y
    BY SMT
  <2>3. QED
    BY <1>3, <2>1, <2>2
<1>7. buy * (Unit * gross) = Unit * (buy * gross)
  BY <1>1, <1>2, SMT
<1>8. Unit * (price * net) >= Unit * (buy * gross)
  <2>1. (buy * goal) * net \in Int /\ buy * (goal * net) \in Int /\ (price * Unit) * net \in Int /\ buy * (Unit * gross) \in Int
    BY <1>1, <1>2
  <2>2. QED
    BY <1>4, <1>5, <1>6, <1>7, <2>1
<1>9. price * net >= buy * gross
  <2>1. price * net \in Nat /\ buy * gross \in Nat
    BY <1>2
  <2>2. \A x, y \in Nat, u \in Nat \ {0} : u * x >= u * y => x >= y
    BY SMT
  <2>3. QED
    BY <1>1, <1>8, <2>1, <2>2
<1>10. price * net \in Int /\ buy * gross \in Int
  BY <1>2
<1>11. ~(price * net < buy * gross)
  BY <1>9, <1>10
<1>12. QED
  BY <1>11 DEF Loses, net, gross

(* The simulator sells for a profit target where the engine does, and says why. *)
LEMMA ReasonIs ==
    ASSUME NEW c, c.type = "profit", NEW price, NEW ent, NEW high1
    PROVE  LET why == Ref!ExitReason(c, price, ent, high1) IN
           /\ Given(why) <=> E!ProfitRule(c, price, ent)
           /\ Given(why) => (why = "stop_loss" /\ E!LossCut(c, price, ent))
                            \/ (why = "profit_target" /\ price * Unit >= ent * (Unit + c.target))
<1>1. CASE price * Unit <= ent * (Unit - c.stop)
  <2>1. Ref!ExitReason(c, price, ent, high1) = "stop_loss"
    BY <1>1 DEF Ref!ExitReason
  <2>2. Given("stop_loss")
    BY DEF Given
  <2>3. QED
    BY <1>1, <2>1, <2>2 DEF E!ProfitRule, E!LossCut
<1>2. CASE ~(price * Unit <= ent * (Unit - c.stop)) /\ price * Unit >= ent * (Unit + c.target)
  <2>1. Ref!ExitReason(c, price, ent, high1) = "profit_target"
    BY <1>2, Zenon DEF Ref!ExitReason
  <2>2. Given("profit_target")
    BY DEF Given
  <2>3. QED
    BY <1>2, <2>1, <2>2 DEF E!ProfitRule
<1>3. CASE ~(price * Unit <= ent * (Unit - c.stop)) /\ ~(price * Unit >= ent * (Unit + c.target))
  <2>1. ~Given(Ref!ExitReason(c, price, ent, high1))
    BY <1>3, Zenon DEF Ref!ExitReason, Given
  <2>2. QED
    BY <1>3, <2>1 DEF E!ProfitRule, E!LossCut
<1>4. QED
  BY <1>1, <1>2, <1>3
----------------------------------------------------------------------------
(* One pass of the simulator, by what it finds. *)
Sale(s, h, n, why) ==
    [at |-> 0, entry |-> 0, high |-> 0,
     trades |-> Append(s.trades, [entry |-> s.at, buy |-> s.entry, exit |-> h[n].ts,
                                  sell |-> h[n].price, reason |-> why])]

(* It buys, searches on, or deals with its position. *)
LEMMA PassBuys ==
    ASSUME NEW s, DOMAIN s = {"at", "entry", "high", "trades"}, s.at = 0,
           NEW n, NEW h, NEW c, Ref!MomentumEntryTriggered(h, n, c)
    PROVE  LET p == Ref!Pass(s, n, h, c) IN
           DOMAIN p = DOMAIN s /\ p.at = h[n].ts /\ p.entry = h[n].price /\ p.trades = s.trades
<1>1. Ref!Pass(s, n, h, c) = [s EXCEPT !.at = h[n].ts, !.entry = h[n].price, !.high = h[n].price]
  BY Zenon DEF Ref!Pass
<1>2. QED
  BY <1>1

LEMMA PassSearches ==
    ASSUME NEW s, NEW n, NEW h, NEW c, s.at = 0, ~Ref!MomentumEntryTriggered(h, n, c)
    PROVE  Ref!Pass(s, n, h, c) = s
BY Zenon DEF Ref!Pass

HoldsOrSells(p, s, n, h, c, peak) ==
    LET why == Ref!ExitReason(c, h[n].price, s.entry, peak)
    IN  IF Given(why) THEN p = Sale(s, h, n, why) ELSE p = [s EXCEPT !.high = peak]

LEMMA PassHolds ==
    ASSUME NEW s, NEW n, NEW h, NEW c, s.at # 0
    PROVE  \E peak : HoldsOrSells(Ref!Pass(s, n, h, c), s, n, h, c, peak)
<1> DEFINE price == h[n].price
           peak  == IF price > s.high THEN price ELSE s.high
<1> SUFFICES HoldsOrSells(Ref!Pass(s, n, h, c), s, n, h, c, peak)
  OBVIOUS
<1>1. QED
  BY Zenon DEF Ref!Pass, Given, Sale, HoldsOrSells

(* The simulator stands where the client does. *)
Match(s, c) ==
    /\ DOMAIN s = {"at", "entry", "high", "trades"}
    /\ s.trades \in Seq(Trade) /\ Len(s.trades) = c.tc - 1
    /\ \A k \in 1..c.tc - 1 : s.trades[k] = c.trades[k]
    /\ IF TradeOpen(c) THEN s.at # 0 /\ s.at = c.trades[c.tc].entry /\ s.entry = c.trades[c.tc].buy ELSE s.at = 0

(* What keeps the two together: nothing, a purchase, a tick in between, a sale. *)
LEMMA MatchSame ==
    ASSUME NEW s, NEW c, Match(s, c), NEW d, d.trades = c.trades, d.tc = c.tc
    PROVE  Match(s, d)
BY DEF Match, TradeOpen

LEMMA MatchBuy ==
    ASSUME NEW s, NEW c, Books(c), Match(s, c), ~TradeOpen(c), NEW h, NEW n, h[n] \in Candle, NEW g, NEW amount \in Nat,
           CanBuy(c, amount, h[n].price), Ref!MomentumEntryTriggered(h, n, g)
    PROVE  Match(Ref!Pass(s, n, h, g), Bought(c, amount, h[n]))
<1>1. /\ DOMAIN s = {"at", "entry", "high", "trades"} /\ s.at = 0
      /\ s.trades \in Seq(Trade) /\ Len(s.trades) = c.tc - 1
      /\ \A k \in 1..c.tc - 1 : s.trades[k] = c.trades[k]
  BY DEF Match
<1> SUFFICES ASSUME NEW p, p = Ref!Pass(s, n, h, g), NEW d, d = Bought(c, amount, h[n])
             PROVE  Match(p, d)
  OBVIOUS
<1>2. DOMAIN p = DOMAIN s /\ p.at = h[n].ts /\ p.entry = h[n].price /\ p.trades = s.trades
  BY <1>1, PassBuys
<1>3. /\ d.tc = c.tc /\ d.trades[c.tc].entry = h[n].ts /\ d.trades[c.tc].buy = h[n].price
      /\ \A k \in 1..c.tc - 1 : d.trades[k] = c.trades[k]
  BY BoughtLogs
<1>4. TradeOpen(d)
  BY BoughtIs
<1>6. h[n].ts # 0
  BY DEF Candle
<1>7. p.at # 0 /\ p.at = d.trades[d.tc].entry /\ p.entry = d.trades[d.tc].buy
  BY <1>3, <1>2, <1>6
<1>8. /\ DOMAIN p = {"at", "entry", "high", "trades"}
      /\ p.trades \in Seq(Trade) /\ Len(p.trades) = d.tc - 1
  BY <1>1, <1>3, <1>2
<1>9. \A k \in 1..d.tc - 1 : p.trades[k] = d.trades[k]
  BY <1>1, <1>3, <1>2
<1>10. QED
  BY <1>4, <1>7, <1>8, <1>9 DEF Match

LEMMA MatchHold ==
    ASSUME NEW s, NEW c, Match(s, c), TradeOpen(c), NEW h, NEW n, NEW g, g.type = "profit",
           ~E!ProfitRule(g, h[n].price, c.trades[c.tc].buy)
    PROVE  Match(Ref!Pass(s, n, h, g), c)
<1>1. /\ DOMAIN s = {"at", "entry", "high", "trades"} /\ s.at # 0 /\ s.entry = c.trades[c.tc].buy
  BY DEF Match
<1>2. PICK peak : HoldsOrSells(Ref!Pass(s, n, h, g), s, n, h, g, peak)
  BY <1>1, PassHolds
<1>3. ~Given(Ref!ExitReason(g, h[n].price, s.entry, peak))
  BY <1>1, ReasonIs
<1> SUFFICES ASSUME NEW p, p = Ref!Pass(s, n, h, g) PROVE Match(p, c)
  OBVIOUS
<1>4. p = [s EXCEPT !.high = peak]
  BY <1>2, <1>3, Zenon DEF HoldsOrSells
<1>5. DOMAIN p = DOMAIN s /\ p.at = s.at /\ p.entry = s.entry /\ p.trades = s.trades
  BY <1>1, <1>4
<1>6. QED
  BY <1>5 DEF Match

(* The two name the same reason for a sale. *)
LEMMA VerdictSame ==
    ASSUME NEW c, TradeOpen(c), NEW candle \in Candle, NEW g, g.type = "profit", g.target \in Nat, g.stop \in Nat \ {0},
           PaysTaxes(g), c.trades[c.tc].buy \in Nat \ {0}, NEW peak,
           E!ProfitRule(g, candle.price, c.trades[c.tc].buy)
    PROVE  /\ Given(Ref!ExitReason(g, candle.price, c.trades[c.tc].buy, peak))
           /\ Verdict(c, candle, g.type) = Ref!ExitReason(g, candle.price, c.trades[c.tc].buy, peak)
<1> SUFFICES ASSUME NEW buy \in Nat \ {0}, buy = c.trades[c.tc].buy, NEW price \in Nat \ {0}, price = candle.price,
                    NEW why, why = Ref!ExitReason(g, price, buy, peak)
             PROVE  Given(why) /\ Verdict(c, candle, g.type) = why
  BY DEF Candle
<1>1. Given(why) /\ \/ why = "stop_loss" /\ E!LossCut(g, price, buy)
                    \/ why = "profit_target" /\ price * Unit >= buy * (Unit + g.target)
  BY ReasonIs
<1>2. Verdict(c, candle, g.type) = IF Loses(buy, price) THEN "stop_loss" ELSE "profit_target"
  BY DEF Verdict
<1>3. CASE why = "stop_loss" /\ E!LossCut(g, price, buy)
  <2>1. price * Unit <= buy * (Unit - g.stop)
    BY <1>3 DEF E!LossCut
  <2>2. Loses(buy, price)
    BY <2>1, SellsAtLoss
  <2>3. QED
    BY <1>1, <1>2, <1>3, <2>2
<1>4. CASE why = "profit_target" /\ price * Unit >= buy * (Unit + g.target)
  <2>1. ~Loses(buy, price)
    BY <1>4, SellsAtTarget
  <2>2. QED
    BY <1>1, <1>2, <1>4, <2>1
<1>5. QED
  BY <1>1, <1>3, <1>4

(* What a sale writes to the log is what the simulator writes. *)
LEMMA EndedSame ==
    ASSUME NEW s, NEW c, Books(c), TradeOpen(c), Match(s, c), NEW candle \in Candle, NEW why \in Reasons
    PROVE  LET t == [entry |-> s.at, buy |-> s.entry, exit |-> candle.ts, sell |-> candle.price, reason |-> why]
           IN  Append(s.trades, t) = Finished(c, candle, why).trades
<1> SUFFICES ASSUME NEW t, t = [entry |-> s.at, buy |-> s.entry, exit |-> candle.ts, sell |-> candle.price,
                                reason |-> why],
                    NEW d, d = Finished(c, candle, why)
             PROVE  Append(s.trades, t) = d.trades
  OBVIOUS
<1>1. /\ s.trades \in Seq(Trade) /\ Len(s.trades) = c.tc - 1
      /\ \A k \in 1..c.tc - 1 : s.trades[k] = c.trades[k]
      /\ s.at = c.trades[c.tc].entry /\ s.entry = c.trades[c.tc].buy
  BY DEF Match
<1>2. /\ d.tc = c.tc + 1 /\ Len(d.trades) = Len(c.trades) /\ c.tc = Len(c.trades)
      /\ d.trades[c.tc].entry = c.trades[c.tc].entry /\ d.trades[c.tc].buy = c.trades[c.tc].buy
      /\ d.trades[c.tc].exit = candle.ts /\ d.trades[c.tc].sell = candle.price
      /\ d.trades[c.tc].reason = why
      /\ \A k \in 1..c.tc - 1 : d.trades[k] = c.trades[k]
  BY FinishedLogs
<1>3. Books(d)
  BY FinishedIs
<1>4. d.trades \in Seq(Trade) /\ c.tc \in Nat \ {0} /\ c.trades \in Seq(Trade)
  BY <1>3 DEF Books
<1>5. d.trades[c.tc] = t
  <2>1. d.trades[c.tc] \in Trade
    BY <1>2, <1>4
  <2>2. \A x \in Trade : x = [entry |-> x.entry, buy |-> x.buy, exit |-> x.exit, sell |-> x.sell, reason |-> x.reason]
    BY DEF Trade
  <2> DEFINE x == d.trades[c.tc]
  <2>3. x = [entry |-> x.entry, buy |-> x.buy, exit |-> x.exit, sell |-> x.sell, reason |-> x.reason]
    BY <2>1, <2>2, Zenon
  <2>4. x.entry = s.at /\ x.buy = s.entry /\ x.exit = candle.ts /\ x.sell = candle.price /\ x.reason = why
    BY <1>1, <1>2
  <2>5. QED
    BY <2>3, <2>4, Zenon
<1>6. t \in Trade
  BY <1>2, <1>4, <1>5
<1>7. /\ Append(s.trades, t) \in Seq(Trade) /\ Len(Append(s.trades, t)) = Len(s.trades) + 1
      /\ Append(s.trades, t)[Len(s.trades) + 1] = t
      /\ \A k \in 1..Len(s.trades) : Append(s.trades, t)[k] = s.trades[k]
  BY <1>1, <1>6, AppendProperties
<1> DEFINE a == Append(s.trades, t)
<1> HIDE DEF a
<1>8. a \in Seq(Trade) /\ Len(a) = Len(d.trades) /\ Len(a) = c.tc
  BY <1>1, <1>2, <1>4, <1>7 DEF a
<1>9. \A k \in 1..Len(a) : a[k] = d.trades[k]
  <2>1. TAKE k \in 1..Len(a)
  <2>2. CASE k = c.tc
    BY <1>1, <1>4, <1>5, <1>7, <2>2 DEF a
  <2>3. CASE k # c.tc
    <3>1. k \in 1..c.tc - 1
      BY <1>4, <1>8, <2>3
    <3>2. a[k] = s.trades[k]
      BY <1>1, <1>7, <3>1 DEF a
    <3>3. QED
      BY <1>1, <1>2, <3>1, <3>2
  <2>4. QED
    BY <2>2, <2>3
<1>10. a = d.trades
  BY <1>4, <1>8, <1>9, SeqEqual
<1>11. QED
  BY <1>10 DEF a

LEMMA MatchSell ==
    ASSUME NEW s, NEW c, Books(c), Match(s, c), TradeOpen(c), NEW h, NEW n, h[n] \in Candle,
           NEW g, g.type = "profit", g.target \in Nat, g.stop \in Nat \ {0}, PaysTaxes(g),
           E!ProfitRule(g, h[n].price, c.trades[c.tc].buy), c.trades[c.tc].buy \in Nat \ {0},
           NEW amount \in 0..c.crypto
    PROVE  Match(Ref!Pass(s, n, h, g), Sold(c, amount, h[n], g.type))
<1>1. /\ DOMAIN s = {"at", "entry", "high", "trades"} /\ s.at # 0 /\ s.entry = c.trades[c.tc].buy
  BY DEF Match
<1>2. PICK peak : HoldsOrSells(Ref!Pass(s, n, h, g), s, n, h, g, peak)
  BY <1>1, PassHolds
<1>3. /\ Given(Ref!ExitReason(g, h[n].price, c.trades[c.tc].buy, peak))
      /\ Verdict(c, h[n], g.type) = Ref!ExitReason(g, h[n].price, c.trades[c.tc].buy, peak)
  BY VerdictSame
<1>4. LET b == Paid(c, amount, h[n]) IN
      /\ Sold(c, amount, h[n], g.type) = Finished(b, h[n], Verdict(c, h[n], g.type))
      /\ Books(b) /\ TradeOpen(b) /\ b.trades = c.trades /\ b.tc = c.tc /\ Verdict(c, h[n], g.type) \in Reasons
  BY SoldFinishes
<1> SUFFICES ASSUME NEW p, p = Ref!Pass(s, n, h, g), NEW why, why = Verdict(c, h[n], g.type),
                    NEW b, b = Paid(c, amount, h[n]), NEW d, d = Sold(c, amount, h[n], g.type)
             PROVE  Match(p, d)
  OBVIOUS
<1>5. p = Sale(s, h, n, why)
  BY <1>1, <1>2, <1>3, Zenon DEF HoldsOrSells
<1>6. d = Finished(b, h[n], why) /\ Books(b) /\ TradeOpen(b) /\ why \in Reasons /\ b.tc = c.tc /\ b.trades = c.trades
  BY <1>4
<1>7. Match(s, b)
  BY <1>6, MatchSame
<1>8. Append(s.trades, [entry |-> s.at, buy |-> s.entry, exit |-> h[n].ts, sell |-> h[n].price, reason |-> why])
          = d.trades
  BY <1>6, <1>7, EndedSame
<1>9. DOMAIN p = {"at", "entry", "high", "trades"} /\ p.at = 0 /\ p.trades = d.trades
  BY <1>5, <1>8 DEF Sale
<1>10. Books(d) /\ d.tc = b.tc + 1 /\ ~TradeOpen(d) /\ Len(d.trades) = Len(b.trades) /\ b.tc = Len(b.trades)
  BY <1>6, FinishedIs, FinishedLogs
<1>11. d.trades \in Seq(Trade) /\ Len(d.trades) = d.tc - 1
  BY <1>6, <1>10 DEF Books
<1>12. QED
  BY <1>9, <1>10, <1>11 DEF Match

(* At the end of the candles the logs are the same. *)
LEMMA MatchEnds ==
    ASSUME NEW h, Len(h) \in Nat \ {0}, Last(h) \in Candle, NEW c, Books(c), NEW g,
           Match(Ref!Loop(h, g)[Len(h)], c)
    PROVE  Closed(c, Last(h)).trades = Ref!RunSimulation(h, g)
<1> SUFFICES ASSUME NEW s, s = Ref!Loop(h, g)[Len(h)] PROVE Closed(c, Last(h)).trades = Ref!RunSimulation(h, g)
  OBVIOUS
<1>1. Ref!RunSimulation(h, g) =
          IF s.at = 0 THEN s.trades
          ELSE Append(s.trades, [entry |-> s.at, buy |-> s.entry, exit |-> Last(h).ts,
                                 sell |-> Last(h).price, reason |-> "end_of_data"])
  BY Zenon DEF Ref!RunSimulation, Last
<1>2. Match(s, c)
  OBVIOUS
<1>3. CASE TradeOpen(c)
  <2>1. "end_of_data" \in Reasons
    BY DEF Reasons
  <2>2. s.at # 0
    BY <1>2, <1>3 DEF Match
  <2>3. Append(s.trades, [entry |-> s.at, buy |-> s.entry, exit |-> Last(h).ts, sell |-> Last(h).price,
                          reason |-> "end_of_data"]) = Finished(c, Last(h), "end_of_data").trades
    BY <1>2, <1>3, <2>1, EndedSame
  <2>4. Closed(c, Last(h)) = Finished(c, Last(h), "end_of_data")
    BY <1>3 DEF Closed
  <2>5. QED
    BY <1>1, <2>2, <2>3, <2>4, Zenon
<1>4. CASE ~TradeOpen(c)
  <2>1. s.at = 0 /\ Closed(c, Last(h)) = c
    BY <1>2, <1>4 DEF Match, Closed
  <2>2. /\ s.trades \in Seq(Trade) /\ Len(s.trades) = c.tc - 1
        /\ \A k \in 1..c.tc - 1 : s.trades[k] = c.trades[k]
    BY <1>2 DEF Match
  <2>3. c.trades \in Seq(Trade) /\ Len(c.trades) = c.tc - 1
    <3>1. c.trades \in Seq(Trade) /\ Len(c.trades) \in {c.tc - 1, c.tc} /\ c.tc \in Nat \ {0}
      BY DEF Books
    <3>2. c.tc \notin 1..Len(c.trades)
      BY <1>4, <3>1 DEF TradeOpen
    <3>3. QED
      BY <3>1, <3>2
  <2>4. s.trades = c.trades
    BY <2>2, <2>3, SeqEqual
  <2>5. QED
    BY <1>1, <2>1, <2>4
<1>5. QED
  BY <1>3, <1>4
----------------------------------------------------------------------------
(* The rules are built once. *)
LEMMA WindowKept == ASSUME [Next]_vars PROVE window' = window /\ cfg' = cfg
<1>1. ASSUME NEW step \in Steps, ReadRow(step) PROVE window' = window /\ cfg' = cfg
  BY <1>1 DEF ReadRow, engine
<1>2. CASE StartBacktest \/ EndOfData \/ SignalSearchingBuyEntry \/ SignalTrackingSellExit \/ UNCHANGED vars
  BY <1>2 DEF StartBacktest, EndOfData, SignalSearchingBuyEntry, SignalTrackingSellExit, vars, engine
<1>3. CASE ServeCandle
  BY <1>3 DEF ServeCandle, E!Tick
<1>4. CASE SignalBuy \/ SignalWaitingBuyFill
  BY <1>4 DEF SignalBuy, SignalWaitingBuyFill, engine, E!RetrySignal, E!SetInPosition
<1>5. CASE SignalSell \/ SignalWaitingSellFill
  BY <1>5 DEF SignalSell, SignalWaitingSellFill, engine, PositionGone, E!RetrySignal, E!ResetPosition
<1>6. QED
  BY <1>1, <1>2, <1>3, <1>4, <1>5 DEF Next, Exited

(* What Parity asks for, of the step to come as well. *)
Comparable == cfg.type = "profit" /\ PaysTaxes(cfg) /\ Regular /\ LotWorthless /\ ~abandoned /\ ~refused

(* Between the two: how far the simulator is when the client has dealt with  *)
(* a candle, and what it makes of the one being handled.                     *)
Sim(n) == Ref!Loop(load.hist, cfg)[n]
Told ==
    /\ signal = "SearchingBuyEntry" => ~Ref!MomentumEntryTriggered(load.hist, index, cfg)
    /\ signal = "Buy" => Ref!MomentumEntryTriggered(load.hist, index, cfg)
    /\ signal = "TrackingSellExit" => ~E!ProfitRule(cfg, load.hist[index].price, entry)
    /\ signal = "Sell" => E!ProfitRule(cfg, load.hist[index].price, entry)
Follows ==
    /\ phase \in {"serve", "handle"} =>
           IF index = 0 THEN entries = <<>> ELSE Kept(load.hist, index, window, entries)
    /\ phase = "serve" => Match(Sim(index), client)
    /\ phase = "handle" => Match(Sim(index - 1), client) /\ Told
    /\ phase = "over" => client.trades = Ref!RunSimulation(load.hist, cfg)
Beside == window = cfg.window /\ (Comparable /\ phase # "load" => Follows)

(* The configuration has rules, and their percentages are numbers. *)
LEMMA CfgIs ==
    ASSUME IInv
    PROVE  /\ cfg \in E!Config /\ E!Valid(cfg) /\ cfg.type # "dummy"
           /\ cfg.type = "profit" => cfg.target \in Nat /\ cfg.stop \in Nat \ {0}
<1>1. cfg \in E!Config /\ E!Valid(cfg) /\ cfg.type # "dummy"
  BY BacktestConfigs DEF IInv, Typed
<1>2. QED
  BY <1>1 DEF E!Config, E!Percent, E!Valid

(* The simulator by its equation. *)
LEMMA SimNext ==
    ASSUME IInv, index # 0
    PROVE  /\ index \in 1..Len(load.hist)
           /\ Sim(index) = Ref!Pass(Sim(index - 1), index, load.hist, cfg)
<1>1. index \in 1..Len(load.hist) /\ Len(load.hist) \in Nat
  BY DEF IInv, Typed, LoadInv, Spaced
<1>2. Sim(index) = Lap(load.hist, cfg, Sim(index - 1), index)
  BY <1>1, LoopIs DEF Sim
<1>3. QED
  BY <1>1, <1>2 DEF Lap

LEMMA SimFirst == ASSUME IInv PROVE Sim(0) = Ref!Searching
<1>1. Len(load.hist) \in Nat
  BY DEF IInv, Typed, LoadInv, Spaced
<1>2. QED
  BY <1>1, LoopIs DEF Sim, Lap

(* The two stand the same when the first candle is served. *)
LEMMA StartFollows == ASSUME IInv, Logged, StartBacktest PROVE Follows'
<1>1. /\ phase = "load" /\ phase' = IF load.hist = <<>> THEN "over" ELSE "serve"
      /\ UNCHANGED <<load, index, client, cfg, entries>>
  BY DEF StartBacktest, input, engine
<1>2. index = 0 /\ entries = <<>> /\ client.trades = <<>> /\ Books(client)
  BY <1>1 DEF IInv, Typed, Story, Logged
<1>3. client.tc = 1 /\ ~TradeOpen(client)
  BY <1>2 DEF Books, TradeOpen
<1>4. Match(Sim(0), client)
  <2>1. <<>> \in Seq(Trade)
    OBVIOUS
  <2> SUFFICES ASSUME NEW s, s = Sim(0) PROVE Match(s, client)
    OBVIOUS
  <2>2. DOMAIN s = {"at", "entry", "high", "trades"} /\ s.at = 0 /\ s.trades = <<>>
    BY SimFirst DEF Ref!Searching
  <2>3. Len(s.trades) = client.tc - 1 /\ 1..client.tc - 1 = {}
    BY <1>3, <2>2
  <2>4. QED
    BY <1>3, <2>1, <2>2, <2>3 DEF Match
<1>5. load.hist = <<>> => Ref!RunSimulation(load.hist, cfg) = <<>>
  <2>1. SUFFICES ASSUME load.hist = <<>> PROVE Ref!RunSimulation(load.hist, cfg) = <<>>
    OBVIOUS
  <2>2. Ref!Loop(load.hist, cfg)[Len(load.hist)] = Ref!Searching
    BY <2>1, SimFirst DEF Sim
  <2>3. Ref!Searching.at = 0 /\ Ref!Searching.trades = <<>>
    BY DEF Ref!Searching
  <2>4. QED
    BY <2>2, <2>3, Zenon DEF Ref!RunSimulation
<1>6. phase' # "handle" /\ Sim(0)' = Sim(0)
  BY <1>1 DEF Sim
<1>7. QED
  BY <1>1, <1>2, <1>4, <1>5, <1>6 DEF Follows, Sim

(* A candle that is served: the engine sees what the simulator sees. *)
LEMMA ServeFollows ==
    ASSUME IInv, Beside, Comparable, ServeCandle
    PROVE  Follows'
<1> DEFINE n == index + 1
           candle == load.hist[n]
<1>1. /\ phase = "serve" /\ index < Len(load.hist) /\ E!Tick(candle) /\ index' = n
      /\ client' = Served(client, candle.price)
      /\ signal' = SignalOf(state, state') /\ phase' = IF ticks' = ticks THEN "serve" ELSE "handle"
  BY DEF ServeCandle
<1>2. Typed /\ Story /\ Protected /\ Follows /\ window = cfg.window
  BY <1>1 DEF IInv, Beside, Comparable
<1>3. candle \in Candle /\ n \in 1..Len(load.hist) /\ index \in Nat /\ Spaced(load.hist) /\ Even(load.hist)
  BY <1>1, <1>2, NextCandle DEF Typed, LoadInv, Comparable, Regular, Even
<1>4. SameAccounts(client, client') /\ UNCHANGED <<load, cfg, entry>>
  BY ServeTyped
<1>5. cfg \in E!Config /\ E!Valid(cfg) /\ cfg.type # "dummy" /\ window \in Nat
  <2>1. cfg \in E!Config /\ E!Valid(cfg) /\ cfg.type # "dummy"
    BY CfgIs
  <2>2. QED
    BY <1>2, <2>1 DEF E!Config
<1>6. E!Admits(entries, candle)
  BY CandleTaken DEF Comparable
<1>7. Match(Sim(index), client')
  BY <1>1, <1>2, <1>4, MatchSame DEF Follows, SameAccounts
<1> HIDE DEF candle
<1>8. /\ entries' = E!Accepted(entries, candle, window) /\ window' = window
      /\ state' = E!AfterSignal(entries', high')
  BY <1>1, <1>6 DEF E!Tick
<1>9. phase' = "handle" /\ E!Newest(entries') = candle
  BY <1>1, <1>2, <1>3, <1>6, TickIs
<1>10. Kept(load.hist, n, window, entries')
  <2>1. IF index = 0 THEN entries = <<>> ELSE Kept(load.hist, index, window, entries)
    BY <1>1, <1>2 DEF Follows
  <2>2. QED
    BY <1>3, <1>5, <1>8, <2>1, KeptNext DEF candle
<1>11. E!EntryRule(cfg, entries') <=> Ref!MomentumEntryTriggered(load.hist, n, cfg)
  BY <1>2, <1>3, <1>5, <1>10, EntrySame
<1>12. state \in {"IDLE", "IN_POSITION"}
  BY <1>1, <1>2 DEF Typed, Story, Protected, Comparable, E!StrategyState
<1>13. CASE state = "IDLE"
  <2>1. state' = IF E!EntryRule(cfg, entries') THEN "PENDING_BUY" ELSE "IDLE"
    BY <1>8, <1>13 DEF E!AfterSignal
  <2>2. signal' = IF E!EntryRule(cfg, entries') THEN "Buy" ELSE "SearchingBuyEntry"
    BY <1>1, <1>13, <2>1 DEF SignalOf
  <2>3. Told'
    BY <1>1, <1>4, <1>11, <2>2 DEF Told
  <2>4. QED
    BY <2>3, <1>1, <1>3, <1>4, <1>7, <1>8, <1>9, <1>10 DEF Follows, Sim
<1>14. CASE state = "IN_POSITION"
  <2>1. state' = IF E!ProfitRule(cfg, candle.price, entry) THEN "PENDING_SELL" ELSE "IN_POSITION"
    BY <1>8, <1>9, <1>14 DEF E!AfterSignal, E!ExitRule, Comparable
  <2>2. signal' = IF E!ProfitRule(cfg, candle.price, entry) THEN "Sell" ELSE "TrackingSellExit"
    BY <1>1, <1>14, <2>1 DEF SignalOf
  <2>3. Told'
    BY <1>1, <1>4, <2>2 DEF Told, candle
  <2>4. QED
    BY <2>3, <1>1, <1>3, <1>4, <1>7, <1>8, <1>9, <1>10 DEF Follows, Sim
<1>15. QED
  BY <1>12, <1>13, <1>14

(* What a handler finds, and what it has to leave. *)
LEMMA HandleFollows ==
    ASSUME IInv, Beside, Comparable, NEW sig, Handle(sig)
    PROVE  /\ phase = "handle" /\ signal = sig /\ phase' = "serve" /\ index \in 1..Len(load.hist)
           /\ Current \in Candle /\ Current = load.hist[index] /\ Current.price \in Nat \ {0}
           /\ Typed /\ Story /\ Signalled /\ Protected /\ Books(client) /\ ~abandoned /\ Told
           /\ Match(Sim(index - 1), client) /\ Sim(index) = Ref!Pass(Sim(index - 1), index, load.hist, cfg)
           /\ pos.active => TradeOpen(client) /\ client.trades[client.tc].buy = entry /\ entry \in Nat \ {0}
           /\ ~pos.active => ~TradeOpen(client) /\ client.crypto < Lot
           /\ entries' = entries /\ window' = window /\ cfg' = cfg /\ Match(Sim(index), client') => Follows'
<1>1. /\ phase = "handle" /\ signal = sig /\ phase' = "serve"
      /\ UNCHANGED <<file, load, capital, index, signal>>
      /\ Current \in Candle /\ Current.price \in Nat \ {0}
      /\ Typed /\ Story /\ Signalled /\ Protected
  BY HandleIs DEF Comparable
<1>2. index # 0 /\ Books(client) /\ abandoned \in BOOLEAN
  BY <1>1 DEF Typed
<1>3. index \in 1..Len(load.hist) /\ Sim(index) = Ref!Pass(Sim(index - 1), index, load.hist, cfg)
  BY <1>2, SimNext
<1>4. Follows
  BY <1>1 DEF Beside
<1>5. Told /\ Match(Sim(index - 1), client) /\ Kept(load.hist, index, window, entries)
  BY <1>1, <1>2, <1>4 DEF Follows
<1>6. /\ pos.active => TradeOpen(client) /\ client.trades[client.tc].buy = entry /\ entry \in Nat \ {0}
      /\ ~pos.active => ~TradeOpen(client) /\ client.crypto < Lot
  BY <1>1 DEF Story, Comparable
<1>7. ASSUME entries' = entries, window' = window, cfg' = cfg, Match(Sim(index), client') PROVE Follows'
  BY <1>1, <1>2, <1>5, <1>7 DEF Follows, Sim
<1>8. QED
  BY <1>1, <1>2, <1>3, <1>5, <1>6, <1>7 DEF Current, Comparable

(* Each signal leaves the two together: no purchase, a purchase, no sale, a sale. *)
LEMMA SearchingFollows ==
    ASSUME IInv, Beside, Comparable, SignalSearchingBuyEntry
    PROVE  Follows'
<1>1. Handle("SearchingBuyEntry") /\ ~pos.active /\ UNCHANGED <<client, entries, window, cfg>>
  BY DEF SignalSearchingBuyEntry, engine
<1>2. /\ signal = "SearchingBuyEntry" /\ ~TradeOpen(client) /\ Told /\ Match(Sim(index - 1), client)
      /\ Sim(index) = Ref!Pass(Sim(index - 1), index, load.hist, cfg)
  BY <1>1, HandleFollows
<1>3. ~Ref!MomentumEntryTriggered(load.hist, index, cfg) /\ Sim(index - 1).at = 0
  BY <1>2 DEF Told, Match
<1>4. Sim(index) = Sim(index - 1)
  BY <1>2, <1>3, PassSearches
<1>5. QED
  BY <1>1, <1>2, <1>4, HandleFollows

(* A purchase that is not refused is the simulator's. *)
LEMMA BuyFollows ==
    ASSUME IInv, Beside, Comparable, ~refused', SignalBuy
    PROVE  Follows'
<1>1. Handle("Buy") /\ ~pos.active
  BY DEF SignalBuy
<1>2. /\ signal = "Buy" /\ Typed /\ Books(client) /\ ~TradeOpen(client) /\ client.crypto < Lot
      /\ Told /\ Match(Sim(index - 1), client)
      /\ Sim(index) = Ref!Pass(Sim(index - 1), index, load.hist, cfg)
      /\ Current \in Candle /\ Current = load.hist[index] /\ Current.price \in Nat \ {0}
  BY <1>1, HandleFollows
<1>3. Unheld(Current.price)
  BY <1>1, <1>2, HandleIs, NothingUnheld DEF Comparable
<1>4. /\ CanBuy(client, Units(Current.price), Current.price)
      /\ client' = Bought(client, Units(Current.price), Current)
      /\ E!SetInPosition(Current.price, Current.price)
  BY <1>3 DEF SignalBuy, Units
<1>5. Units(Current.price) \in Nat
  BY <1>2, BudgetIs
<1>6. Ref!MomentumEntryTriggered(load.hist, index, cfg)
  BY <1>2 DEF Told
<1>7. Match(Sim(index), client')
  BY <1>2, <1>4, <1>5, <1>6, MatchBuy
<1>8. entries' = entries /\ window' = window /\ cfg' = cfg
  BY <1>4 DEF E!SetInPosition, E!market
<1>9. QED
  BY <1>1, <1>7, <1>8, HandleFollows

LEMMA TrackingFollows ==
    ASSUME IInv, Beside, Comparable, SignalTrackingSellExit
    PROVE  Follows'
<1>1. Handle("TrackingSellExit") /\ pos.active /\ UNCHANGED <<entries, window, cfg>>
      /\ client' = IF pos.armed \/ client.open # {} THEN client
                   ELSE StopPlaced(client, pos.entry * (Unit - cfg.stop))
  BY DEF SignalTrackingSellExit, engine
<1>2. /\ signal = "TrackingSellExit" /\ Books(client) /\ TradeOpen(client) /\ client.trades[client.tc].buy = entry
      /\ Told /\ Match(Sim(index - 1), client)
      /\ Sim(index) = Ref!Pass(Sim(index - 1), index, load.hist, cfg)
  BY <1>1, HandleFollows
<1>3. ~E!ProfitRule(cfg, load.hist[index].price, client.trades[client.tc].buy)
  BY <1>2 DEF Told
<1>4. Match(Sim(index), client)
  BY <1>2, <1>3, MatchHold DEF Comparable
<1>5. client'.trades = client.trades /\ client'.tc = client.tc
  <2>1. CASE pos.armed \/ client.open # {}
    BY <1>1, <2>1
  <2>2. CASE ~pos.armed /\ client.open = {}
    BY <1>1, <1>2, <2>2, StopPlacedIs DEF SameAccounts
  <2>3. QED
    BY <2>1, <2>2
<1>6. Match(Sim(index), client')
  BY <1>4, <1>5, MatchSame
<1>7. QED
  BY <1>1, <1>6, HandleFollows

(* A sale that leaves nothing behind is the simulator's. *)
LEMMA SellFollows ==
    ASSUME IInv, Beside, Comparable, ~abandoned', SignalSell
    PROVE  Follows'
<1>1. Handle("Sell") /\ pos.active
  BY DEF SignalSell
<1>2. /\ phase = "handle" /\ signal = "Sell" /\ Protected /\ Books(client) /\ TradeOpen(client)
      /\ client.trades[client.tc].buy = entry /\ entry \in Nat \ {0}
      /\ Told /\ Match(Sim(index - 1), client)
      /\ Sim(index) = Ref!Pass(Sim(index - 1), index, load.hist, cfg)
      /\ Current \in Candle /\ Current = load.hist[index]
  BY <1>1, HandleFollows
<1>3. ~LeftToStop(Current.price)
  BY <1>2 DEF LeftToStop, Protected
<1>4. PositionGone /\ \E c \in Freed(client) : client' = Sold(c, FormatOrderAmount(c.crypto), Current, cfg.type)
  BY <1>3 DEF SignalSell
<1>5. PICK c \in Freed(client) : client' = Sold(c, FormatOrderAmount(c.crypto), Current, cfg.type)
  BY <1>4
<1>6. /\ Books(c) /\ c.trades = client.trades /\ c.tc = client.tc
      /\ FormatOrderAmount(c.crypto) \in 0..c.crypto
  <2>1. Books(c) /\ c.trades = client.trades /\ c.tc = client.tc
    BY <1>2, <1>5, FreedIs DEF SameAccounts
  <2>2. QED
    BY <2>1, FormattedIs DEF Books
<1>7. TradeOpen(c) /\ Match(Sim(index - 1), c)
  BY <1>2, <1>6, MatchSame DEF TradeOpen
<1>8. E!ProfitRule(cfg, load.hist[index].price, c.trades[c.tc].buy) /\ c.trades[c.tc].buy \in Nat \ {0}
  BY <1>2, <1>6 DEF Told
<1>9. cfg.type = "profit" /\ cfg.target \in Nat /\ cfg.stop \in Nat \ {0} /\ PaysTaxes(cfg)
  BY CfgIs DEF Comparable
<1>10. Match(Sim(index), client')
  BY <1>2, <1>5, <1>6, <1>7, <1>8, <1>9, MatchSell
<1>11. entries' = entries /\ window' = window /\ cfg' = cfg
  BY <1>4 DEF PositionGone, E!ResetPosition, E!market
<1>12. QED
  BY <1>1, <1>10, <1>11, HandleFollows

(* When the candles are used up the logs agree. *)
LEMMA EndFollows ==
    ASSUME IInv, Beside, Comparable, EndOfData
    PROVE  Follows'
<1>1. /\ phase = "serve" /\ phase' = "over" /\ index = Len(load.hist) /\ UNCHANGED <<load, cfg>>
      /\ client' = Closed(client, Last(load.hist))
  BY DEF EndOfData, input, engine
<1>2. Books(client) /\ load.hist # <<>> /\ load.hist \in Seq(Candle)
  BY <1>1 DEF IInv, Typed, LoadInv, Spaced
<1>3. Len(load.hist) \in Nat \ {0} /\ Last(load.hist) \in Candle
  BY <1>2, EmptySeq DEF Last
<1>4. Match(Ref!Loop(load.hist, cfg)[Len(load.hist)], client)
  BY <1>1 DEF Beside, Follows, Sim
<1>5. client'.trades = Ref!RunSimulation(load.hist, cfg)
  BY <1>1, <1>2, <1>3, <1>4, MatchEnds
<1>6. QED
  BY <1>1, <1>5 DEF Follows

(* Beside is inductive. *)
LEMMA BesideKept == ASSUME IInv, Logged, Beside, [Next]_vars, refused \in BOOLEAN PROVE Beside'
<1>1. window' = window /\ cfg' = cfg
  BY WindowKept
<1>0. SUFFICES ASSUME Comparable', phase' # "load" PROVE Follows'
  BY <1>1 DEF Beside
<1>2. ~abandoned /\ ~abandoned' /\ ~refused /\ ~refused'
  <2>1. ~abandoned' /\ ~refused'
    BY <1>0 DEF Comparable
  <2>2. ~abandoned
    BY <2>1, Remembered, Zenon
  <2>3. ~refused
    BY <2>1, Remembered, Zenon
  <2>4. QED
    BY <2>1, <2>2, <2>3
<1>3. ASSUME NEW step \in Steps, ReadRow(step) PROVE FALSE
  BY <1>0, <1>3 DEF ReadRow
<1>4. CASE UNCHANGED vars
  <2>1. Comparable /\ phase # "load"
    BY <1>0, <1>4 DEF vars, input, engine, Comparable, Regular, LotWorthless
  <2>2. Follows
    BY <2>1 DEF Beside
  <2>3. QED
    BY <2>2, <1>4 DEF vars, input, engine, Follows, Told, Sim
<1>5. CASE StartBacktest
  BY <1>5, StartFollows
<1>6. CASE ~(StartBacktest \/ UNCHANGED vars)
  <2>1. load' = load
    BY <1>3, <1>6, HandleIs, ServeTyped DEF Next, Exited, EndOfData, input, Handle,
           SignalSearchingBuyEntry, SignalBuy, SignalWaitingBuyFill, SignalTrackingSellExit, SignalSell,
           SignalWaitingSellFill
  <2>2. Comparable
    BY <1>0, <1>1, <1>2, <2>1 DEF Comparable, Regular, LotWorthless
  <2>3. ~SignalWaitingBuyFill
    <3>1. SUFFICES ASSUME Handle("WaitingBuyFill") PROVE FALSE
      BY DEF SignalWaitingBuyFill
    <3>2. phase = "handle" /\ signal = "WaitingBuyFill" /\ Story /\ Signalled
      BY <3>1, HandleIs
    <3>3. QED
      BY <1>2, <2>2, <3>2 DEF Story, Signalled, Comparable
  <2>4. ~SignalWaitingSellFill
    <3>1. SUFFICES ASSUME Handle("WaitingSellFill") PROVE FALSE
      BY DEF SignalWaitingSellFill
    <3>2. phase = "handle" /\ signal = "WaitingSellFill" /\ Signalled /\ Protected
      BY <2>2, <3>1, HandleIs DEF Comparable
    <3>3. QED
      BY <3>2 DEF Protected, Signalled
  <2>5. ServeCandle \/ EndOfData \/ SignalSearchingBuyEntry \/ SignalBuy \/ SignalTrackingSellExit \/ SignalSell
    BY <1>3, <1>6, <2>3, <2>4 DEF Next, Exited
  <2>6. QED
    BY <1>2, <2>2, <2>5, ServeFollows, EndFollows, SearchingFollows, BuyFollows,
       TrackingFollows, SellFollows
<1>7. QED
  BY <1>4, <1>5, <1>6

(* "The simulator output should be compared against the go-bot backtest to   *)
(* validate that both implementations produce identical results"             *)
(* (src/simulator/README.md:107): they do, for files of any length, whatever *)
(* the prices, the period, the capital and the strategy with a profit target. *)
THEOREM SimulatorAgrees == Spec => []Parity
<1>1. Init => Logged /\ Copied /\ Beside /\ refused \in BOOLEAN
  <2>1. Init => Logged
    BY DEF Init, NewClient, Logged
  <2>2. Init => Beside /\ refused \in BOOLEAN
    BY DEF Init, Beside
  <2>3. QED
    BY <2>1, <2>2, InitCopied
<1>2. IInv /\ IInv' /\ Logged /\ Copied /\ Beside /\ refused \in BOOLEAN /\ [Next]_vars
          => (Logged /\ Copied /\ Beside /\ refused \in BOOLEAN)'
  BY LoggedKept, CopiedKept, BesideKept, Remembered
<1>3. IInv /\ Copied /\ Beside => Parity
  BY CopiedSame DEF Beside, Comparable, Follows, Parity
<1>4. QED
  BY <1>1, <1>2, <1>3, Invariant, PTL DEF Spec
----------------------------------------------------------------------------
(* What FundsLast rests on: a purchase takes at most a share of the capital, *)
(* and what k trades have taken leaves all the shares but k, whatever they    *)
(* lost; so does the stored balance, which misses what the last sale brought. *)
Left == (Shares - Len(client.trades)) * (capital * Unit)
Funded ==
    ~abandoned =>
        /\ Shares * client.cash >= Left /\ Shares * stored >= Left
        /\ refused /\ capital >= Shares * MinBudget => Len(client.trades) >= Shares

LEMMA Order ==
    /\ \A a, x, y \in Nat : x <= y => a * x <= a * y
    /\ \A a, x, y \in Nat : a * x < a * y => x < y
    /\ \A a, x \in Nat : a * x \in Nat /\ a * (x + 1) = a * x + a
    /\ \A a, x \in Nat : a >= 1 => a * x >= x
<1>1. \A a, x, y \in Nat : x <= y => a * x <= a * y
  BY SMT
<1>2. ASSUME NEW a \in Nat, NEW x \in Nat, NEW y \in Nat, a * x < a * y PROVE x < y
  <2>1. y <= x => a * y <= a * x
    BY <1>1
  <2>2. a * x \in Nat /\ a * y \in Nat
    BY SMT
  <2>3. QED
    BY <1>2, <2>1, <2>2
<1>3. \A a, x \in Nat : a * x \in Nat /\ a * (x + 1) = a * x + a
  BY SMT
<1>4. \A a, x \in Nat : a >= 1 => a * x >= x
  BY SMT
<1>5. QED
  BY <1>1, <1>2, <1>3, <1>4

(* What the budget of a purchase is, in terms of the capital. *)
LEMMA ShareIs ==
    ASSUME Typed, NEW balance \in Nat
    PROVE  /\ capital * Unit \in Nat /\ Budget(balance) \in Nat
           /\ Budget(balance) <= balance /\ Shares * Budget(balance) <= capital * Unit
           /\ capital >= Shares * MinBudget /\ ~Allowed(balance) =>
                  balance < MinBudget * Unit /\ Shares * (MinBudget * Unit) <= capital * Unit
<1>1. capital \in Nat /\ Unit \in Nat \ {0} /\ MinBudget \in Nat /\ Shares \in Nat \ {0}
  BY ClientAssumption, BacktestAssumption DEF Typed, Books
<1> DEFINE k == capital * Unit
           m == MinBudget * Unit
           share == k \div Shares
<1>2. k \in Nat /\ m \in Nat
  BY <1>1
<1>3. Budget(balance) = (IF share > balance THEN balance ELSE share) /\ (Allowed(balance) <=> Budget(balance) >= m)
  BY DEF Budget, Allowed
<1>4. capital >= Shares * MinBudget => Shares * m <= k
  <2>1. Shares * MinBudget \in Nat /\ (Shares * MinBudget) * Unit = Shares * m
    BY <1>1, SMT
  <2>2. Shares * MinBudget <= capital => Unit * (Shares * MinBudget) <= Unit * capital
    BY <1>1, <2>1, Order
  <2>3. Unit * (Shares * MinBudget) = Shares * m /\ Unit * capital = k
    BY <1>1, <2>1, SMT
  <2>4. QED
    BY <1>1, <2>1, <2>2, <2>3
<1> HIDE DEF k, m
<1>5. share \in Nat /\ Shares * share <= k /\ k < Shares * (share + 1)
  <2>1. \A x \in Nat, y \in Nat \ {0} :
            x \div y \in Nat /\ y * (x \div y) <= x /\ x < y * (x \div y) + y
    BY SMT
  <2>2. QED
    BY <1>1, <1>2, <2>1, Order
<1> HIDE DEF share
<1>6. Budget(balance) \in Nat /\ Budget(balance) <= balance /\ Budget(balance) <= share
  BY <1>3, <1>5
<1>7. Shares * Budget(balance) <= k
  <2>1. Shares * Budget(balance) <= Shares * share
    BY <1>1, <1>5, <1>6, Order
  <2>2. Shares * Budget(balance) \in Nat /\ Shares * share \in Nat
    BY <1>1, <1>5, <1>6, Order
  <2>3. QED
    BY <1>2, <1>5, <2>1, <2>2
<1>8. Shares * m <= k => m <= share
  <2>1. Shares * m \in Nat /\ Shares * (share + 1) \in Nat /\ share + 1 \in Nat
    BY <1>1, <1>2, <1>5, Order
  <2>2. Shares * m <= k => Shares * m < Shares * (share + 1)
    BY <1>2, <1>5, <2>1
  <2>3. Shares * m < Shares * (share + 1) => m < share + 1
    BY <1>1, <1>2, <2>1, Order
  <2>4. QED
    BY <1>2, <1>5, <2>2, <2>3
<1>9. capital >= Shares * MinBudget /\ ~Allowed(balance) => balance < m /\ Shares * m <= k
  BY <1>2, <1>3, <1>4, <1>5, <1>8
<1>10. QED
  BY <1>2, <1>6, <1>7, <1>9 DEF k, m

LEMMA CostIs ==
    ASSUME Typed, NEW price \in Nat \ {0}
    PROVE  Units(price) * price \in Nat /\ Units(price) * price <= Budget(client.cash)
<1> DEFINE b == Budget(client.cash)
           u == ApprovedUnits(client.cash, price)
<1>1. b \in Nat /\ u \in Nat /\ Units(price) \in Nat /\ Units(price) <= u
  BY BudgetIs
<1>2. u * (100 * price) <= b * 99
  <2>1. u = (b * 99) \div (100 * price)
    BY DEF ApprovedUnits
  <2>2. \A x \in Nat, y \in Nat \ {0} : (x \div y) * y <= x
    BY SMT
  <2>3. b * 99 \in Nat /\ 100 * price \in Nat \ {0}
    BY <1>1
  <2>4. QED
    BY <2>1, <2>2, <2>3
<1> HIDE DEF b, u
<1>3. u * price \in Nat /\ u * (100 * price) = 100 * (u * price)
  BY <1>1, SMT
<1>4. u * price <= b
  BY <1>1, <1>2, <1>3
<1>5. Units(price) * price \in Nat /\ Units(price) * price <= u * price
  <2>1. price * Units(price) <= price * u /\ price * Units(price) \in Nat
    BY <1>1, Order
  <2>2. price * Units(price) = Units(price) * price /\ price * u = u * price
    BY <1>1, SMT
  <2>3. QED
    BY <2>1, <2>2
<1>6. QED
  BY <1>1, <1>3, <1>4, <1>5 DEF b

(* Only a purchase costs cash. *)
LEMMA FundedLater ==
    ASSUME Typed, Typed', Funded, ~abandoned' => ~abandoned, UNCHANGED <<capital, refused>>,
           client'.cash >= client.cash, Len(client'.trades) = Len(client.trades),
           stored' \in {stored, client.cash, client'.cash}
    PROVE  Funded'
<1>1. capital * Unit \in Nat /\ client.cash \in Nat /\ client'.cash \in Nat /\ stored \in Nat /\ stored' \in Nat
  BY ClientAssumption DEF Typed, Books
<1>2. Shares \in Nat /\ Len(client.trades) \in Nat
  BY BacktestAssumption DEF Typed, Books
<1>3. Left \in Int /\ Left' = Left
  <2>1. Left \in Int
    BY <1>1, <1>2 DEF Left
  <2>2. QED
    BY <2>1 DEF Left
<1>4. /\ Shares * client.cash \in Nat /\ Shares * client'.cash \in Nat
      /\ Shares * client.cash <= Shares * client'.cash
  BY <1>1, <1>2, Order
<1>5. Shares * client.cash >= Left /\ Shares * stored >= Left =>
          Shares * client'.cash >= Left' /\ Shares * stored' >= Left'
  BY <1>3, <1>4
<1>6. QED
  BY <1>5 DEF Funded

LEMMA SameFunds ==
    ASSUME Typed, NEW c, SameAccounts(client, c)
    PROVE  c.cash >= client.cash /\ Len(c.trades) = Len(client.trades)
<1>1. client.cash \in Nat /\ c.cash = client.cash /\ c.trades = client.trades
  BY DEF Typed, Books, SameAccounts
<1>2. QED
  BY <1>1

LEMMA BuyFunds == ASSUME IInv, IInv', Funded, SignalBuy PROVE Funded'
<1>1. /\ Handle("Buy") /\ ~pos.active /\ abandoned' = abandoned
      /\ \/ ~Allowed(stored) /\ refused' = TRUE /\ UNCHANGED <<client, stored>>
         \/ refused' = refused /\ UNCHANGED client /\ stored' = client.cash
         \/ /\ refused' = refused /\ client' = Bought(client, Units(Current.price), Current)
            /\ stored' = client'.cash
  BY DEF SignalBuy, Units
<1>2. /\ Typed /\ Typed' /\ Story /\ phase = "handle" /\ capital' = capital
      /\ Current \in Candle /\ Current.price \in Nat \ {0}
  BY <1>1, HandleIs DEF IInv
<1> DEFINE k == capital * Unit
           n == Len(client.trades)
<1>3. /\ client.cash \in Nat /\ stored \in Nat /\ n \in Nat /\ client.tc \in Nat \ {0}
      /\ n \in {client.tc - 1, client.tc} /\ Shares \in Nat /\ MinBudget * Unit \in Nat
  BY <1>2, BacktestAssumption, ClientAssumption DEF Typed, Books
<1>4. k \in Nat
  BY <1>2, <1>3, ShareIs
<1>5. CASE abandoned
  BY <1>1, <1>5 DEF Funded
<1>6. CASE ~abandoned /\ ~Allowed(stored) /\ refused' = TRUE /\ UNCHANGED <<client, stored>>
  <2>1. capital >= Shares * MinBudget => n >= Shares
    <3>1. SUFFICES ASSUME capital >= Shares * MinBudget, ~(n >= Shares) PROVE FALSE
      OBVIOUS
    <3>2. stored < MinBudget * Unit /\ Shares * (MinBudget * Unit) <= k
      BY <1>2, <1>3, <1>6, <3>1, ShareIs
    <3>3. Shares * stored >= (Shares - n) * k
      BY <1>6 DEF Funded, Left
    <3> DEFINE m == MinBudget * Unit
    <3> HIDE DEF m, k, n
    <3>4. Shares - n >= 1 /\ Shares - n \in Nat /\ Shares >= 1
      BY <1>3, <3>1
    <3>5. (Shares - n) * k >= k
      BY <1>4, <3>4, Order
    <3>6. stored + 1 <= m /\ stored + 1 \in Nat /\ m \in Nat
      BY <1>3, <3>2 DEF m
    <3>7. Shares * (stored + 1) <= Shares * m
      BY <1>3, <3>6, Order
    <3>8. Shares * (stored + 1) = Shares * stored + Shares /\ Shares * stored \in Nat
      BY <1>3, Order
    <3>9. Shares * m \in Nat /\ Shares * m <= k
      BY <1>3, <3>2, <3>6, Order DEF m
    <3>10. (Shares - n) * k \in Int
      BY <1>4, <3>4
    <3>11. QED
      BY <1>3, <1>4, <3>3, <3>4, <3>5, <3>7, <3>8, <3>9, <3>10
  <2>2. QED
    BY <1>2, <1>6, <2>1 DEF Funded, Left
<1>7. CASE ~abandoned /\ refused' = refused /\ UNCHANGED client /\ stored' = client.cash
  BY <1>2, <1>7 DEF Funded, Left
<1>8. CASE /\ ~abandoned /\ refused' = refused /\ client' = Bought(client, Units(Current.price), Current)
           /\ stored' = client'.cash
  <2> DEFINE cost == Units(Current.price) * Current.price
             d == Bought(client, Units(Current.price), Current)
             b == Budget(client.cash)
  <2>1. cost \in Nat /\ cost <= b /\ b \in Nat /\ Shares * b <= k
    BY <1>2, <1>3, CostIs, ShareIs
  <2>2. ~TradeOpen(client)
    BY <1>1, <1>2, <1>8 DEF Story
  <2>3. n = client.tc - 1
    BY <1>3, <2>2 DEF TradeOpen
  <2>4. Units(Current.price) \in Nat
    BY <1>2, BudgetIs
  <2>5. Len(d.trades) = client.tc
    BY <1>2, <2>4, BoughtLogs DEF Typed
  <2>6. d.cash = client.cash - cost
    BY <1>2 DEF Bought, Typed, Books
  <2>7. Len(client'.trades) = n + 1 /\ client'.cash = client.cash - cost
    BY <1>3, <1>8, <2>3, <2>5, <2>6
  <2>8. Shares * client.cash >= (Shares - n) * k
    BY <1>8 DEF Funded, Left
  <2>9. refused' /\ capital >= Shares * MinBudget => n + 1 >= Shares
    <3>1. refused /\ capital >= Shares * MinBudget => n >= Shares
      BY <1>8 DEF Funded
    <3>2. QED
      BY <1>3, <1>8, <3>1
  <2>10. client'.cash \in Nat
    BY <1>2 DEF Typed, Books
  <2> HIDE DEF n, cost, d, b, k
  <2>11. Shares * client'.cash = Shares * client.cash - Shares * cost /\ Shares * cost \in Nat
    BY <1>3, <2>1, <2>7, <2>10, SMT
  <2>12. Shares * cost <= Shares * b /\ Shares * b \in Nat /\ Shares * client.cash \in Nat
    BY <1>3, <2>1, Order
  <2>13. (Shares - (n + 1)) * k = (Shares - n) * k - k /\ (Shares - n) * k \in Int
    BY <1>3, <1>4
  <2>14. Shares * client'.cash >= (Shares - (n + 1)) * k
    BY <1>4, <2>1, <2>8, <2>11, <2>12, <2>13
  <2>15. Left' = (Shares - (n + 1)) * k
    BY <1>2, <2>7 DEF Left, k
  <2>16. QED
    BY <1>2, <1>8, <2>7, <2>9, <2>14, <2>15 DEF Funded
<1>9. QED
  BY <1>1, <1>5, <1>6, <1>7, <1>8

LEMMA SellFunds == ASSUME IInv, IInv', Funded, SignalSell, ~abandoned' => ~abandoned PROVE Funded'
<1>1. Handle("Sell") /\ pos.active /\ refused' = refused /\ stored' = client.cash
  BY DEF SignalSell
<1>2. Typed /\ Typed' /\ phase = "handle" /\ capital' = capital /\ Current \in Candle /\ Books(client)
  BY <1>1, HandleIs DEF IInv, Typed
<1>3. TradeOpen(client)
  BY <1>1, <1>2 DEF IInv, Story
<1>4. CASE client' = client \/ client' \in Freed(client)
  <2>1. SameAccounts(client, client')
    BY <1>2, <1>4, FreedIs DEF SameAccounts
  <2>2. QED
    BY <1>1, <1>2, <2>1, SameFunds, FundedLater
<1>5. CASE \E c \in Freed(client) : client' = Sold(c, FormatOrderAmount(c.crypto), Current, cfg.type)
  <2>1. PICK c \in Freed(client) : client' = Sold(c, FormatOrderAmount(c.crypto), Current, cfg.type)
    BY <1>5
  <2>2. Books(c) /\ SameAccounts(client, c) /\ TradeOpen(c)
    BY <1>2, <1>3, FreedIs DEF SameAccounts, TradeOpen
  <2> DEFINE amount == FormatOrderAmount(c.crypto)
             b == Paid(c, amount, Current)
             why == Verdict(c, Current, cfg.type)
  <2>3. amount \in 0..c.crypto
    BY <2>2, FormattedIs DEF Books
  <2>4. /\ client' = Finished(b, Current, why) /\ Books(b) /\ TradeOpen(b) /\ b.trades = c.trades
        /\ b.cash >= c.cash /\ why \in Reasons
    BY <1>2, <2>1, <2>2, <2>3, SoldFinishes
  <2> HIDE DEF b, why
  <2>5. client'.cash = b.cash /\ Len(client'.trades) = Len(b.trades)
    BY <1>2, <2>4, FinishedIs
  <2>6. client'.cash >= client.cash /\ Len(client'.trades) = Len(client.trades)
    BY <2>2, <2>4, <2>5 DEF SameAccounts
  <2>7. QED
    BY <1>1, <1>2, <2>6, FundedLater
<1>6. QED
  BY <1>4, <1>5 DEF SignalSell

LEMMA FundedKept == ASSUME IInv, IInv', Funded, [Next]_vars PROVE Funded'
<1>1. Typed /\ Typed' /\ Books(client) /\ (~abandoned' => ~abandoned)
  <2>1. ~abandoned' => ~abandoned
    BY Remembered, Zenon
  <2>2. QED
    BY <2>1 DEF IInv, Typed
<1>2. ASSUME SameAccounts(client, client'), capital' = capital, refused' = refused,
             stored' \in {stored, client.cash}
      PROVE  Funded'
  BY <1>1, <1>2, SameFunds, FundedLater
<1>3. ASSUME client' = client, capital' = capital, refused' = refused, stored' = stored PROVE Funded'
  BY <1>2, <1>3 DEF SameAccounts
<1>4. ASSUME NEW step \in Steps, ReadRow(step) PROVE Funded'
  BY <1>3, <1>4 DEF ReadRow
<1>5. CASE StartBacktest
  BY <1>3, <1>5 DEF StartBacktest, input
<1>6. CASE ServeCandle
  <2>1. SameAccounts(client, client') /\ capital' = capital /\ refused' = refused /\ stored' = stored
    BY <1>6, ServeTyped DEF ServeCandle, input
  <2>2. QED
    BY <1>2, <2>1
<1>7. CASE EndOfData
  <2>1. /\ phase = "serve" /\ capital' = capital /\ refused' = refused /\ stored' = stored
        /\ client' = Closed(client, Last(load.hist))
    BY <1>7 DEF EndOfData, input
  <2>2. CASE ~TradeOpen(client)
    BY <1>3, <2>1, <2>2 DEF Closed
  <2>3. CASE TradeOpen(client)
    <3>1. client' = Finished(client, Last(load.hist), "end_of_data") /\ "end_of_data" \in Reasons
      BY <2>1, <2>3 DEF Closed, Reasons
    <3>2. Last(load.hist) \in Candle
      BY <1>1, <2>1, EmptySeq DEF Typed, LoadInv, Spaced, Last
    <3>3. client'.cash = client.cash /\ Len(client'.trades) = Len(client.trades)
      BY <1>1, <2>3, <3>1, <3>2, FinishedIs
    <3>4. client'.cash >= client.cash
      BY <1>1, <3>3 DEF Books
    <3>5. QED
      BY <1>1, <2>1, <3>3, <3>4, FundedLater
  <2>4. QED
    BY <2>2, <2>3
<1>8. ASSUME NEW sig, Handle(sig), SameAccounts(client, client'), refused' = refused,
             stored' \in {stored, client.cash}
      PROVE  Funded'
  <2>1. capital' = capital
    BY <1>8, HandleIs
  <2>2. QED
    BY <1>2, <1>8, <2>1
<1>9. CASE SignalSearchingBuyEntry \/ SignalWaitingBuyFill
  BY <1>8, <1>9 DEF SignalSearchingBuyEntry, SignalWaitingBuyFill, SameAccounts
<1>10. CASE SignalBuy
  BY <1>10, BuyFunds
<1>11. CASE SignalTrackingSellExit
  <2>1. /\ Handle("TrackingSellExit") /\ refused' = refused /\ stored' = stored
        /\ client' = client \/ (client.open = {} /\ client' = StopPlaced(client, pos.entry * (Unit - cfg.stop)))
    BY <1>11 DEF SignalTrackingSellExit
  <2>2. SameAccounts(client, client')
    BY <1>1, <2>1, StopPlacedIs DEF SameAccounts
  <2>3. QED
    BY <1>8, <2>1, <2>2
<1>12. CASE SignalSell
  BY <1>1, <1>12, SellFunds
<1>13. CASE SignalWaitingSellFill
  <2>1. Handle("WaitingSellFill") /\ refused' = refused /\ stored' = client.cash /\ (client' = client \/ client' \in Freed(client))
    BY <1>13 DEF SignalWaitingSellFill
  <2>2. SameAccounts(client, client')
    BY <1>1, <2>1, FreedIs DEF SameAccounts
  <2>3. QED
    BY <1>8, <2>1, <2>2
<1>14. CASE UNCHANGED vars
  BY <1>3, <1>14 DEF vars, input
<1>15. QED
  BY <1>4, <1>5, <1>6, <1>7, <1>9, <1>10, <1>11, <1>12, <1>13, <1>14 DEF Next, Exited

(* "In simulation mode, we use a fraction of the initial USDT budget"        *)
(* (signal_handler.go:47): none of as many purchases as there are fractions   *)
(* is refused, whatever the earlier ones lost and though what the last sale   *)
(* brought is not in the stored balance, of any capital each share of which   *)
(* is a budget.                                                              *)
THEOREM FractionsLast == Spec => []FundsLast
<1>1. Init => Funded
  <2> SUFFICES ASSUME Init PROVE Funded
    OBVIOUS
  <2>1. client.trades = <<>> /\ client.cash = capital * Unit /\ stored = client.cash /\ ~refused
    BY DEF Init, NewClient
  <2>2. Shares \in Nat /\ client.cash \in Nat
    BY InitIInv, BacktestAssumption DEF IInv, Typed, Books
  <2>3. Left = Shares * client.cash
    <3>1. Len(client.trades) = 0 /\ Shares - 0 = Shares
      BY <2>1, <2>2
    <3>2. QED
      BY <2>1, <3>1 DEF Left
  <2>4. Shares * client.cash \in Nat
    BY <2>2, Order
  <2>5. QED
    BY <2>1, <2>3, <2>4 DEF Funded
<1>2. IInv /\ IInv' /\ Funded /\ [Next]_vars => Funded'
  BY FundedKept
<1>3. Funded => FundsLast
  BY DEF Funded, FundsLast
<1>4. QED
  BY <1>1, <1>2, <1>3, Invariant, PTL DEF Spec
=============================================================================
