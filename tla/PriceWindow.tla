---------------------------- MODULE PriceWindow ----------------------------
(***************************************************************************)
(* The price history of the strategy engine (sliding_window.cpp): which     *)
(* ticks are believed, which entries are dropped, what a lookback finds.    *)
(* A window is a sequence of price points in the order of their arrival;    *)
(* current_timestamp_ is the timestamp of its last entry, 0 before the      *)
(* first.  Prices are natural numbers, 0 is no price; percentages count     *)
(* in units of 1 / Unit.                                                    *)
(***************************************************************************)
EXTENDS Integers, Sequences, FiniteSetsExt

CONSTANTS Unit,        \* 100 %
          MaxChange,   \* MAX_TICK_PRICE_CHANGE
          JumpGap,     \* MAX_SECS_FOR_PRICE_JUMP_CHECK
          Tolerance,   \* CUTOFF_TOLERANCE_SECONDS
          Staleness    \* MAX_LOOKBACK_STALENESS

(* An entry is kept at least as long as a lookback may still accept it.     *)
ASSUME WindowAssumption ==
    /\ Unit \in Nat \ {0} /\ MaxChange \in Nat /\ JumpGap \in Nat \ {0}
    /\ Staleness \in Nat /\ Tolerance \in Nat /\ Staleness <= Tolerance

PricePoint == [ts : Nat, price : Nat]

Newest(es) == es[Len(es)]
Now(es) == IF es = <<>> THEN 0 ELSE Newest(es).ts

(* A change of price nobody believes so shortly after the last tick. *)
Jumps(p, q) ==
    /\ q.ts - p.ts < JumpGap
    /\ \/ (q.price - p.price) * Unit > MaxChange * p.price
       \/ (p.price - q.price) * Unit > MaxChange * p.price

(* mutant: a jump is refused however long the feed was silent *)
AdmitsNever(es, p) ==
    /\ p.ts >= Now(es) /\ p.price > 0
    /\ es # <<>> => ~Jumps([Newest(es) EXCEPT !.ts = p.ts], p)

(* mutant: a tick from before the last one is believed *)
AdmitsLate(es, p) ==
    /\ p.price > 0
    /\ es # <<>> => ~Jumps(Newest(es), p)

(* The checks of UpdatePrice. *)
Admits(es, p) ==
    /\ p.ts >= Now(es) /\ p.price > 0
    /\ es # <<>> => ~Jumps(Newest(es), p)

(* mutant: entries are dropped as soon as they leave the window *)
AcceptedStrictly(es, p, window) ==
    LET all  == Append(es, p)
        kept == {k \in DOMAIN all : k = Len(all) \/ all[k].ts >= p.ts - window}
    IN  SubSeq(all, Min(kept), Len(all))

(* The entries after UpdatePrice has believed p: those at the front that    *)
(* are older than the window and its tolerance are dropped.                 *)
Accepted(es, p, window) ==
    LET all  == Append(es, p)
        kept == {k \in DOMAIN all : k = Len(all) \/ all[k].ts >= p.ts - window - Tolerance}
    IN  SubSeq(all, Min(kept), Len(all))

(* is_ready_: the entries span the window. *)
Ready(es, window) == es # <<>> /\ Now(es) - es[1].ts >= window

(* GetPriceSecondsAgo: the entry before the first one that is too young,    *)
(* unless that is stale.                                                    *)
PriceAgo(es, ago) ==
    LET target == Now(es) - ago
        young  == {k \in 1..Len(es) + 1 : k > Len(es) \/ es[k].ts > target}
        found  == Min(young) - 1
    IN  IF found = 0 \/ target - es[found].ts > Staleness THEN 0 ELSE es[found].price
=============================================================================
