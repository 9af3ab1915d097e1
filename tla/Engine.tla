------------------------------- MODULE Engine -------------------------------
(***************************************************************************)
(* One instance of the strategy engine as a signal generator drives it:     *)
(* created from a configuration, warmed up with the stored history, then    *)
(* fed one tick per cycle, steered by the worker and reconfigured by        *)
(* refreshStrategies (strategy.cpp, api.cpp, rules/*.cpp, strategy.go,      *)
(* signal_generator.go).  The generator's mutex makes each call one step;   *)
(* each iteration of the warm-up's loop is a step of its own, which nobody  *)
(* can observe, as the generator is not yet in use.                         *)
(*                                                                         *)
(* ticks and feed are history variables: all the points the engine ever     *)
(* believed, and the newest timestamp it was offered with a price.          *)
(* Bounds: Points is the set of price points that may be offered, MaxTicks  *)
(* limits how many are believed.                                            *)
(***************************************************************************)
EXTENDS PriceWindow

CONSTANTS Configs, Points, MaxTicks

Percent == Nat
Config == [type : {"dummy", "profit", "trailing"}, window : Nat,
           momentum : SUBSET [lookback : Nat, threshold : Int], all : BOOLEAN,
           stop : Percent, target : Percent, activation : Percent, trail : Percent]

ASSUME EngineAssumption == Configs \subseteq Config /\ Points \subseteq PricePoint /\ MaxTicks \in Nat

VARIABLES
    loading,  \* SlidingWindowPriceState::Init is under way
    window,   \* window_seconds_
    cfg,      \* the configuration the rules were built from
    entries,  \* entries_; while loading, the points of the history kept so far
    state,    \* state_
    entry,    \* entry_price_
    high,     \* highest_price_since_entry_
    ticks, feed

market   == <<loading, entries, ticks, feed>>
position == <<state, entry, high>>
vars     == <<loading, window, cfg, entries, state, entry, high, ticks, feed>>

StrategyState == {"IDLE", "PENDING_BUY", "IN_POSITION", "PENDING_SELL"}
Holding == {"IN_POSITION", "PENDING_SELL"}

(* BuildRules accepts the configuration; a dummy has no rules. *)
Valid(c) ==
    c.type # "dummy" =>
        /\ c.momentum # {} /\ c.stop > 0
        /\ c.type = "profit" => c.target > 0
        /\ c.type = "trailing" => c.activation > 0 /\ c.trail > 0
        /\ \A m \in c.momentum : m.lookback < c.window

(* Strategy_Create; warm-up follows for a strategy that has a history. *)
Init ==
    /\ cfg \in {c \in Configs : Valid(c)}
    /\ window = IF cfg.type = "dummy" THEN 1 ELSE cfg.window
    /\ loading = (cfg.type # "dummy")
    /\ entries = <<>> /\ ticks = <<>> /\ feed = 0
    /\ state = "IDLE" /\ entry = 0 /\ high = 0
----------------------------------------------------------------------------
(* The rules. *)

(* mutant: a lookback that finds no price counts as met *)
RisesUnknown(es, m) ==
    (Newest(es).price - PriceAgo(es, m.lookback)) * Unit >= m.threshold * PriceAgo(es, m.lookback)

(* MomentumEntryRule::Check. *)
Rises(es, m) ==
    LET past == PriceAgo(es, m.lookback)
    IN  past > 0 /\ (Newest(es).price - past) * Unit >= m.threshold * past

EntryRule(c, es) ==
    /\ c.type # "dummy" /\ Ready(es, window)
    /\ IF c.all THEN \A m \in c.momentum : Rises(es, m) ELSE \E m \in c.momentum : Rises(es, m)

LossCut(c, price, ent) == price * Unit <= ent * (Unit - c.stop)

(* mutant: the phase follows the price and not the peak *)
TrailingRuleUnlatched(c, price, ent, hi) ==
    IF (price - ent) * Unit >= c.activation * ent
    THEN price * Unit <= hi * (Unit - c.trail)
    ELSE LossCut(c, price, ent)

(* TrailingStopExitRule::Check. *)
TrailingRule(c, price, ent, hi) ==
    IF (hi - ent) * Unit >= c.activation * ent
    THEN price * Unit <= hi * (Unit - c.trail)
    ELSE LossCut(c, price, ent)

(* mutant: the profit target alone *)
ProfitRuleTarget(c, price, ent) == price * Unit >= ent * (Unit + c.target)

(* FixedProfitExitRule::Check. *)
ProfitRule(c, price, ent) ==
    LossCut(c, price, ent) \/ price * Unit >= ent * (Unit + c.target)

ExitRule(c, price, ent, hi) ==
    \/ c.type = "trailing" /\ TrailingRule(c, price, ent, hi)
    \/ c.type = "profit" /\ ProfitRule(c, price, ent)

(* GetSignal, by the state it leaves behind. *)
AfterSignal(es, hi) ==
    CASE state = "IDLE" /\ EntryRule(cfg, es) -> "PENDING_BUY"
      [] state = "IN_POSITION" /\ ExitRule(cfg, Newest(es).price, entry, hi) -> "PENDING_SELL"
      [] OTHER -> state
----------------------------------------------------------------------------
Offered(p) == IF p.price > 0 /\ p.ts > feed THEN p.ts ELSE feed

(* The next point of the history is kept, or skipped as a jump; a history   *)
(* out of order or without a price is refused, and the generator is built   *)
(* again later.                                                             *)
LoadPoint(p) ==
    /\ loading /\ Len(ticks) < MaxTicks
    /\ IF p.price = 0 \/ p.ts < Now(entries)
       THEN entries' = <<>> /\ ticks' = <<>> /\ feed' = 0
       ELSE /\ feed' = Offered(p)
            /\ IF Admits(entries, p)
               THEN entries' = Append(entries, p) /\ ticks' = Append(ticks, p)
               ELSE UNCHANGED <<entries, ticks>>
    /\ UNCHANGED <<loading, window, cfg, position>>

(* The last point kept goes through UpdatePrice. *)
FinishLoad ==
    /\ loading /\ loading' = FALSE
    /\ entries' = IF entries = <<>> THEN <<>>
                  ELSE Accepted(SubSeq(entries, 1, Len(entries) - 1), Newest(entries), window)
    /\ UNCHANGED <<window, cfg, position, ticks, feed>>

(* mutant: the peak follows the price down as well *)
PeakLast(p) == IF state \in Holding THEN p.price ELSE high

(* Strategy::UpdatePrice: the peak since entry. *)
Peak(p) == IF state \in Holding /\ p.price > high THEN p.price ELSE high

(* SignalGenerator.GetSignal: UpdatePrice, and GetSignal if it took the tick. *)
Tick(p) ==
    /\ ~loading /\ Len(ticks) < MaxTicks
    /\ feed' = Offered(p)
    /\ \/ /\ Admits(entries, p)
          /\ entries' = Accepted(entries, p, window) /\ ticks' = Append(ticks, p)
          /\ high' = Peak(p)
          /\ state' = AfterSignal(entries', high')
       \/ ~Admits(entries, p) /\ UNCHANGED <<entries, ticks, high, state>>
    /\ UNCHANGED <<loading, window, cfg, entry>>

(* mutant: the peak is left over *)
ResetPositionKeepingPeak ==
    /\ ~loading /\ state' = "IDLE" /\ entry' = 0
    /\ UNCHANGED <<market, window, cfg, high>>

(* SetInPosition(false): the worker found no position it manages. *)
ResetPosition ==
    /\ ~loading /\ state' = "IDLE" /\ entry' = 0 /\ high' = 0
    /\ UNCHANGED <<market, window, cfg>>

(* SetInPosition(true): the worker found a position, entered at e and best  *)
(* at h, while it was searching or buying.                                  *)
SetInPosition(e, h) ==
    /\ ~loading /\ state \in {"IDLE", "PENDING_BUY"}
    /\ state' = "IN_POSITION" /\ entry' = e
    /\ high' \in {e, h, high} /\ \A x \in {e, h, high} : high' >= x
    /\ UNCHANGED <<market, window, cfg>>

(* RetrySignal: the order of the last signal was not placed. *)
RetrySignal ==
    /\ ~loading
    /\ \/ state = "PENDING_BUY" /\ state' = "IDLE"
       \/ state = "PENDING_SELL" /\ state' = "IN_POSITION"
    /\ UNCHANGED <<market, window, cfg, entry, high>>

(* UpdateConfig: the rules are built anew; the window stays as it was made. *)
UpdateConfig(c) ==
    /\ ~loading /\ c # cfg /\ Valid(c)
    /\ cfg' = c
    /\ UNCHANGED <<market, window, position>>

Next ==
    \/ \E p \in Points : LoadPoint(p) \/ Tick(p)
    \/ FinishLoad \/ ResetPosition \/ RetrySignal
    \/ \E e, h \in {p.price : p \in Points} : e > 0 /\ SetInPosition(e, h)
    \/ \E c \in Configs : UpdateConfig(c)

Spec == Init /\ [][Next]_vars
----------------------------------------------------------------------------
(* Type invariant; the entries are in the order std::upper_bound needs, and   *)
(* their prices can be divided by (sliding_window.cpp:126, momentum.cpp:31).   *)
TypeOK ==
    /\ \A i, j \in 1..Len(entries) : i <= j => entries[i].ts <= entries[j].ts
    /\ \A i \in 1..Len(entries) : entries[i].price > 0
    /\ loading \in BOOLEAN /\ window \in Nat /\ cfg \in Config
    /\ entries \in Seq(PricePoint) /\ ticks \in Seq(PricePoint) /\ feed \in Nat
    /\ state \in StrategyState /\ entry \in Nat /\ high \in Nat

(* Dropping entries never changes what a lookback within the window finds:  *)
(* the answer is the one the complete history would give, because entries   *)
(* outlive the window by CUTOFF_TOLERANCE_SECONDS, and a lookback accepts   *)
(* nothing staler than MAX_LOOKBACK_STALENESS (sliding_window.cpp:14-15).   *)
EvictionInvisible ==
    \A ago \in 0..window : PriceAgo(entries, ago) = PriceAgo(ticks, ago)

(* The filter of unrealistic jumps cannot lock the engine on an old price:  *)
(* "to avoid being stuck" (sliding_window.cpp:84), what it believes is   *)
(* never JumpGap behind what it was offered.                                *)
FeedFollowed == feed > 0 => feed - Now(entries) < JumpGap

(* A position never starts with the peak of an earlier one, which would     *)
(* arm its trailing stop at once (strategy.cpp:42-46).                      *)
FreshPeak == state \notin Holding => entry = 0 /\ high = 0

(* A buy is signalled only when prices rose that were really seen: over the  *)
(* complete history, which spans the window, each or one of the lookbacks    *)
(* has a price as old as that, but not staler than allowed (momentum.cpp:30). *)
Rose(m) ==
    LET now == Newest(ticks)
    IN  \E k \in 1..Len(ticks) :
            /\ now.ts - ticks[k].ts \in m.lookback..(m.lookback + Staleness)
            /\ (now.price - ticks[k].price) * Unit >= m.threshold * ticks[k].price
BuyJustified ==
    [][state = "IDLE" /\ state' = "PENDING_BUY" =>
          /\ Now(ticks') - ticks'[1].ts >= window
          /\ IF cfg.all THEN \A m \in cfg.momentum : Rose(m)'
                        ELSE \E m \in cfg.momentum : Rose(m)']_vars

(* "Once the position has ever reached the activation threshold, we stay in *)
(* Phase 2" (trailing_stop.cpp:17-18): from then on a position is signalled *)
(* for sale at the first tick that has lost the trailing percentage on the  *)
(* best price of the position.                                              *)
Trailing(c, ent, hi) == c.type = "trailing" /\ (hi - ent) * Unit >= c.activation * ent
TrailingLatched ==
    [][state = "IN_POSITION" /\ state' \in Holding /\ cfg' = cfg /\ ticks' # ticks
       /\ Trailing(cfg, entry, high) =>
          LET price == Newest(ticks').price
              best  == IF price > high THEN price ELSE high
          IN  state' = "PENDING_SELL" <=> price * Unit <= best * (Unit - cfg.trail)]_vars

(* The stop loss binds in both phases, if the trailing stop starts above it: *)
(* "Common: exit if price drops this far below entry" (types.h:58).          *)
StartsAbove(c) == (Unit + c.activation) * (Unit - c.trail) >= Unit * (Unit - c.stop)
StopLossBinds ==
    [][state = "IN_POSITION" /\ ticks' # ticks /\ cfg.type # "dummy" /\ StartsAbove(cfg)
       /\ LossCut(cfg, Newest(ticks').price, entry) => state' = "PENDING_SELL"]_vars

(* "guaranteeing that all configured lookbacks can be resolved"              *)
(* (sliding_window.hpp:15-16): a window that is ready reaches back as far as *)
(* every lookback the rules ask for.                                         *)
LookbacksCovered ==
    Ready(entries, window) => \A m \in cfg.momentum : entries[1].ts <= Now(entries) - m.lookback
=============================================================================
