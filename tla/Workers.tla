------------------------------- MODULE Workers -------------------------------
(***************************************************************************)
(* The workers of several pairs under one orchestrator: refreshStrategies, *)
(* which reads the pairs to trade and starts or updates their workers; the *)
(* goroutines it starts, which initialise an engine for as long as that    *)
(* takes and only then enter the map o.signals; and what the workers share:*)
(* the portfolio, whose count of positions the risk manager asks for       *)
(* (orchestrator.go, signal_handler.go, portfolio.go, risk.go).            *)
(*                                                                         *)
(* What a worker does for its pair is TradingPair's matter; here a cycle   *)
(* is only what concerns the others.  A buy order is either filled at once *)
(* or left to SyncOrders.  Faults:                                         *)
(*   "db"      a statement fails          "panic"  a goroutine panics      *)
(*   "lost"    a write to trading.positions takes effect, its answer is    *)
(*             lost                                                        *)
(*   "config"  an unusable configuration is stored, and replaced           *)
(*   "manual"  the owner of the account buys lots                          *)
(* Bounds: MaxWorkers goroutines at a time; refreshStrategies passes over  *)
(* a pair when there is none left.  MaxFailures statements, lost answers   *)
(* and panics.                                                             *)
(***************************************************************************)
EXTENDS Integers, FiniteSets

CONSTANTS Pairs, MaxWorkers, MaxFailures, Faults,
          MaxOpenPositions

ASSUME WorkersAssumption == Pairs # {} /\ MaxWorkers \in Nat /\ MaxFailures \in Nat /\ MaxOpenPositions \in Nat

VARIABLES
    status,    \* trading.strategy_pairs: status of each pair
    usable,    \* pairs whose stored configuration an engine accepts
    listed,    \* what refreshStrategies has read and not yet dealt with
    signals,   \* o.signals: the goroutine registered under a pair's name
    g,         \* the goroutines, each with its SignalGenerator
    buys,      \* pairs with a buy order that is no position yet
    rows,      \* trading.positions
    positions, \* portfolio.positions, whose size is GetPositionsCount
    failures

registry == <<listed, signals, g>>
holdings == <<buys, rows, positions>>
vars == <<status, usable, listed, signals, g, buys, rows, positions, failures>>

Statuses == {"enabled", "pending_disabled", "disabled"}
Ids  == 1..MaxWorkers
None == 0

(* A goroutine: the step it is at, its pair as it was read, its generator's *)
(* flag, and whether the generator's engine is open.                        *)
Places == {"free", "init", "loop", "retire", "apply", "check", "order", "create", "delete"}
Goroutine == [pc : Places, pair : Pairs, usable : BOOLEAN, term : BOOLEAN, open : BOOLEAN]

Free == [pc |-> "free", pair |-> CHOOSE p \in Pairs : TRUE, usable |-> FALSE, term |-> FALSE, open |-> FALSE]

(* Places within a cycle of processSignal. *)
Cycle == {"retire", "apply", "check", "order", "create", "delete"}

Init ==
    /\ status = [p \in Pairs |-> "enabled"] /\ usable = Pairs
    /\ listed = [p \in {} |-> FALSE]
    /\ signals = [p \in Pairs |-> None]
    /\ g = [i \in Ids |-> Free]
    /\ buys = {} /\ rows = {} /\ positions = {} /\ failures = 0
----------------------------------------------------------------------------
At(i, pc) == g' = [g EXCEPT ![i].pc = pc]
Ends(i)   == g' = [g EXCEPT ![i] = Free]

Fails(fault) == fault \in Faults /\ failures < MaxFailures /\ failures' = failures + 1

(* The management API schedules a pair to be disabled, enables it, or       *)
(* stores another configuration for it.                                     *)
Manage ==
    /\ \E p \in Pairs :
        \/ status[p] = "enabled" /\ status' = [status EXCEPT ![p] = "pending_disabled"] /\ UNCHANGED usable
        \/ status[p] # "enabled" /\ status' = [status EXCEPT ![p] = "enabled"] /\ UNCHANGED usable
        \/ /\ "config" \in Faults /\ status[p] = "enabled"
           /\ usable' = IF p \in usable THEN usable \ {p} ELSE usable \cup {p}
           /\ UNCHANGED status
    /\ UNCHANGED <<registry, holdings, failures>>

(* refreshStrategies: the list is read once, ... *)
LoadStrategies ==
    /\ DOMAIN listed = {}
    /\ listed' = [p \in {q \in Pairs : status[q] # "disabled"} |->
                    [usable |-> p \in usable, term |-> status[p] = "pending_disabled"]]
    /\ UNCHANGED <<status, usable, signals, g, holdings, failures>>

(* mutant: the flag is not taken over *)
UpdatedNever(i, read) == g[i]

(* UpdateConfigFromPair: an unusable configuration leaves the flag alone.   *)
Updated(i, read) == [g[i] EXCEPT !.term = IF read.usable THEN read.term ELSE @]

(* ... and its pairs dealt with one by one: a pair under whose name nobody  *)
(* is registered gets a goroutine, although one may still be initialising.  *)
Orchestrate(p) ==
    /\ p \in DOMAIN listed
    /\ listed' = [q \in DOMAIN listed \ {p} |-> listed[q]]
    /\ \/ /\ signals[p] # None
          /\ g' = [g EXCEPT ![signals[p]] = Updated(signals[p], listed[p])]
       \/ /\ signals[p] = None
          /\ \E i \in Ids :
               /\ g[i].pc = "free" /\ \A j \in Ids : g[j].pc = "free" => i <= j
               /\ g' = [g EXCEPT ![i] = [pc |-> "init", pair |-> p, usable |-> listed[p].usable,
                                         term |-> listed[p].term, open |-> FALSE]]
       \/ /\ signals[p] = None /\ \A i \in Ids : g[i].pc # "free"
          /\ UNCHANGED g
    /\ UNCHANGED <<status, usable, signals, holdings, failures>>
----------------------------------------------------------------------------
(* initSignalHandler: when the engine is ready, the goroutine enters the    *)
(* map, unless somebody has done so in the meantime.                        *)
Register(i) ==
    /\ g[i].pc = "init"
    /\ \/ /\ g[i].usable /\ signals[g[i].pair] = None
          /\ signals' = [signals EXCEPT ![g[i].pair] = i]
          /\ g' = [g EXCEPT ![i].pc = "loop", ![i].usable = FALSE, ![i].open = TRUE] /\ UNCHANGED failures
       \/ /\ ~g[i].usable \/ signals[g[i].pair] # None
          /\ Ends(i) /\ UNCHANGED <<signals, failures>>
       \/ Fails("db") /\ Ends(i) /\ UNCHANGED signals
    /\ UNCHANGED <<status, usable, listed, holdings>>

(* runWorker: a tick looks for the worker's name, not for the worker; a     *)
(* closed engine refuses the price, and the cycle comes to nothing.         *)
Tick(i) ==
    /\ g[i].pc = "loop"
    /\ LET p == g[i].pair IN
        \/ signals[p] = None /\ Ends(i)
        \/ /\ signals[p] # None /\ g[i].open
           /\ \/ p \notin rows \cup buys /\ g[i].term /\ At(i, "retire")   \* SearchingBuyEntry, or Buy
              \/ p \notin rows \cup buys /\ ~g[i].term /\ At(i, "check")   \* Buy
              \/ p \in rows /\ At(i, "delete")                             \* Sell
    /\ UNCHANGED <<status, usable, listed, signals, holdings, failures>>

(* mutant: the engine is not closed *)
ClosedNever(p) == g

(* The engine registered under a name is closed, wherever its goroutine is. *)
Closed(p) == IF signals[p] = None THEN g ELSE [g EXCEPT ![signals[p]].open = FALSE]

(* mutant: the name stays in the map *)
StopNamed(i, end) ==
    /\ UNCHANGED signals
    /\ g' = [Closed(g[i].pair) EXCEPT ![i] = IF end THEN Free ELSE [@ EXCEPT !.pc = "loop"]]

(* stopWorker, called by goroutine i, which ends or goes on with its loop:   *)
(* whoever is registered under the name, i or not, leaves the map.           *)
Stop(i, end) ==
    /\ signals' = [signals EXCEPT ![g[i].pair] = None]
    /\ g' = [Closed(g[i].pair) EXCEPT ![i] = IF end THEN Free ELSE [@ EXCEPT !.pc = "loop"]]

(* The deferred termination check. *)
CheckTermination(i) ==
    /\ g[i].pc = "retire"
    /\ \/ g[i].pair \notin rows /\ At(i, "apply") /\ UNCHANGED failures
       \/ g[i].pair \in rows /\ At(i, "loop") /\ UNCHANGED failures
       \/ Fails("db") /\ At(i, "loop")
    /\ UNCHANGED <<status, usable, listed, signals, holdings>>

ApplyDisable(i) ==
    /\ g[i].pc = "apply"
    /\ \/ /\ status' = [status EXCEPT ![g[i].pair] = IF @ = "pending_disabled" THEN "disabled" ELSE @]
          /\ Stop(i, FALSE) /\ UNCHANGED failures
       \/ Fails("db") /\ At(i, "loop") /\ UNCHANGED <<status, signals>>
    /\ UNCHANGED <<usable, listed, holdings>>

(* mutant: the worker that panicked stays in the map *)
PanicNamed(i) ==
    /\ g[i].pc # "free"
    /\ Fails("panic")
    /\ Ends(i)
    /\ UNCHANGED <<status, usable, listed, signals, holdings>>

(* recover, deferred around the initialisation and the loop alike: the       *)
(* goroutine ends, and its pair's worker is stopped, were it another one.    *)
Panic(i) ==
    /\ g[i].pc # "free"
    /\ Fails("panic")
    /\ Stop(i, TRUE)
    /\ UNCHANGED <<status, usable, listed, holdings>>
----------------------------------------------------------------------------
(* EvaluateEntry as far as it looks at the other pairs; 0 is no limit. *)
EntryAllowed == MaxOpenPositions = 0 \/ Cardinality(positions) < MaxOpenPositions

(* The last check before the order. *)
CheckEntry(i) ==
    /\ g[i].pc = "check"
    /\ At(i, IF EntryAllowed THEN "order" ELSE "loop")
    /\ UNCHANGED <<status, usable, listed, signals, holdings, failures>>

PlaceBuy(i) ==
    /\ g[i].pc = "order"
    /\ \/ buys' = buys \cup {g[i].pair} /\ At(i, "loop")     \* filled later
       \/ UNCHANGED buys /\ At(i, "create")                   \* filled at once
       \/ UNCHANGED buys /\ At(i, "loop")                     \* refused
    /\ UNCHANGED <<status, usable, listed, signals, rows, positions, failures>>

(* CreatePosition and DeletePosition hold the portfolio's lock: the row     *)
(* first, then the set.  A position that exists is refused.                 *)
Created(p) ==
    IF p \in rows THEN UNCHANGED <<rows, positions, failures>>
    ELSE /\ rows' = rows \cup {p}
         /\ \/ positions' = positions \cup {p} /\ UNCHANGED failures
            \/ Fails("lost") /\ UNCHANGED positions

Deleted(p) ==
    /\ rows' = rows \ {p}
    /\ \/ positions' = positions \ {p} /\ UNCHANGED failures
       \/ Fails("lost") /\ UNCHANGED positions

CreatePosition(i) ==
    /\ g[i].pc = "create" /\ At(i, "loop")
    /\ \/ Created(g[i].pair)
       \/ Fails("db") /\ UNCHANGED <<rows, positions>>
    /\ UNCHANGED <<status, usable, listed, signals, buys>>

DeletePosition(i) ==
    /\ g[i].pc = "delete" /\ At(i, "loop")
    /\ \/ Deleted(g[i].pair)
       \/ Fails("db") /\ UNCHANGED <<rows, positions>>
    /\ UNCHANGED <<status, usable, listed, signals, buys>>

(* SyncOrders: the order was filled, or was canceled. *)
SyncOrder(p) ==
    /\ p \in buys /\ buys' = buys \ {p}
    /\ Created(p) \/ UNCHANGED <<rows, positions, failures>>
    /\ UNCHANGED <<status, usable, registry>>

(* SyncPositions: the lots of a position are gone, sold by its stop order,   *)
(* or lots bought by the account's owner are adopted.                       *)
SyncPosition(p) ==
    /\ \/ p \in rows /\ Deleted(p)
       \/ "manual" \in Faults /\ p \notin rows \cup buys /\ status[p] # "disabled" /\ Created(p)
    /\ UNCHANGED <<status, usable, registry, buys>>

(* LoadState, before and after SyncPositions and SyncStopOrders. *)
LoadState ==
    /\ positions' = rows
    /\ UNCHANGED <<status, usable, registry, buys, rows, failures>>
----------------------------------------------------------------------------
Worker(i) ==
    \/ Register(i) \/ Tick(i) \/ CheckTermination(i) \/ ApplyDisable(i)
    \/ CheckEntry(i) \/ PlaceBuy(i) \/ CreatePosition(i) \/ DeletePosition(i)

Refresh == LoadStrategies \/ \E p \in Pairs : Orchestrate(p)

Next ==
    \/ Manage \/ Refresh \/ LoadState
    \/ \E i \in Ids : Worker(i) \/ Panic(i)
    \/ \E p \in Pairs : SyncOrder(p) \/ SyncPosition(p)

Spec == Init /\ [][Next]_vars

(* The tickers of the refresh, of the tasks and of every worker go on. *)
Fairness ==
    /\ WF_vars(Refresh) /\ WF_vars(LoadState)
    /\ \A i \in Ids : WF_vars(Worker(i))
    /\ \A p \in Pairs : WF_vars(SyncOrder(p))

FairSpec == Spec /\ Fairness
----------------------------------------------------------------------------
(* Type invariant; what the map holds are goroutines of its own pairs. *)
TypeOK ==
    /\ status \in [Pairs -> Statuses]
    /\ usable \subseteq Pairs
    /\ DOMAIN listed \subseteq Pairs
    /\ \A p \in DOMAIN listed : listed[p] \in [usable : BOOLEAN, term : BOOLEAN]
    /\ signals \in [Pairs -> Ids \cup {None}]
    /\ g \in [Ids -> Goroutine]
    /\ \A p \in Pairs : signals[p] # None =>
          g[signals[p]].pair = p /\ g[signals[p]].pc \in Cycle \cup {"loop"}
    /\ buys \subseteq Pairs /\ rows \subseteq Pairs /\ positions \subseteq Pairs
    /\ failures \in Nat

(* A pair is traded by one worker, the one that is registered under its      *)
(* name, although slow initialisers of one pair overlap and a stopped worker *)
(* finds its successor under its own name (orchestrator.go:252,              *)
(* signal_handler.go:87-93): as long as no goroutine panics, which is the    *)
(* premise of its theorem.                                                   *)
OneTrader ==
    \A i \in Ids : g[i].open \/ g[i].pc \in Cycle => g[i].open /\ signals[g[i].pair] = i

(* Whatever panics, a pair has one engine that takes prices, and it is the   *)
(* one the refresh finds under its name and updates; so a worker that was    *)
(* stopped from outside begins no other cycle, though it may end the one it  *)
(* is in beside its successor (orchestrator.go:168-178, 252, 287).           *)
OneEngine == \A i \in Ids : g[i].open => signals[g[i].pair] = i

(* "If scheduled to disable and no position is active, finalize" (signal_    *)
(* handler.go:114): a pair with a usable configuration does not stay         *)
(* scheduled without a position.                                             *)
DisableCompletes ==
    \A p \in Pairs : []<>(status[p] # "pending_disabled" \/ p \in rows \/ p \notin usable)

(* "So the reloader can restart it" (orchestrator.go:205): a pair that is to *)
(* be traded gets a worker again, however its last one came to an end.       *)
WorkerRestarts ==
    \A p \in Pairs : []<>(\/ status[p] = "disabled" \/ p \notin usable
                          \/ \E i \in Ids : signals[p] = i /\ g[i].open)

(* "MaxOpenPositions defines the maximum number of simultaneous positions    *)
(* allowed" (config.go:90).                                                  *)
PositionsLimited == MaxOpenPositions > 0 => Cardinality(rows) <= MaxOpenPositions
=============================================================================
