----------------------------- MODULE Reconciler -----------------------------
(***************************************************************************)
(* The three periodic tasks that align the database with the exchange      *)
(* (components/reconciliation/reconciliation.go), composed with the pair   *)
(* they work on: "orders" every 15 s, "positions" every minute and "stops" *)
(* every five minutes (cmd/server/setup.go).  A task never overlaps with   *)
(* itself, but with the other two and with the worker; each keeps what it  *)
(* read in locals while they go on.                                        *)
(***************************************************************************)
EXTENDS TradingPair

CONSTANT Tasks   \* the tasks that run

ASSUME TasksAssumption == Tasks \subseteq {"orders", "positions", "stops"}

VARIABLES
    so,   \* SyncOrders: rows still to be fetched, the filled row, a balance
    sp,   \* SyncPositions: the position and the wallet as read
    ss    \* SyncStopOrders: the position and wallet as read, rows, protection

tasks == <<so, sp, ss>>
vars == <<pairVars, tasks>>

OrdersIdle    == [pc |-> "idle", todo |-> {}, row |-> 0, bal |-> 0]
PositionsIdle == [pc |-> "idle", pos |-> NoPosition, wallet |-> 0]
StopsIdle     == [pc |-> "idle", pos |-> NoPosition, wallet |-> 0, todo |-> {}, x |-> 0,
                  protected |-> FALSE]

SyncInit == Init /\ so = OrdersIdle /\ sp = PositionsIdle /\ ss = StopsIdle
----------------------------------------------------------------------------
(* mutant: rows that are still 'new' are skipped *)
OrdersStartOpen ==
    /\ "orders" \in Tasks /\ so.pc = "idle"
    /\ LET open == Select(rows, {"open"}, {"market"}, Sides) IN
        open # {} /\ so' = [OrdersIdle EXCEPT !.pc = "fetch", !.todo = open]
    /\ UNCHANGED <<pairVars, sp, ss>>

(* SyncOrders.  Rows without an exchange id are skipped.                    *)
OrdersStart ==
    /\ "orders" \in Tasks /\ so.pc = "idle"
    /\ LET open == {r \in Select(rows, {"new", "open"}, {"market"}, Sides) : rows[r].xid # 0} IN
        open # {} /\ so' = [OrdersIdle EXCEPT !.pc = "fetch", !.todo = open]
    /\ UNCHANGED <<pairVars, sp, ss>>

(* The next row, newest first; the loop ends the task. *)
OrdersNext(todo) == so' = IF todo = {} THEN OrdersIdle
                          ELSE [OrdersIdle EXCEPT !.pc = "fetch", !.todo = todo]

(* mutant: any buy order goes on to a position *)
OrdersFetchUnfilled ==
    /\ so.pc = "fetch"
    /\ LET r == Max(so.todo)
           x == rows[r].xid
       IN  /\ xord[x].status # "transit"
           /\ rows' = Upserted(rows, x, xord[x], xord[x].status)
           /\ IF xord[x].side = "buy"
              THEN so' = [so EXCEPT !.pc = "create", !.todo = @ \ {r}, !.row = r]
              ELSE OrdersNext(so.todo \ {r})
    /\ UNCHANGED <<strat, w, control, pos, wallet, exchange, sp, ss>>

(* GetOrder: the row takes the exchange's status; a filled buy goes on.     *)
OrdersFetch ==
    /\ so.pc = "fetch"
    /\ LET r == Max(so.todo)
           x == rows[r].xid
       IN  \/ /\ xord[x].status # "transit"
              /\ rows' = Upserted(rows, x, xord[x], xord[x].status)
              /\ IF xord[x].side = "buy" /\ xord[x].status = "closed"
                 THEN so' = [so EXCEPT !.pc = "create", !.todo = @ \ {r}, !.row = r]
                 ELSE OrdersNext(so.todo \ {r})
           \/ Fails({"gateway", "db"}) /\ OrdersNext(so.todo \ {r}) /\ UNCHANGED rows
    /\ UNCHANGED <<strat, w, control, pos, wallet, exchange, sp, ss>>

OrdersCreate ==
    /\ so.pc = "create"
    /\ \/ /\ CreateAllowed(pos, so.row)
          /\ pos' = CreatedPosition(so.row, rows[so.row].qty)
          /\ so' = [so EXCEPT !.pc = "balance"]
       \/ /\ ~CreateAllowed(pos, so.row) \/ Fails({"db"})
          /\ OrdersNext(so.todo) /\ UNCHANGED pos
    /\ UNCHANGED <<strat, w, control, rows, wallet, exchange, sp, ss>>

OrdersBalance ==
    /\ so.pc = "balance"
    /\ \/ /\ wallet' = hold
          /\ IF hold = 0 THEN OrdersNext(so.todo)
             ELSE so' = [so EXCEPT !.pc = "quantity", !.bal = hold]
       \/ Fails({"gateway", "db"}) /\ OrdersNext(so.todo) /\ UNCHANGED wallet
    /\ UNCHANGED <<strat, w, control, rows, pos, exchange, sp, ss>>

OrdersQuantity ==
    /\ so.pc = "quantity"
    /\ LET u == QuantityOnly(so.bal) IN
        \/ UpdateAllowed(pos, u) /\ pos' = UpdatedPosition(pos, u)
        \/ (~UpdateAllowed(pos, u) \/ Fails({"db"})) /\ UNCHANGED pos
    /\ OrdersNext(so.todo)
    /\ UNCHANGED <<strat, w, control, rows, wallet, exchange, sp, ss>>

SyncOrders == OrdersStart \/ OrdersFetch \/ OrdersCreate \/ OrdersBalance \/ OrdersQuantity
----------------------------------------------------------------------------
(* SyncPositions.  The task refreshes the wallet first; it goes on with the *)
(* stored one when that fails.                                              *)
PositionsStart ==
    /\ "positions" \in Tasks /\ sp.pc = "idle"
    /\ wallet' = hold \/ (Fails({"gateway", "db"}) /\ UNCHANGED wallet)
    /\ sp' = [PositionsIdle EXCEPT !.pc = "read"]
    /\ UNCHANGED <<strat, w, control, rows, pos, exchange, so, ss>>

PositionsRead ==
    /\ sp.pc = "read"
    /\ \/ sp' = [sp EXCEPT !.pc = "wallet", !.pos = pos]
       \/ Fails({"db"}) /\ sp' = PositionsIdle
    /\ UNCHANGED <<pairVars, so, ss>>

(* The stored balance is read after the tickers, and compared.              *)
PositionsWallet ==
    /\ sp.pc = "wallet"
    /\ \/ sp' = IF sp.pos.st # "none"
                THEN IF wallet = 0 THEN [sp EXCEPT !.pc = "delete"]
                     ELSE IF wallet # sp.pos.qty THEN [sp EXCEPT !.pc = "adjust", !.wallet = wallet]
                     ELSE PositionsIdle
                ELSE IF wallet > 0 THEN [sp EXCEPT !.pc = "pairs", !.wallet = wallet]
                     ELSE PositionsIdle
       \/ Fails({"db"}) /\ sp' = PositionsIdle
    /\ UNCHANGED <<pairVars, so, ss>>

PositionsDelete ==
    /\ sp.pc = "delete"
    /\ pos' = NoPosition \/ (Fails({"db"}) /\ UNCHANGED pos)
    /\ sp' = PositionsIdle
    /\ UNCHANGED <<strat, w, control, rows, wallet, exchange, so, ss>>

PositionsAdjust ==
    /\ sp.pc = "adjust"
    /\ LET u == [sp.pos EXCEPT !.qty = sp.wallet, !.sl = FALSE] IN
        \/ UpdateAllowed(pos, u) /\ pos' = UpdatedPosition(pos, u)
        \/ (~UpdateAllowed(pos, u) \/ Fails({"db"})) /\ UNCHANGED pos
    /\ sp' = PositionsIdle
    /\ UNCHANGED <<strat, w, control, rows, wallet, exchange, so, ss>>

(* A balance without a position: only the pairs that are enabled or being   *)
(* disabled are looked at, ...                                              *)
PositionsPairs ==
    /\ sp.pc = "pairs"
    /\ \/ sp' = IF pair # "disabled" THEN [sp EXCEPT !.pc = "orders"] ELSE PositionsIdle
       \/ Fails({"gateway", "db"}) /\ sp' = PositionsIdle   \* also: no ticker within 500 ms
    /\ UNCHANGED <<pairVars, so, ss>>

(* ... and nothing is adopted while a buy is under way. *)
PositionsOrders ==
    /\ sp.pc = "orders"
    /\ \/ sp' = IF Select(rows, {"new", "open"}, Kinds, {"buy"}) = {}
                THEN [sp EXCEPT !.pc = "adopt"] ELSE PositionsIdle
       \/ Fails({"db"}) /\ sp' = PositionsIdle
    /\ UNCHANGED <<pairVars, so, ss>>

PositionsAdopt ==
    /\ sp.pc = "adopt"
    /\ \/ CreateAllowed(pos, 0) /\ pos' = CreatedPosition(0, sp.wallet)
       \/ (~CreateAllowed(pos, 0) \/ Fails({"db"})) /\ UNCHANGED pos
    /\ sp' = PositionsIdle
    /\ UNCHANGED <<strat, w, control, rows, wallet, exchange, so, ss>>

SyncPositions == PositionsStart \/ PositionsRead \/ PositionsWallet \/ PositionsDelete
                 \/ PositionsAdjust \/ PositionsPairs \/ PositionsOrders \/ PositionsAdopt
----------------------------------------------------------------------------
(* SyncStopOrders. *)
StopsStart ==
    /\ "stops" \in Tasks /\ ss.pc = "idle"
    /\ wallet' = hold \/ (Fails({"gateway", "db"}) /\ UNCHANGED wallet)
    /\ ss' = [StopsIdle EXCEPT !.pc = "read"]
    /\ UNCHANGED <<strat, w, control, rows, pos, exchange, so, sp>>

StopsRead ==
    /\ ss.pc = "read"
    /\ \/ ss' = [ss EXCEPT !.pc = "wallet", !.pos = pos]
       \/ Fails({"db"}) /\ ss' = StopsIdle
    /\ UNCHANGED <<pairVars, so, sp>>

StopsWallet ==
    /\ ss.pc = "wallet"
    /\ \/ ss' = [ss EXCEPT !.pc = "rows", !.wallet = wallet]
       \/ Fails({"db"}) /\ ss' = StopsIdle
    /\ UNCHANGED <<pairVars, so, sp>>

StopsRows ==
    /\ ss.pc = "rows"
    /\ \/ ss' = [ss EXCEPT !.pc = "next",
                   !.todo = {r \in Select(rows, {"new", "open"}, {"stop"}, {"sell"}) : rows[r].xid # 0}]
       \/ Fails({"db"}) /\ ss' = StopsIdle
    /\ UNCHANGED <<pairVars, so, sp>>

(* GetOrder of the next stop order: a live one protects the position. *)
StopsFetch ==
    /\ ss.pc = "next" /\ ss.todo # {}
    /\ LET r == Max(ss.todo)
           x == rows[r].xid
       IN  \/ /\ rows' = Upserted(rows, x, xord[x], xord[x].status)
              /\ ss' = IF xord[x].status # "open" THEN [ss EXCEPT !.todo = @ \ {r}]
                       ELSE [ss EXCEPT !.protected = TRUE, !.x = x,
                               !.pc = IF ss.pos.st = "none" THEN "cancel" ELSE "latest"]
           \/ /\ Fails({"gateway", "db"})
              /\ ss' = [ss EXCEPT !.todo = @ \ {r}] /\ UNCHANGED rows
    /\ UNCHANGED <<strat, w, control, pos, wallet, exchange, so, sp>>

(* A stop order older than the newest row of the pair belongs to an earlier position. *)
StopsLatest ==
    /\ ss.pc = "latest"
    /\ LET r == Max(ss.todo) IN
        ss' \in {IF r # Len(rows) THEN [ss EXCEPT !.pc = "cancel"]
                 ELSE [ss EXCEPT !.pc = "next", !.todo = @ \ {r}, !.x = 0]}
                \cup (IF Fails({"db"}) THEN {[ss EXCEPT !.pc = "next", !.todo = @ \ {r}, !.x = 0]} ELSE {})
    /\ UNCHANGED <<pairVars, so, sp>>

(* Whatever comes of the cancellation, the position is no longer protected. *)
StopsDropped == ss' = [ss EXCEPT !.pc = "next", !.todo = @ \ {Max(ss.todo)}, !.x = 0, !.protected = FALSE]

StopsCancel ==
    /\ ss.pc = "cancel"
    /\ \/ /\ IF xord[ss.x].status = "open" THEN Settled(ss.x, "canceled") ELSE UNCHANGED xord
          /\ ss' = [ss EXCEPT !.pc = "store"] \/ (Fails({"lost"}) /\ StopsDropped)
       \/ (xord[ss.x].status # "open" \/ Fails({"gateway"})) /\ StopsDropped /\ UNCHANGED xord
    /\ UNCHANGED <<strat, w, control, database, hold, so, sp>>

StopsStore ==
    /\ ss.pc = "store"
    /\ \/ rows' = Upserted(rows, ss.x, xord[ss.x], xord[ss.x].status)
       \/ Fails({"gateway", "db"}) /\ UNCHANGED rows
    /\ StopsDropped
    /\ UNCHANGED <<strat, w, control, pos, wallet, exchange, so, sp>>

(* mutant: the flag is not reset *)
StopsRearmFlagged ==
    /\ ss.pc = "next" /\ ss.todo = {}
    /\ LET u == [ss.pos EXCEPT !.qty = ss.wallet]
           unprotected == ss.pos.st = "known" /\ ss.pos.sl /\ ~ss.protected /\ ss.wallet > 0
       IN  pos' = IF unprotected /\ UpdateAllowed(pos, u) THEN UpdatedPosition(pos, u) ELSE pos
    /\ ss' = StopsIdle
    /\ UNCHANGED <<strat, w, control, rows, wallet, exchange, so, sp>>

(* A position that counts on a stop order nobody has is armed again. *)
StopsRearm ==
    /\ ss.pc = "next" /\ ss.todo = {}
    /\ LET u == [ss.pos EXCEPT !.qty = ss.wallet, !.sl = FALSE]
           unprotected == ss.pos.st = "known" /\ ss.pos.sl /\ ~ss.protected /\ ss.wallet > 0
       IN  \/ unprotected /\ UpdateAllowed(pos, u) /\ pos' = UpdatedPosition(pos, u)
           \/ (~unprotected \/ ~UpdateAllowed(pos, u) \/ Fails({"db"})) /\ UNCHANGED pos
    /\ ss' = StopsIdle
    /\ UNCHANGED <<strat, w, control, rows, wallet, exchange, so, sp>>

SyncStopOrders == StopsStart \/ StopsRead \/ StopsWallet \/ StopsRows \/ StopsFetch \/ StopsLatest
                  \/ StopsCancel \/ StopsStore \/ StopsRearm
----------------------------------------------------------------------------
(* A restart ends the tasks with the worker. *)
Crash ==
    /\ CrashWorker
    /\ so' = OrdersIdle /\ sp' = PositionsIdle /\ ss' = StopsIdle

Pair == (WorkerStep \/ Exchange \/ StartWorker \/ UpdateWorker \/ Manage) /\ UNCHANGED tasks

SyncNext == Pair \/ SyncOrders \/ SyncPositions \/ SyncStopOrders \/ Crash

SyncSpec == SyncInit /\ [][SyncNext]_vars

(* The tickers of the worker and of the tasks go on, the exchange fills a    *)
(* market order sooner or later, and refreshStrategies comes by.             *)
Fairness ==
    /\ WF_vars(WorkerStep /\ UNCHANGED tasks)
    /\ WF_vars(StartWorker /\ UNCHANGED tasks)
    /\ WF_vars(UpdateWorker /\ UNCHANGED tasks)
    /\ WF_vars(SyncOrders) /\ WF_vars(SyncPositions) /\ WF_vars(SyncStopOrders)
    /\ \A x \in 1..MaxOrders :
         WF_vars(x \in DOMAIN xord /\ Fill(x) /\ UNCHANGED <<strat, w, control, database, tasks>>)

FairSpec == SyncSpec /\ Fairness
----------------------------------------------------------------------------
(* The stage of the one position the exchange sees, and whether it is       *)
(* protected; more than one lot is no stage.                                *)
Stage ==
    LET buys == Live("buy", "market")
    IN  IF buys # {} THEN IF hold = 0 /\ Cardinality(buys) = 1 THEN "buying" ELSE "two lots"
        ELSE IF hold > 1 THEN "two lots"
        ELSE IF Live("sell", "market") # {} THEN "selling"
        ELSE IF hold = 1 THEN "holding" ELSE "flat"

L == INSTANCE Lifecycle WITH stage <- Stage, protected <- (Live("sell", "stop") # {})

(* The worker and the three tasks together keep the promise of Lifecycle,    *)
(* however they interleave and wherever the bot restarts: one position, and  *)
(* its lots offered once (signal_handler.go, reconciliation.go).             *)
OnePosition == L!Spec

(* Type invariant of the tasks, with the one of the pair. *)
SyncTypeOK ==
    /\ TypeOK
    /\ so \in [pc : {"idle", "fetch", "create", "balance", "quantity"},
               todo : SUBSET Nat, row : Nat, bal : Nat]
    /\ sp \in [pc : {"idle", "read", "wallet", "delete", "adjust", "pairs", "orders", "adopt"},
               pos : Position, wallet : Nat]
    /\ ss \in [pc : {"idle", "read", "wallet", "rows", "next", "latest", "cancel", "store"},
               pos : Position, wallet : Nat, todo : SUBSET Nat, x : Nat, protected : BOOLEAN]

(* A row that has reached a final status keeps it, although the worker and   *)
(* SyncOrders store what they read from the exchange at different times      *)
(* (service.go updateOrderResponse).                                         *)
RowFinal ==
    [][\A r \in DOMAIN rows : rows[r].status \in {"closed", "canceled", "rejected"} =>
            rows'[r].status = rows[r].status]_vars

(* Of market orders also beside SyncStopOrders. The row of a stop order    *)
(* that triggers between the worker's look at the open orders and its      *)
(* write goes from closed back to open, until SyncStopOrders reads the     *)
(* order again (service.go updateOrderResponse).                           *)
MarketRowFinal ==
    [][\A r \in DOMAIN rows :
            rows[r].kind = "market" /\ rows[r].status \in {"closed", "canceled", "rejected"} =>
                rows'[r].status = rows[r].status]_vars

(* SyncPositions "aligns database positions with exchange balances"          *)
(* (reconciliation.go:268): a position is removed only when its lots are gone. *)
PositionKept == [][pos.st # "none" /\ pos'.st = "none" => hold = 0]_vars

(* A buy never hangs: PENDING_BUY is left again, whether the order was       *)
(* filled, lost on the way, or canceled.  When a part of it was filled       *)
(* before, the handler waits for its lot to be taken into a position, which  *)
(* is up to SyncPositions (signal_handler.go:393-396).                       *)
BuyResolves == strat = "PENDING_BUY" ~> strat # "PENDING_BUY"

(* SyncStopOrders "validates stop loss protection for active positions": a   *)
(* position whose stop order is gone does not stay without one, as long as   *)
(* the exchange takes orders and the price does not keep rising, which lets  *)
(* the worker write its stale stop loss flag back.                           *)
ProtectionRestored ==
    []<>(\/ pos.st # "known" \/ hold = 0 \/ Live("sell", "stop") # {}
         \/ Len(xord) = MaxOrders \/ w.pc = "raise")
=============================================================================
