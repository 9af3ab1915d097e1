------------------------------ MODULE Lifecycle ------------------------------
(***************************************************************************)
(* What the trading loop promises of one pair, seen from the exchange: "one *)
(* active position per exchange/instrument" (ARCHITECTURE.md), which goes   *)
(* round flat, buying, holding, selling, with at most one stop order, and   *)
(* that only on lots that are held and not offered otherwise.  An order may *)
(* fill at once, and may be canceled by the exchange.                       *)
(***************************************************************************)

VARIABLES
    stage,      \* of the one position
    protected   \* a stop order is open

vars == <<stage, protected>>

Init == stage = "flat" /\ protected = FALSE

Moves(from, to) == stage = from /\ stage' \in to

Buy     == Moves("flat", {"buying", "holding"})
BuyEnds == Moves("buying", {"holding", "flat"})

(* Lots are offered in the market only when no stop order is left on them.  *)
Sell     == Moves("holding", {"selling", "flat"}) /\ ~protected
SellEnds == Moves("selling", {"flat", "holding"})

PlaceStop  == stage = "holding" /\ ~protected /\ UNCHANGED stage
CancelStop == protected /\ UNCHANGED stage
StopFills  == protected /\ Moves("holding", {"flat"})

(* A trade leaves the stop orders alone.                                    *)
Next == \/ UNCHANGED protected /\ (Buy \/ BuyEnds \/ Sell \/ SellEnds)
        \/ protected' = ~protected /\ (PlaceStop \/ CancelStop \/ StopFills)

Spec == Init /\ [][Next]_vars
=============================================================================
