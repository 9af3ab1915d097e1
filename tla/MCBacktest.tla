----------------------------- MODULE MCBacktest -----------------------------
(* The two kinds of strategy for the run of Backtest. *)
EXTENDS Backtest

Rising(type) ==
    [type |-> type, window |-> 4, momentum |-> {[lookback |-> 2, threshold |-> 60]}, all |-> TRUE,
     stop |-> 200, target |-> 150, activation |-> 100, trail |-> 50]
MCConfigs == {Rising("profit"), Rising("trailing")}

(* Rows one or three intervals apart, one that is not a whole number of them, *)
(* one out of order, and one without a price.                                 *)
MCSteps == [after : {2}, price : {0, 30, 80, 100}] \cup [after : {6}, price : {30, 80}]
           \cup {[after |-> 3, price |-> 100], [after |-> -2, price |-> 80]}
=============================================================================
