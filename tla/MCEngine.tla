------------------------------ MODULE MCEngine ------------------------------
(* Price points and configurations for the runs of Engine. *)
EXTENDS Engine

(* A move of two percent is believed at once, one of three is not. *)
MCPoints == [ts : 0..5, price : {97, 100, 102}] \cup {[ts |-> 3, price |-> 0]}

Dummy == [type |-> "dummy", window |-> 0, momentum |-> {}, all |-> FALSE,
          stop |-> 0, target |-> 0, activation |-> 0, trail |-> 0]
Momentum(type, secs, lookbacks, all) ==
    [type |-> type, window |-> secs,
     momentum |-> {[lookback |-> l, threshold |-> 2] : l \in lookbacks}, all |-> all,
     stop |-> 3, target |-> 2, activation |-> 2, trail |-> 1]

MCConfigs == {Dummy, Momentum("profit", 2, {1}, TRUE), Momentum("trailing", 2, {0, 1}, FALSE)}

(* The same rules over a longer window, asked for while the engine runs. *)
MCLonger == {Momentum("profit", 2, {1}, TRUE), Momentum("profit", 4, {1, 3}, TRUE)}
=============================================================================
