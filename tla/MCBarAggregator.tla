--------------------------- MODULE MCBarAggregator ---------------------------
(* A small instance of BarAggregator: one symbol, one candle, many minutes.   *)
EXTENDS BarAggregator

CONSTANT pltr

OneSymbol == {pltr}

OnlyUp == {[open |-> 1, high |-> 3, low |-> 1, close |-> 2, volume |-> 1]}
=============================================================================
