------------------------------ MODULE MCPipeline ------------------------------
(* A small instance of Pipeline: candles whose high, low, open and close are  *)
(* found in different bars of a window, and engines that are ready with the   *)
(* second aggregated bar, one for both and one for its slower indicator.      *)
EXTENDS Pipeline

CONSTANTS pltr, spy

TwoSymbols == {pltr, spy}

Up   == [open |-> 1, high |-> 3, low |-> 1, close |-> 2, volume |-> 1]
Down == [open |-> 2, high |-> 2, low |-> 0, close |-> 1, volume |-> 2]

UpAndDown == {Up, Down}

ConfigOf(name, n) == [name |-> name, params |-> [period |-> n]]
Macd(f, s, g) ==
    [name |-> "MACD", params |-> [fast_period |-> f, slow_period |-> s, signal_period |-> g]]

TwoEngines == {<<ConfigOf("ATR", 1), ConfigOf("EMA", 2)>>, <<ConfigOf("EMA", 1), Macd(1, 1, 1)>>}
=============================================================================
