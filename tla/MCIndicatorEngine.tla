-------------------------- MODULE MCIndicatorEngine --------------------------
(* Small instances of IndicatorEngine: short periods in both orders, alone    *)
(* and together, two configurations of one name, and one that throws.         *)
EXTENDS IndicatorEngine

ConfigOf(name, n) == [name |-> name, params |-> [period |-> n]]
Macd(f, s, g) ==
    [name |-> "MACD", params |-> [fast_period |-> f, slow_period |-> s, signal_period |-> g]]

SmallConfigs ==
    {<<ConfigOf("EMA", 3), ConfigOf("ATR", 2), Macd(1, 2, 2)>>,
     <<Macd(3, 2, 1), ConfigOf("EMA", 1)>>,
     <<ConfigOf("ATR", 3), ConfigOf("EMA", 2), ConfigOf("EMA", 5)>>,
     <<ConfigOf("EMA", 2), ConfigOf("RSI", 2)>>,
     <<>>}

SmallCandles ==
    {[high |-> 4, low |-> 1, close |-> 2],
     [high |-> 9, low |-> 6, close |-> 9],
     [high |-> 3, low |-> 3, close |-> 3]}
=============================================================================
