SPECIFICATION Spec
CONSTANTS
    Configs <- SmallConfigs
    Candle <- SmallCandles
    MaxBars = 6
INVARIANT ReadyOnTime
INVARIANT UpdatesEveryBar
INVARIANT MatchesTextbook
CHECK_DEADLOCK FALSE
