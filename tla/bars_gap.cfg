SPECIFICATION Spec
CONSTANTS
    pltr = pltr
    NoBar = NoBar
    Symbol <- OneSymbol
    Candle <- OnlyUp
    MaxTime = 8
    Need = 3
    Unit = 1
    InOrder = TRUE
    SubscriberThrows = FALSE
INVARIANT KeepsConsolidating
CHECK_DEADLOCK FALSE
