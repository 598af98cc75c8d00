SPECIFICATION PipelineSpec
CONSTANTS
    pltr = pltr
    spy = spy
    NoBar = NoBar
    Symbol <- TwoSymbols
    Candle <- UpAndDown
    MaxTime = 6
    Need = 3
    Unit = 3
    InOrder = TRUE
    SubscriberThrows = TRUE
    Configs <- TwoEngines
    MaxBars = 3
INVARIANT BundlesPartition
INVARIANT MinutesInARow
INVARIANT LabelsEvenlySpaced
INVARIANT EngineBarsSummarise
INVARIANT FirstReading
INVARIANT AveragesOfMinutes
CHECK_DEADLOCK FALSE
