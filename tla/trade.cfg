SPECIFICATION Spec
CONSTANTS
    r1 = r1
    r2 = r2
    Req <- TwoCallers
    Stated <- SomeKeys
    Uses <- BuyerAndSeller
    MaxCalls <- ThreeAndOne
    MaxFailures = 1
INVARIANT CarriedOutOnce
INVARIANT ResultsTellTruth
INVARIANT ValuesTellAll
INVARIANT OrderIsFound
PROPERTY ImplementsBrokerCalls
PROPERTY ReadBack
CHECK_DEADLOCK FALSE
