SPECIFICATION Spec
CONSTANTS
    r1 = r1
    r2 = r2
    x = x
    a = a
    b = b
    p = p
    Loop = Loop
    NoOrigin = NoOrigin
    BadUrl = BadUrl
    Faults = TRUE
    Req <- TwoRequesters
    Origin <- TwoOrigins
    TlsOrigin <- OneTlsHost
    SniRefused <- Nobody
    Connector <- OneConnector
SYMMETRY RequesterSymmetry
INVARIANT QueueMatchesWaiters
INVARIANT NeverStuckConnecting
INVARIANT ConnectsAsAsked
CHECK_DEADLOCK FALSE
