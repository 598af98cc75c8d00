SPECIFICATION Spec
CONSTANTS
    r1 = r1
    r2 = r2
    x = x
    a = a
    b = b
    p = p
    Loop = Loop
    NoOrigin = NoOrigin
    BadUrl = BadUrl
    Faults = FALSE
    Req <- OneRequester
    Origin <- TwoOrigins
    TlsOrigin <- OneTlsHost
    SniRefused <- Nobody
    Connector <- Nobody
INVARIANT NoErrorOnGoodNetwork
CHECK_DEADLOCK FALSE
