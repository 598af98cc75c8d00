SPECIFICATION Spec
CONSTANTS
    r1 = r1
    r2 = r2
    x = x
    a = a
    b = b
    p = p
    Loop = Loop
    NoOrigin = NoOrigin
    BadUrl = BadUrl
    Faults = FALSE
    Req <- OneRequester
    Origin <- TwoOrigins
    TlsOrigin <- OneTlsHost
    SniRefused <- OneTlsHost
    Connector <- Nobody
INVARIANT NoRequesterLost
CHECK_DEADLOCK FALSE
