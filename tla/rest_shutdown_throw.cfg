SPECIFICATION FairSpec
CONSTANTS
    r1 = r1
    r2 = r2
    x = x
    a = a
    b = b
    p = p
    Loop = Loop
    NoOrigin = NoOrigin
    BadUrl = BadUrl
    Faults = FALSE
    Req <- OneRequester
    Origin <- ThreeOrigins
    TlsOrigin <- TlsHosts
    SniRefused <- Nobody
    Connector <- Nobody
PROPERTY AllAnswered
CHECK_DEADLOCK FALSE
