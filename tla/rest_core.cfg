SPECIFICATION FairSpec
CONSTANTS
    r1 = r1
    r2 = r2
    x = x
    a = a
    b = b
    p = p
    Loop = Loop
    NoOrigin = NoOrigin
    BadUrl = BadUrl
    Faults = TRUE
    Req <- TwoRequesters
    Origin <- ThreeOrigins
    TlsOrigin <- TlsHosts
    SniRefused <- Nobody
    Connector <- Nobody
INVARIANT TypeOK
INVARIANT NoIdleWaiter
INVARIANT QueueMatchesWaiters
INVARIANT RightPeer
PROPERTY ImplementsRequestService
PROPERTY AnsweredUnlessThrown
CHECK_DEADLOCK FALSE
