SPECIFICATION FeedFairSpec
CONSTANTS
    pltr = pltr
    spy = spy
    Ticker <- TwoTickers
    Message <- FeedMessage
    Frame <- AnyFrame
    MaxSent = 6
    MaxInbox = 2
    MaxFaults = 1
    MaxBars = 2
    MaxAsked = 2
INVARIANT SubscribesAuthenticated
INVARIANT BarsInOrder
PROPERTY SubscriptionHeard
CHECK_DEADLOCK FALSE
