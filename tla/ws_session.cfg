SPECIFICATION FairSpec
CONSTANTS
    m1 = m1
    m2 = m2
    frame = frame
    Message <- TwoMessages
    Frame <- OneFrame
    MaxSent = 3
    MaxInbox = 1
    MaxFaults = 2
INVARIANT WriteInProgress
INVARIANT SentInOrder
INVARIANT KeepsTrying
INVARIANT Listening
INVARIANT FewAttempts
PROPERTY Delivered
PROPERTY StopsForGood
PROPERTY StopEndsTrying
CHECK_DEADLOCK FALSE
