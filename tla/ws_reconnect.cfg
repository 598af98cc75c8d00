SPECIFICATION FairSpec
CONSTANTS
    m1 = m1
    m2 = m2
    frame = frame
    Message <- OneMessage
    Frame <- OneFrame
    MaxSent = 1
    MaxInbox = 1
    MaxFaults = 1
PROPERTY Reconnects
CHECK_DEADLOCK FALSE
