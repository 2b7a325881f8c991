\* Three commands to two channels and two patterns, one message, a table that
\* starts with one bucket; every fault at any point.
SPECIFICATION FairSpec
CONSTANTS
    x = x
    y = y
    Keys = {x, y}
    HashOf <- Hash
    InitialSize = 1
    None = None
    Scripts <- Chosen
    MaxPushes = 1
    MaxPending = 3
INVARIANTS TypeOK CalledOnce OwnReply CleanIsAnswered SafeUse WatchersStarted TablesFind
PROPERTIES LatestHears Answered DisconnectEnds
CHECK_DEADLOCK FALSE
