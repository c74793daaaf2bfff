SPECIFICATION Spec
CONSTANTS
    m1 = m1
    m2 = m2
    w1 = w1
    NoMsg = NoMsg
    Torn = Torn
    Ids <- TwoIds
    Workers <- OneWorker
    MaxAttempts = 2
    MaxPending = 1
    MaxFaults = 2
    MaxLines = 4
    Tearing = TRUE
CHECK_DEADLOCK FALSE
PROPERTY ImplementsDurableQueue
