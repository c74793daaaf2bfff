SPECIFICATION Spec
CONSTANTS
    m1 = m1
    m2 = m2
    w1 = w1
    w2 = w2
    NoMsg = NoMsg
    Ids <- TwoIds
    Workers <- OneWorker
    MaxAttempts = 2
    MaxPending = 2
    MaxFaults = 2
    Tearing = TRUE
SYMMETRY Symmetry
CHECK_DEADLOCK FALSE
INVARIANT TruncationTolerated
