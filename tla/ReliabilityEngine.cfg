SPECIFICATION FairSpec
CONSTANTS
    k1 = k1
    k2 = k2
    NoKey = NoKey
    Keys <- TwoKeys
    MaxAttempts = 2
    MaxPending = 2
    FailureThreshold = 2
    HalfOpenAllowance = 1
    MaxFaults = 2
INVARIANTS
    AckedHasSucceeded
    FilesAgree
PROPERTIES
    UsesTheQueue
    EventuallySettled
