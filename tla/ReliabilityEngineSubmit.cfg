SPECIFICATION Spec
CONSTANTS
    k1 = k1
    k2 = k2
    NoKey = NoKey
    Keys <- OneKey
    MaxAttempts = 2
    MaxPending = 2
    FailureThreshold = 2
    HalfOpenAllowance = 1
    MaxFaults = 1
INVARIANT SubmittedIsEnqueued
