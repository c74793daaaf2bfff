SPECIFICATION Spec
CONSTANTS
    Unused = Unused
    Agents = {"a1", "a2"}
    Unknown = Unknown
    MaxBeats = 2
    MaxOperations = 3
    Devices = {"d1", "d2"}
    SyncIds = {"x", "y"}
    Owner <- OneOwner
    Items = {"i", "j"}
    Default = "default"
    Nothing = Nothing
    MaxQueue = 1
    MaxFaults = 1
    Endpoints = {"e"}
    Requests = {"r", "s"}
    Callers = {"c1", "c2"}
    Credentials = {"k"}
    First = "k"
    NoCall = NoCall
    MaxRetries = 1
    MaxLives = 2
CHECK_DEADLOCK FALSE
INVARIANTS
    ProbationHolds
    AppliedIsWhole OneLockHolder BoundedEffects
PROPERTIES
    EventuallySynced
