SPECIFICATION PartsSpec
CONSTANTS
    k1 = k1
    k2 = k2
    h1 = h1
    h2 = h2
    p1 = p1
    NoLease = NoLease
    Keys <- TwoKeys
    Holders <- TwoHolders
    Procs <- OneProc
    TTL = 2
    MaxTime = 4
    Callers = {"c1", "c2", "c3"}
    FailureThreshold = 2
    HalfOpenAllowance = 2
    MaxFailures = 4
    Missing = Missing
    Corrupt = Corrupt
    MaxRevisions = 4
    MaxCorruptions = 2
    Writers = {"cli"}
    Texts = {"doc1", "doc2"}
    Secret = Secret
    Blank = Blank
    Unreadable = Unreadable
    Absent = Absent
    MaxWrites = 5
    Conflicts = {"c1", "c2"}
    NoConflict = NoConflict
    MaxDetections = 3
    MaxBroken = 2
    NTraces = 3
    Sampled = {1}
    MaxTraces = 2
    MaxEvents = 3
    MaxSampledEvents = 2
    NoSpan = NoSpan
    NoTrace = NoTrace
    MaxSpans = 3
    MaxSecond = 1
    Files = {"f1", "f2"}
    Snapshots = {"s1", "s2"}
    Nothing = Nothing
    Partial = Partial
    MaxRevision = 2
    MaxBreaks = 2
CHECK_DEADLOCK FALSE
INVARIANTS
    OneHolder DurableLease RestoresLastSave
    ReplacedIsArchived DecisionStands RetentionSound SnapshotsRestore
PROPERTIES
    EventuallyCloses
