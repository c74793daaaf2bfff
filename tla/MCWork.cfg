SPECIFICATION Spec
CONSTANTS
    Unused = Unused
    NTasks = 2
    Agents = {a1, a2}
    Executions = {e1, e2}
    None = None
    RequireHuman = TRUE
    MaxOperations = 6
    MaxFaults = 1
    Ids = {"m1", "m2"}
    Parties = {"s", "r"}
    Sender = "s"
    To <- OneReceiver
    NoMsg = NoMsg
    MaxRetries = 1
    Contents = {"c1", "c2"}
    Nothing = Nothing
    MaxTokens = 3
    Execs = {"x1", "x2"}
    n1 = n1
    n2 = n2
    Nodes <- TwoNodes
    Deps <- SecondAfterFirst
    Dynamic <- SecondNode
    Nobody = Nobody
    EngineOperations = 5
    Subjects = {"s1", "s2"}
    Resources = {"p1", "p2"}
    NoResource = NoResource
    Patterns = {"write", "filesystem.write"}
    Tickets = {"t1"}
    NoTicket = NoTicket
    MaxChanges = 4
    Tools = {"write"}
    Arguments <- PathOrTwo
    Category <- AllFilesystem
    Retryable = {"write"}
    Guarded = {"write"}
    MaxCalls = 1
SYMMETRY Symmetry
CHECK_DEADLOCK FALSE
INVARIANTS
    SuccessIsCurrent AcceptedResultIsKept
    ReportedIsFinal OneDeliveryPerAttempt
    HandedOverAsRequested AtMostOneStart EffectIsApproved
