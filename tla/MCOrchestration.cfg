SPECIFICATION PartsSpec
CONSTANTS
    p1 = p1
    p2 = p2
    NoAgent = NoAgent
    Agents <- NoAgents
    NTasks = 3
    RequireHuman = FALSE
    MaxDispatches = 8
    LastFailing = 2
    MaxCommits = 4
CHECK_DEADLOCK FALSE
INVARIANTS
    DependenciesFirst
PROPERTIES
    EventuallyCompleted
