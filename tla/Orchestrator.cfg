SPECIFICATION Spec
CONSTANTS
    NoAgent = NoAgent
    Agents <- NoAgents
    NTasks = 2
    RequireHuman = TRUE
    MaxDispatches = 3
    LastFailing = 0
INVARIANTS
    DependenciesFirst
    ApprovalFirst
    StoppedIsIdle
    RecordSound
PROPERTIES
    SuccessIsFinal
