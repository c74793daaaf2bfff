SPECIFICATION Spec
CONSTANTS
    NTasks = 1
    Agents = {"a1"}
    Executions = {"e1"}
    None = None
    RequireHuman = TRUE
    MaxOperations = 4
    MaxFaults = 0
CHECK_DEADLOCK FALSE
INVARIANTS
    GatedNeedsHuman
