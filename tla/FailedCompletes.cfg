SPECIFICATION Spec
CONSTANTS
    None = "none"
    Done = "done"
    Failed = "failed"
    ReadingTask = "T3"
    CountFree = {}
    SameParamLimit = 3
    Initial = "T3"
    Tasks <- LateTasks
    Gated <- LateGated
    Immediate = {}
    NextOk <- LateNextOk
    NextFail <- LateNextFail
    Branches <- LateBranches
    LitGate <- NoScope
    Environments <- FailEnvironments
    Unlimited = {}
INVARIANTS
    FailedNeverCompletes
CHECK_DEADLOCK FALSE
