SPECIFICATION UnattendedSpec
CONSTANTS
    None = "none"
    Done = "done"
    Failed = "failed"
    ReadingTask = "ASSEMBLE"
    CountFree = {}
    SameParamLimit = 3
    Initial = "ASSEMBLE"
    Tasks <- RepairTasks
    Gated = {}
    Immediate = {}
    NextOk <- RepairNextOk
    NextFail <- RepairNextFail
    Branches <- RepairBranches
    LitGate <- RepairScope
    Environments <- GuardEnvironments
    Unlimited = {"fault"}
INVARIANTS
    UnattendedLaunchesBounded
PROPERTIES
    ProcessSettles
CHECK_DEADLOCK FALSE
