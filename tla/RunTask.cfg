SPECIFICATION WorkspaceFairSpec
CONSTANTS
    None = "none"
    Done = "done"
    Failed = "failed"
    ReadingTask = "T3"
    CountFree = {}
    SameParamLimit = 3
    Initial = "T3"
    Tasks <- SoloTasks
    Gated <- SoloGated
    Immediate <- SoloImmediate
    NextOk <- SoloNextOk
    NextFail <- SoloNextFail
    Branches <- SoloBranches
    LitGate <- SoloScope
    Environments <- SoloEnvironments
    Unlimited = {}
INVARIANTS
    FailedResumeAtCulprit
    OnlyRunTaskLeavesOpen
PROPERTIES
    OwnGateKept
    OneMovePerCommand
    EventuallyDone
CHECK_DEADLOCK FALSE
