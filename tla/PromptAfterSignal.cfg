SPECIFICATION Spec
CONSTANTS
    None = "none"
    Done = "done"
    Failed = "failed"
    ReadingTask = "T3"
    CountFree = {}
    SameParamLimit = 3
    Initial = "T2-PARAM-GATE"
    Tasks <- LitTasks
    Gated <- LitImmediate
    Immediate <- LitImmediate
    NextOk <- LitNextOk
    NextFail <- LitNextFail
    Branches <- LitBranches
    LitGate <- LitScope
    Environments <- AskEnvironments
    Unlimited = {}
INVARIANTS
    NoPromptAfterInterrupt
CHECK_DEADLOCK FALSE
