SPECIFICATION FairSpec
CONSTANTS
    Kinds = {"search", "reading", "quality", "native", "legacy", "selected", "plain"}
    Tools = {"ask", "finish", "write", "build"}
    MaxSteps = 2
    Window = 1
    RetryLimit = 2
    RetryIncrease = 1
    Extensions = 1
    MaxEmpty = 1
    MaxNudge = 1
    Batches = 2
    Limit <- MCLimit
INVARIANTS TypeOK  ChoiceHonoured SignalOpensGate
PROPERTIES OkMeansValidated RunEnds
