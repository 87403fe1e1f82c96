SPECIFICATION FairSpec
CONSTANTS
    None = None
    Controls = {"schema", "guide"}
    Runs = 1
    Events = {"reselect", "leave"}
    Most = 2
INVARIANTS
    EvidenceForCurrentCandidate
CHECK_DEADLOCK FALSE
