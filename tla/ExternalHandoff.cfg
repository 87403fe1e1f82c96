SPECIFICATION FairSpec
CONSTANTS
    None = None
    Controls = {"schema", "guide"}
    Runs = 2
    Events = {"reselect", "crash", "fault", "handler", "dry", "revise", "leave"}
    Most = 2
INVARIANTS
    TypeOK
    PublishedBeforeCommit
    NoStaleAuthorization
    NoTornEvidence
PROPERTIES
    ReselectionNotOvertaken
    EventuallyWritten
