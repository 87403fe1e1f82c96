SPECIFICATION Spec
CONSTANTS
    None = "none"
    Requests = {"evolve", "reprofile", "rollback"}
    Kind <- MCKind
    Limit <- CalmLimit
PROPERTIES CancelledStays
CHECK_DEADLOCK FALSE
