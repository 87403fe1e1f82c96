SPECIFICATION Spec
CONSTANTS
    None = "none"
    Requests = {"evolve", "reprofile", "rollback", "check", "select", "local"}
    Kind <- MCKind
    Limit <- MCLimit
PROPERTIES EffectsConsented EffectsOnce
CHECK_DEADLOCK FALSE
