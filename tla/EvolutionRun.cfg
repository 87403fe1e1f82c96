SPECIFICATION FairSpec
CONSTANTS
    None = None
    Routes = {"literature", "bridge"}
    Width = 2
    RoundChoices = {0, 2}
    Ops = {"D1", "D2", "D3", "D4"}
    Kind <- MCKind
    Limit <- MCLimit
INVARIANTS
    TypeOK
    GateShowsActive
    ReceiptNamesMaker
PROPERTIES
    FollowsIdeation
    RoutesKept
    OperationHonoured
    ReceiptPreventsRepeat
    BackAtGate
