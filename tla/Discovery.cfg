SPECIFICATION FairSpec
CONSTANTS
    Kept = Kept
    Fresh = Fresh
    Users = Users
    Audit = Audit
    Node = {Kept, Fresh}
    Path = {Users, Audit}
    Private = {Audit}
    Configured = {Kept}
    MaxBoots <- MCMaxBoots
    Restarts = Fresh
    Offers <- MCOffers
    MaxLost = 1
INVARIANTS TypeOK Truthful Complete
PROPERTY Introduced
CHECK_DEADLOCK FALSE
