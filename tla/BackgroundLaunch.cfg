CONSTANTS
    Kinds = {"plain", "owner", "borrower", "child", "review"}
    None = None
SPECIFICATION FairSpec
INVARIANTS
    TypeOK LaunchSafe
PROPERTIES
    KeepsCustody LaunchEnds
CHECK_DEADLOCK FALSE
