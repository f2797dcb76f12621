SPECIFICATION Spec
CONSTANTS
    None = None
    Orchestrators = {o1}
    Implementers = {c1}
    OpenCode = {}
    Reviewers = {}
    Foreground = {o1}
    Linked = TRUE
    MaxHead = 1
    MaxReceipts = 1
INVARIANTS
    TypeOK EvidenceAgrees ReceiptsUsedOnce
PROPERTIES
    AuthorityStableUnderChild
CHECK_DEADLOCK FALSE
