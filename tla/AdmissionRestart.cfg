SPECIFICATION Spec
CONSTANTS
    None = None
    Orchestrators = {o1, o2}
    Implementers = {c1}
    OpenCode = {}
    Reviewers = {r1}
    Foreground = {o1, o2, c1, r1}
    Linked = TRUE
    MaxHead = 0
    MaxReceipts = 0
INVARIANTS
    ReviewExcludesWriters
PROPERTIES
    LiveOwnerKept
CHECK_DEADLOCK FALSE
