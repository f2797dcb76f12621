SPECIFICATION Spec
CONSTANTS
    None = None
    Orchestrators = {o1}
    Implementers = {c1}
    OpenCode = {x1}
    Reviewers = {}
    Foreground = {o1, x1}
    Linked = FALSE
    MaxHead = 0
    MaxReceipts = 0
PROPERTIES
    LiveChildExcludes
CHECK_DEADLOCK FALSE
