SPECIFICATION FairSpec
CONSTANTS
    None = None
    Sessions = {s1}
    Conns = {c1}
    Streams = {}
    Runtimes = {opencode}
    EarlyId = {}
    MaxSessions = 1
    MaxPending = 1
PROPERTY Escalates
CHECK_DEADLOCK FALSE
