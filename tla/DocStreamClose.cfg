SPECIFICATION FairSpec
CONSTANTS
    None = None
    Sessions = {s1}
    Conns = {c1}
    Streams = {k1}
    Runtimes = {opencode}
    EarlyId = {}
    MaxSessions = 1
    MaxPending = 1
PROPERTY StreamsClose
CHECK_DEADLOCK FALSE
