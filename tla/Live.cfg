CONSTANTS
    MaxKeys = 3
    MaxMarkers = 2
    k1 = k1 u1 = u1 u2 = u2 q1 = q1 e1 = e1
    Commands = {k1}
    Supervisors = {u1, u2}
    Requests = {q1}
    Events = {e1}
    Nothing = Nothing
    MaxStarts = 2
    MaxBusy = 1
    MaxFaults = 1
    main = main topic = topic
    Refs = {main, topic}
    NoRef = NoRef
    Fallbacks <- Default
    MaxRevision = 2
    MaxGeneration = 1
    s1 = s1 c1 = c1 opencode = opencode pi = pi
    Sessions = {s1}
    Conns = {c1}
    Streams = {k1}
    Runtimes = {opencode, pi}
    EarlyId = {pi}
    MaxSessions = 1
    MaxPending = 2
    None = None
    t1 = t1 i1 = i1 b1 = b1 row1 = row1 w1 = w1
    Tickets = {t1}
    Inbox = {i1}
    Bulletins = {b1}
    Rows = {row1}
    Clients = {w1}
    MaxWrites = 2
    MaxConnects = 1
    p1 = p1 p2 = p2
    PanelTickets = {p1, p2}
    BoundTicket <- Unlaunched
    MaxChanges = 1
    MaxTodo = 1
    MaxFailures = 1
    o1 = o1
    Ops = {o1}
    Runners = {o1}
    MaxBreaks = 1
SPECIFICATION LiveSpec
INVARIANTS
    ForegroundSafe ArtifactSafe PanelsSafe
PROPERTIES
    SessionSettles ServicesFollow SlotsFollow
CHECK_DEADLOCK FALSE
