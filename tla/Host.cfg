CONSTANTS
    o1 = o1 c1 = c1 r1 = r1 s1 = s1
    Calls = {o1, c1, r1, s1}
    Casts <- Pairs
    Kind <- KindOf
    NoOne = NoOne
    MaxMishaps = 1
    MaxEvents = 3
    MaxClock = 1
    x1 = x1 x2 = x2 main = main side = side
    Callers = {x1, x2}
    Trees = {main, side}
    Primary = main
    MaxRecords = 2
    h1 = h1 h2 = h2 w1 = w1 opencode = opencode None = None
    Sessions = {h1, h2}
    Conns = {w1}
    Streams = {}
    Runtimes = {opencode}
    EarlyId = {}
    MaxSessions = 1
    MaxPending = 2
    p1 = p1 p2 = p2 p3 = p3 Nobody = Nobody
    Procs = {p1, p2, p3}
    MaxCrashes = 1
    MaxReuse = 1
    d1 = d1 d2 = d2 f1 = f1
    Reqs = {x1, x2}
    Files = {f1}
    Docs = {d1, d2}
    MaxNotes = 2
    MaxMoves = 1
    MaxKills = 1
    Commands = {x1, x2}
    Paths = {main}
    Headings = {p1, p2}
    MaxNumbers = 2
    MaxCommands = 4
    MaxDeaths = 1
SPECIFICATION HostSpec
INVARIANTS
    TypeOK CapacityKept EndsTold
    LaunchesSafe ServerSafe EvidenceSafe
PROPERTIES
    HostSteps
SYMMETRY Alike
CHECK_DEADLOCK FALSE
