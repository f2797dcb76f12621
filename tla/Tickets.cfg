CONSTANTS
    sa = sa sb = sb
    Sessions = {sa, sb}
    Foreground = {sa}
    p1 = p1 p2 = p2
    Packages = {p1, p2}
    NoPackage = NoPackage
    PredecessorOf <- Succeeds
    Published = {p1}
    MaxEvents = 3
    MaxTouches = 1
    c1 = c1 c2 = c2
    Requests = {c1, c2}
    d1 = d1 d2 = d2
    Coordinators = {d1, d2}
    First = d1
    MaxSubjects = 2
    MaxRevision = 8
    MaxEdits = 1
    q1 = q1 q2 = q2 q3 = q3
    Calls = {q1, q2, q3}
    MaxIds = 3
    MaxFaults = 2
    m1 = m1 m2 = m2 m3 = m3
    Materializers = {m1, m2, m3}
    NoCaller = NoCaller
    KindOf <- Kinds
    MaxDevelop = 1
    MaxFeature = 1
    MaxOperator = 2
    b1 = b1 b2 = b2
    Analysts = {c1, c2}
    Builders = {b1, b2}
    NoOne = NoOne
    Permits = 1
    MaxAttempts = 3
    MaxLeases = 1
    MaxSteps = 4
    MaxCrashes = 2
    Collectors = {b1, b2}
    Messages = {1, 2, 3, 4}
    TraitsOf <- Notes
    MaxRuns = 2
    MaxEnds = 1
    Captures = {c1, c2}
    MaxReports = 2
    Edited = {3}
    MaxChances = 1
    MaxAsked = 4
    Asked <- AskedHere
    Keys = {"k1", "k2"}
    PoolRows <- RowsHere
    AtFirst <- StartHere
    Earlier <- EarlierHere
    MaxWorld = 2
SPECIFICATION TicketsSpec
INVARIANTS
    DocumentsSafe WorkflowSafe StoreSafe BranchSafe PreparedSafe
PROPERTIES
    TicketsSteps
SYMMETRY Alike
CHECK_DEADLOCK FALSE
