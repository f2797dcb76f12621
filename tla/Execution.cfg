CONSTANTS
    fa = fa fb = fb
    Lineage = {1, 2}
    CheckOrder <- Plan
    Phases = {fa, fb}
    NoPhase = NoPhase
    MaxContent = 2
    MaxOperator = 1
    NoProgressLimit = 1
    ReplacementLimit = 1
    va = va vb = vb NoReview = NoReview
    Reviews = {va, vb}
    Authorization <- Issued
    Steps = {1, 2}
    MaxMishaps = 1
    vl = vl vm = vm NoLaunch = NoLaunch
    Launches = {vl, vm}
    Profiles = {"v1", "current", "nixos"}
    MaxDrifts = 2
    MaxTasks = 2 MaxSaved = 2 MaxFaults = 1
    DepSets <- Dependencies
    Options <- Labels
    Typed = {"", "a", "own"}
    o1 = o1 o2 = o2 Unbarred = Unbarred
    Ops = {o1, o2}
    Runners = {o1}
    MaxBreaks = 1
    u1 = u1 u2 = u2 w1 = w1 z1 = z1 z2 = z2 y1 = y1 y2 = y2 NoCall = NoCall
    ToolCalls <- Announced
    Outputs <- Printed
    Named = {w1}
    FileCalls = {z1, z2}
    Sayings <- AlikeOrNot
    MaxOdd = 2 MaxNoise = 1 MaxFailures = 1
SPECIFICATION ExecutionSpec
INVARIANTS
    ExecutionSafe SessionSafe
PROPERTIES
    ExecutionSteps
SYMMETRY Alike
CHECK_DEADLOCK FALSE
