SPECIFICATION Spec
CONSTANTS
    par = par  chi = chi  rev1 = rev1  rev2 = rev2  oc1 = oc1  oc2 = oc2
    tk1 = tk1  tk2 = tk2  br = br  au1 = au1  au2 = au2
    None = None
    Parents = {par}
    Children = {chi}
    Reviewers = {rev1, rev2}
    Plain = {oc1, oc2}
    Foreground = {rev1, oc2}
    ParentOf <- Parent
    LaunchTicket <- Launch
    Branches = {br}
    Branch <- BranchOf
    Tickets = {tk1, tk2}
    Authorizations = {au1, au2}
    Heads = {0, 1}
    MaxRows = 2
    MaxAuthority = 2
    MaxJobs = 1
    Verdicts = {"success", "nonzero", "unstated"}
    Watched = {oc1, oc2, rev1}
    Together = {{par, chi}, {rev1, rev2}, {oc1}, {oc2}}
SYMMETRY Alike
INVARIANTS
    TypeOK RegistrySafe ParentAuthority
PROPERTIES
    ResultsKept
