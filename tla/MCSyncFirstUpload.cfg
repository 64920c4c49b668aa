CONSTANTS
    d1 = d1
    d2 = d2
    n1 = n1
    n2 = n2
    e1 = e1
    e2 = e2
    NoId = NoId
    Devices = {d1}
    Notes = {n1, n2}
    Edits = {}
    Doomed = {}
    Starts <- MCStarts
    UserActsAt = {"idle"}
    Replaced = {d1}
    CrashWhileBurying = FALSE
    MaxFailures = 1
    MaxForgets = 0
    PageRows = 1
    UploadBudget = 1
    MaxVersions = 12
SPECIFICATION Spec
INVARIANTS
    NothingStranded
