CONSTANTS
    d1 = d1
    d2 = d2
    n1 = n1
    n2 = n2
    e1 = e1
    e2 = e2
    NoId = NoId
    Devices = {d1, d2}
    Notes = {n1}
    Edits = {e1}
    Doomed = {}
    Starts <- MCStarts
    UserActsAt = {"idle"}
    Replaced = {}
    CrashWhileBurying = FALSE
    MaxFailures = 1
    MaxForgets = 1
    PageRows = 1
    UploadBudget = 1
    MaxVersions = 12
SPECIFICATION FairSpec
PROPERTIES
    FlightsEnd
INVARIANTS
    NothingStranded
