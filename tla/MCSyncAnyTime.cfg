CONSTANTS
    d1 = d1
    d2 = d2
    n1 = n1
    n2 = n2
    e1 = e1
    e2 = e2
    NoId = NoId
    Devices = {d1, d2}
    Writers = {1, 2}
    Notes = {n1, n2}
    Edits = {e1, e2}
    Doomed = {}
    Starts <- MCStarts
    UserActsAt <- AnyTime
    Replaced = {}
    CrashWhileBurying = FALSE
    MaxFailures = 1
    MaxForgets = 0
    PageRows = 1
    UploadBudget = 1
    MaxVersions = 12
    Images = {"i", "j"}
    FirstImages = {"i"}
    Times = {1, 2}
    ClocksAgree = FALSE
    Parts <- MCParts
    MaxEdits = 3
INIT MCInit
NEXT MCNext
INVARIANTS
    NothingSkipped
    KnowsWhatIsHeld
    MergesAgree
    NothingMergedAway
    PushWins
PROPERTIES
    NoLostUpdate
SYMMETRY MCSymmetry
