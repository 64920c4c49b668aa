CONSTANTS
    d1 = d1
    d2 = d2
    n1 = n1
    n2 = n2
    w1 = w1
    w2 = w2
    w3 = w3
    Devices = {d1, d2}
    Wakes = {w1, w2, w3}
    NoteOf <- MCNoteOf
    FiredAt <- MCFiredAt
    Times = {1}
    PerNote = 1
    Batch = 1
    MaxRows = 2
    MaxActs = 2
    MaxFailures = 1
SPECIFICATION FairSpec
INVARIANTS
    TypeOK
    NothingUnsent
PROPERTIES
    Converges
    RelayKeeps
CHECK_DEADLOCK FALSE
