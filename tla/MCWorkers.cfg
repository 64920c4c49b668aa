CONSTANTS
    r1 = r1
    r2 = r2
    slotA = slotA
    slotB = slotB
    a1 = a1
    a2 = a2
    b1 = b1
    NoId = NoId
    Slots <- MCSlots
    Ids <- MCIds
    SlotOf <- MCSlotOf
    Size <- MCSize
    Batches <- MCBatches
    Rounds = {r1, r2}
    Sweep = Sweep
    PageRows = 1
    PageBytes = 3
    Overhead = 1
    Quota = 4
    Window = 2
    MaxClock = 3
    MaxKeys = 3
    MaxCrashes = 1
    w1 = w1
    c1 = c1
    c2 = c2
    m1 = m1
    m2 = m2
    WakeIds = {w1}
    FireAt <- MCFireAt
    Snapshots <- MCSnapshots
    Never = Never
    Clients = {c1, c2}
    Messages = {m1, m2}
    Lease = 1
    Backoff = 2
    RetryAfter = 1
    MaxTries = 1
    Overlap = FALSE
    RegistrationsDie = FALSE
    MaxRevision = 0
    MaxEvents = 2
    MaxNow = 2
    FaultyUntil = 2
INIT MCInit
NEXT MCNext
INVARIANTS
    TypeOK
    LiveReadable
    NothingLeftBehind
    UsageExact
    NoWakeLost
PROPERTIES
    RoundsAreSerial
SYMMETRY MCSymmetry
CHECK_DEADLOCK FALSE
