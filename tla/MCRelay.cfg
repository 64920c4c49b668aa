CONSTANTS
    a = a
    b = b
    a1 = a1
    a2 = a2
    a3 = a3
    b1 = b1
    b2 = b2
    NoId = NoId
    Slots <- MCSlots
    Ids <- MCIds
    SlotOf <- MCSlotOf
    Size <- MCSize
    Batches <- MCBatches
    Cursors <- MCCursors
    OldAccounts <- MCOldAccounts
    PageRows = 1
    PageBytes = 3
    Overhead = 1
    DefaultQuota = 8
    Quotas = {4, 8}
    Windows = {1, 2}
    MaxClock = 2
    MaxHistory = 4
SPECIFICATION Spec
INVARIANTS
    TypeOK
    RecordsNumbered
    CountsMatchRows
    BytesMatchRows
    LiveCopyIsNewest
    DeletedLeavesNothing
PROPERTIES
    HistoryBounded
    Implements
    DoneAsAsked
CHECK_DEADLOCK FALSE
