CONSTANTS
    w1 = w1
    w2 = w2
    d1 = d1
    d2 = d2
    e1 = e1
    e2 = e2
    Never = Never
    WakeIds <- MCWakeIds
    Snapshots <- MCSnapshots
    FireAt <- MCFireAt
    Devices <- MCDevices
    Endpoints <- MCEndpoints
    Accounts <- MCAccounts
    MaxDevices = 1
    Share = 1
    MaxRounds = 2
    Lease = 1
    Retain = 1
    MaxRetryDelay = 2
    StoreRetry = 1
    MaxRevision = 2
    DiscardsBeside = FALSE
    MaxEvents = 1
    MaxFaults = 2
    MaxTime = 2
    FaultsUntil = 1
SPECIFICATION Spec
CHECK_DEADLOCK FALSE
PROPERTIES
    OnlyGoneIsDropped
