CONSTANTS
    r1 = r1
    r2 = r2
    Requests = {r1, r2}
    Cron = Cron
    ChallengeTtl = 1
    SessionTtl = 1
    Inactive = 1
    DropsDuringDrain = FALSE
    MaxClock = 2
    MaxRequests = 3
    MaxChallenges = 2
    MaxFailures = 2
SPECIFICATION FairSpec
INVARIANTS
    TypeOK
    RetiredForGood
    PurgedOrQueued
    RevokedForGood
    OneSessionPerChallenge
PROPERTIES
    QueueDrains
