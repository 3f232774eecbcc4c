SPECIFICATION FairSpec
CONSTANTS
    t = t
    u = u
    Threads = {t}
    Turns = {u}
    NoTurn = NoTurn
    Offered <- MCEvents
    PageSize = 2
    RetainAccepted = 1
    ScanInterval = 1
    PoisonLimit = 2
    MaxSequence = 2
    MaxFaults = 1
    MaxRestarts = 1
    MaxPrunes = 1
    MaxNotices = 1
    MaxUpgrades = 1
INVARIANTS
    AppliedOnceInOrder
    AcknowledgedMeansHandled
    CachesHoldOpenTurns
    NoDefect
PROPERTIES
    GivenUpFailed
    JournalDrains
CHECK_DEADLOCK FALSE
