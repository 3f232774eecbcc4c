SPECIFICATION FairSpec
CONSTANTS
    t1 = t1
    t2 = t2
    Threads = {t1, t2}
    Logs <- MCLogs
    Answers = {"accepted", "retry", "uncertain", "unwritten"}
    RetryLimit = 2
    MaxAhead = 1
    MaxCrashes = 1
    MaxApprovals = 1
    MaxAborts = 1
INVARIANTS
    NeverRepeatedBlindly
    CursorAccountsForEverything
    InLogOrder
    NoDefect
PROPERTIES
    BlockedThreadIsLeftAlone
    DrainsTheLog
CHECK_DEADLOCK FALSE
