\* Two calls of any kind, of any fiber, with idle stops and credential rotations; one
\* write of the binding may fail, or one end of a turn not name it.
SPECIFICATION FairSpec
CONSTANTS
    Providers = {"codex", "claude"}
    Kinds = {"start", "send", "interrupt", "restart", "clear", "compact", "stop", "reap"}
    Faults = {"write", "unnamed"}
    Retires = TRUE
    MaxCalls = 2
    MaxTurns = 1
    MaxTasks = 0
    MaxUnusual = 1
PROPERTY
    CallsEnd
CHECK_DEADLOCK FALSE
