\* Three messages to a thread and a subagent thread of its session, queued or
\* steered into the live turn; no other requests and no faults.
SPECIFICATION FairSpec
CONSTANTS
    Root = root
    Children = {child}
    Modes = {"queue", "steer"}
    Native = TRUE
    Asks = {}
    Faults = {}
    MaxMessages = 3
    MaxUnusual = 0
PROPERTIES
    QueuedSettles
    ReservationEnds
CHECK_DEADLOCK FALSE
