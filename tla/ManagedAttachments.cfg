\* One attachment of each principal, two messages, three events; two failed steps,
\* crashes or repairs.
SPECIFICATION FilesFairSpec
CONSTANTS
    mine = mine
    paired = paired
    here = here
    there = there
    Attachments = {mine, paired}
    Local = here
    Owner <- MCOwner
    Drafts = {{mine}, {paired}}
    HomeCount = 2
    StagingCount = 1
    MaxAttempts = 2
    MaxMessages = 2
    MaxLog = 3
    MaxUnusual = 2
INVARIANTS
    StoredMeansDurable
    ReferencedKept
PROPERTY
    Reclaimed
CHECK_DEADLOCK FALSE
