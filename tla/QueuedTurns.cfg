\* One thread: three messages, and one stop, deletion, edit or fault.
SPECIFICATION Spec
CONSTANTS
    Root = root
    Children = {}
    Modes = {"queue"}
    Native = FALSE
    Asks = {"stop", "deleted", "edit"}
    Faults = {"refuse", "reject", "timeout", "crash", "unnamed"}
    MaxMessages = 3
    MaxUnusual = 1
INVARIANTS
    SentOnce
    OldestFirst
CHECK_DEADLOCK FALSE
