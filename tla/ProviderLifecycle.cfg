\* Three of the calls of the delivery source, with idle stops; two turns, and two calls
\* or processes that fail, or two background tasks, or one of each.
SPECIFICATION Spec
CONSTANTS
    codex = codex
    claude = claude
    Providers = {codex, claude}
    Kinds = {"start", "send", "interrupt", "restart"}
    Faults = {"fail", "stop", "dies", "runtime.error"}
    Retires = FALSE
    MaxCalls = 3
    MaxTurns = 2
    MaxTasks = 2
    MaxUnusual = 2
SYMMETRY Symmetric
INVARIANTS
    Coherent
    QuietAgrees
PROPERTIES
    IdleSparesWork
    SuspectTakesNoTurn
CHECK_DEADLOCK FALSE
