CONSTANTS
    MaxTs = 2
    MaxEvents = 3
    IgnitionOn <- EvenOn
    Workers = {w}
    Watchdogs = {g}
    Sweepers = {}
    Rebuilders = {}
    Healers = {}
    Faults = {"crash", "timeout", "purge", "insert", "redis"}
    Starts = {"imported", "unregistered"}
SPECIFICATION Spec
CHECK_DEADLOCK FALSE
INVARIANTS TypeOK LiveMatchesAudit
PROPERTIES OnlyFirstContactRegresses OnlyRollbackOvertakes
