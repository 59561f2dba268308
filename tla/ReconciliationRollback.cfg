CONSTANTS
    MaxTs = 2
    MaxEvents = 2
    IgnitionOn <- EvenOn
    Workers = {w}
    Watchdogs = {g}
    Sweepers = {}
    Rebuilders = {}
    Healers = {}
    Faults = {"attempt"}
    Starts = {"known"}
SPECIFICATION Spec
CHECK_DEADLOCK FALSE
INVARIANTS CacheNeverAhead
