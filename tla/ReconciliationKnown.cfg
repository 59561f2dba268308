CONSTANTS
    MaxTs = 3
    MaxEvents = 3
    IgnitionOn <- EvenOn
    Workers = {w}
    Watchdogs = {g}
    Sweepers = {s}
    Rebuilders = {r}
    Healers = {h}
    Faults = {"flush"}
    Starts = {"known"}
SPECIFICATION Spec
CHECK_DEADLOCK FALSE
INVARIANTS CacheNeverAhead LiveIsAnnounced
PROPERTIES NewestWins
