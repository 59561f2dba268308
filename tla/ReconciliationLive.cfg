CONSTANTS
    MaxTs = 2
    MaxEvents = 2
    IgnitionOn <- EvenOn
    Workers = {w}
    Watchdogs = {g}
    Sweepers = {}
    Rebuilders = {r}
    Healers = {}
    Faults = {"timeout", "flush", "attempt", "redis", "crash"}
    Starts = {"imported"}
SPECIFICATION FairSpec
CHECK_DEADLOCK FALSE
PROPERTIES LatestBecomesLive CacheConverges
