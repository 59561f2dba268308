CONSTANTS
    MaxTs = 2
    MaxEvents = 2
    IgnitionOn <- EvenOn
    Workers = {w}
    Watchdogs = {g}
    Sweepers = {}
    Rebuilders = {}
    Healers = {}
    Faults = {}
    Starts = {"unregistered"}
SPECIFICATION FairSpec
CHECK_DEADLOCK FALSE
PROPERTIES LatestBecomesLive
