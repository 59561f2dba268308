CONSTANTS
    Sessions = {s1, s2}
    Cleaners = {}
    NoOne = NoOne
    QueueMax = 1
    MaxPackets = 0
    Faults = {"redis"}
SPECIFICATION FairSpec
CHECK_DEADLOCK FALSE
PROPERTIES EvictedEnds
