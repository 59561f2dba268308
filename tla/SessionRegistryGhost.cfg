CONSTANTS
    Sessions = {s1}
    Cleaners = {c}
    NoOne = NoOne
    QueueMax = 1
    MaxPackets = 2
    Faults = {}
SPECIFICATION FairSpec
CHECK_DEADLOCK FALSE
PROPERTIES GhostPresenceEnds
