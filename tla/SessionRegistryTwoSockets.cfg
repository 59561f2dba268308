CONSTANTS
    Sessions = {s1, s2}
    Cleaners = {c}
    NoOne = NoOne
    QueueMax = 1
    MaxPackets = 0
    Faults = {}
SPECIFICATION Spec
CHECK_DEADLOCK FALSE
INVARIANTS OneActiveSocket
