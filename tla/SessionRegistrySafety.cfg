CONSTANTS
    Sessions = {s1, s2}
    Cleaners = {c}
    NoOne = NoOne
    QueueMax = 1
    MaxPackets = 1
    Faults = {}
SPECIFICATION Spec
CHECK_DEADLOCK FALSE
SYMMETRY Symmetry
INVARIANTS TypeOK ServingIsRegistered NoGhostEntry SecondSocketIsClosing
