CONSTANTS
    d1 = d1  d2 = d2  c1 = c1  c2 = c2  c3 = c3
    Devices = {d1}
    Conns = {c1, c2}
    DevOf <- OneDevice
    Partitions = {0}
    Hash <- Shared
    QueueMax = 1
    PartMax = 1
    Threshold = 0
    Burst = 1
    MaxPackets = 2
    MaxCrashes = 0
    Faults = {"save", "connect", "filter", "decode", "insert", "unregistered"}
SPECIFICATION FairSpec
CHECK_DEADLOCK FALSE
PROPERTIES EveryPacketSettles
