CONSTANTS
    d1 = d1  d2 = d2  c1 = c1  c2 = c2  c3 = c3
    Devices = {d1, d2}
    Conns = {c1, c3}
    DevOf <- OneEach
    Partitions = {0, 1}
    Hash <- Split
    QueueMax = 3
    PartMax = 1
    Threshold = 0
    Burst = 1
    MaxPackets = 2
    MaxCrashes = 1
    Faults = {"save", "dlq", "crash", "late", "insert", "unregistered"}
SPECIFICATION Spec
CHECK_DEADLOCK FALSE
INVARIANTS TypeOK ZeroPacketLoss
PROPERTIES StrictSequencing
