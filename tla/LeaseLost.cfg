\* A worker stalls past its lease before the final write.
CONSTANTS
    Jobs = {j1}
    Workers = {w1, w2}
    None = None
    Dispatchers = {d1}
    Slots = {s1}
    FirstBoot = FALSE
    HeartbeatRetries = 2
    FaultKinds = {"slow_lease"}
    MaxFaults = 1
    RepairEnabled = FALSE
    MaxEntries = 2
SPECIFICATION FairSpec
CHECK_DEADLOCK FALSE
PROPERTIES EventuallyDone
