\* The repair loop on: any one failure, the first start of the workers included, but
\* for a lease that lapses before the final write.
CONSTANTS
    Jobs = {j1}
    Workers = {w1, w2}
    None = None
    Dispatchers = {d1}
    Slots = {s1}
    FirstBoot = TRUE
    HeartbeatRetries = 2
    FaultKinds <- RepairedFaults
    MaxFaults = 1
    RepairEnabled = TRUE
    MaxEntries = 2
SPECIFICATION FairSpec
CHECK_DEADLOCK FALSE
PROPERTIES EventuallyDone
