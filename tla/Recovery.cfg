\* Fair behaviours with up to two of the failures the pipeline recovers from.
CONSTANTS
    Jobs = {j1}
    Workers = {w1, w2}
    None = None
    Dispatchers = {d1}
    Slots = {s1}
    FirstBoot = FALSE
    HeartbeatRetries = 2
    FaultKinds <- RecoverableFaults
    MaxFaults = 2
    RepairEnabled = FALSE
    MaxEntries = 2
SPECIFICATION FairSpec
CHECK_DEADLOCK FALSE
INVARIANTS NoOrphan NeverPoisoned
PROPERTIES EventuallyDone
