\* One job, two workers with two slots, two dispatchers, every kind of failure,
\* any two of them per behaviour.
CONSTANTS
    Jobs = {j1}
    Workers = {w1, w2}
    None = None
    Dispatchers = {d1, d2}
    Slots = {s1, s2}
    FirstBoot = TRUE
    HeartbeatRetries = 2
    FaultKinds <- AllFaults
    MaxFaults = 2
    RepairEnabled = FALSE
    MaxEntries = 2
SPECIFICATION Spec
SYMMETRY Interchangeable
CHECK_DEADLOCK FALSE
INVARIANTS TypeOK UniqueExecutor TokenFromRow JudgedByNewestAttempt DeliveredHasEntry
PROPERTIES DoneIsFinal ImplementsLifecycle
