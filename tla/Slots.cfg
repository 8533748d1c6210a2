\* Two slots, three messages, a read that asks for more than there are slots and
\* blocks for two ticks; one failure.
CONSTANTS
    PoolSize = 2
    ReadCount = 3
    ReclaimCount = 2
    Block = 2
    Sleep = 1
    MaxWait = 3
    NumMessages = 3
    FaultKinds = {"read", "claim", "cancel"}
    MaxFaults = 1
SPECIFICATION FairSpec
CHECK_DEADLOCK FALSE
INVARIANTS TypeOK SlotsConserved
PROPERTIES SkippedOnlyWhenBusy IdleIsReclaimed
