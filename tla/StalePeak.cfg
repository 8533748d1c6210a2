\* Two calls whose programs get the same pid.
CONSTANTS
    Second = 2
    Limits <- TwoMemories
    TimeoutBuffer = 1
    OutLimit = 1
    OutBuffer = 1
    ExitCodes = {0, 1}
    PidSpace = 1
    MaxRuns = 2
    MaxTick = 6
    FaultKinds = {}
    MaxFaults = 1
SPECIFICATION Spec
CHECK_DEADLOCK FALSE
INVARIANTS LimitVerdictIsEarned
