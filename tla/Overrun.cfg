\* A limit of 1250 ms, a deadline at 1750 ms; a tick is 250 ms.
CONSTANTS
    Second = 4
    Limits <- UnevenLimit
    TimeoutBuffer = 2
    OutLimit = 1
    OutBuffer = 1
    ExitCodes = {0, 1}
    PidSpace = 1
    MaxRuns = 1
    MaxTick = 8
    FaultKinds = {}
    MaxFaults = 1
SPECIFICATION Spec
CHECK_DEADLOCK FALSE
INVARIANTS OverrunIsTimeLimit
