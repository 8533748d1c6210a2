\* Every way a program can end; one failure of the sandbox or a cancelled
\* attempt; the engine and the program may hang at any point.
CONSTANTS
    Second = 2
    Limits <- TwoTimes
    TimeoutBuffer = 1
    OutLimit = 1
    OutBuffer = 1
    ExitCodes = {0, 1, 127, 130}
    PidSpace = 1
    MaxRuns = 1
    MaxTick = 6
    FaultKinds = {"clone", "setup", "dup2", "exec", "cgroup", "cancel"}
    MaxFaults = 1
SPECIFICATION FairSpec
CHECK_DEADLOCK FALSE
INVARIANTS TypeOK VerdictIsEarned NothingLeftRunning
PROPERTIES ExecuteReturns
