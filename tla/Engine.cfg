\* One job, two attempts of it in two slots, two test cases; one failure at any
\* point, which may be that the attempts overlap.
CONSTANTS
    j1 = j1
    j2 = j2
    s1 = s1
    s2 = s2
    Slots = {s1, s2}
    Jobs = {j1}
    Problems = {1, 2}
    ProblemOf <- OneProblem
    CompileCpuLimit = 10
    CompileRealLimit = 15
    SeccompModes = {"on", "off"}
    Cgroup2Roots = {"/sys/fs/cgroup"}
    ExitCodes = {0, 127}
    Cases = 2
    MaxAttempts = 2
    FaultKinds = {"setup", "overlap", "deadline", "config", "workspace", "prepare", "remove", "report", "clone", "slow", "wait4", "cgroup_open", "cgroup_write", "rmdir"}
    MaxFaults = 1
SPECIFICATION Spec
SYMMETRY SlotSymmetry
CHECK_DEADLOCK FALSE
INVARIANTS TypeOK Isolated SetupNeverBlocked VerdictIsOwn NothingOutlivesEngine
PROPERTIES NotRemovedInUse
