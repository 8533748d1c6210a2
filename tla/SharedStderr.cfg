\* Two jobs of one problem, whose runs share stderr.txt; a failed exec of one of them
\* shows in the verdict of the other.
CONSTANTS
    j1 = j1
    j2 = j2
    s1 = s1
    s2 = s2
    Slots = {s1, s2}
    Jobs = {j1, j2}
    Problems = {1, 2}
    ProblemOf <- SameProblem
    CompileCpuLimit = 10
    CompileRealLimit = 15
    SeccompModes = {"off"}
    Cgroup2Roots = {"/sys/fs/cgroup"}
    ExitCodes = {0, 127}
    Cases = 1
    MaxAttempts = 1
    FaultKinds = {"setup"}
    MaxFaults = 1
SPECIFICATION Spec
SYMMETRY SlotSymmetry
CHECK_DEADLOCK FALSE
INVARIANTS VerdictIsOwn
