\* The cache has room for the files of one problem.
CONSTANTS
    j1 = j1
    j2 = j2
    p1 = p1
    p2 = p2
    Jobs = {j1, j2}
    Problems = {p1, p2}
    ProblemOf <- TwoProblems
    Tasks = {t1, t2}
    Cases = {1}
    Programs <- AnyProgram
    None = None
    MaxVersion = 1
    CacheByteBudget = 2
    CacheMax = 0
    FaultKinds = {}
    MaxFaults = 0
SPECIFICATION Spec
CHECK_DEADLOCK FALSE
INVARIANTS AcceptedIsEarned
