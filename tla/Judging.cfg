\* Two jobs of two problems, any number of calls, everything fits into the cache.
CONSTANTS
    j1 = j1
    j2 = j2
    p1 = p1
    p2 = p2
    Jobs = {j1, j2}
    Problems = {p1, p2}
    ProblemOf <- TwoProblems
    Tasks = {t1, t2}
    Cases = {1, 2}
    Programs <- AnyProgram
    None = None
    MaxVersion = 1
    CacheByteBudget = 4
    CacheMax = 0
    FaultKinds = {"minio", "disk", "crash", "redis", "judge_run"}
    MaxFaults = 1
SPECIFICATION Spec
SYMMETRY Interchangeable
CHECK_DEADLOCK FALSE
INVARIANTS TypeOK VerdictIsEarned
