\* The objects are replaced while calls for them run.
CONSTANTS
    j1 = j1
    j2 = j2
    p1 = p1
    p2 = p2
    Jobs = {j1, j2}
    Problems = {p1}
    ProblemOf <- SameProblem
    Tasks = {t1, t2}
    Cases = {1}
    Programs <- GoodProgram
    None = None
    MaxVersion = 2
    CacheByteBudget = 2
    CacheMax = 0
    FaultKinds = {"minio", "disk", "crash", "redis", "overlap", "judge_compile"}
    MaxFaults = 1
SPECIFICATION FairSpec
CHECK_DEADLOCK FALSE
INVARIANTS TagNeverAhead
PROPERTIES CallsEnd
