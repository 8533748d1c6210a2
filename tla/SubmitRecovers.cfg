\* Failures that touch neither the dedupe key nor the row; a cache that something fills.
CONSTANTS
    h1 = h1
    h2 = h2
    u1 = u1
    u2 = u2
    a1 = a1
    k1 = k1
    k2 = k2
    Handlers = {h1, h2}
    Users = {u1}
    Addrs = {a1}
    Keys = {k1, k2}
    MaxJobs = 2
    IpLimit = 1
    UserLimit = 1
    SubmitMaxInflight = 1
    Deployments <- CacheOrDirect
    None = None
    FaultKinds = {"redis_rate", "redis_cache", "db_count", "db_update", "crash"}
    MaxFaults = 2
SPECIFICATION FairSpec
CHECK_DEADLOCK FALSE
INVARIANTS ToldJobExists NoDuplicateWork
PROPERTIES LimitsAreTemporary
