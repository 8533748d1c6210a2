\* The outbox mode, and the direct mode with a cache that something fills; two
\* failures of any kind but a failed count.
CONSTANTS
    h1 = h1
    h2 = h2
    u1 = u1
    u2 = u2
    a1 = a1
    k1 = k1
    k2 = k2
    Handlers = {h1, h2}
    Users = {u1}
    Addrs = {a1}
    Keys = {k1, k2}
    MaxJobs = 3
    IpLimit = 1
    UserLimit = 2
    SubmitMaxInflight = 1
    Deployments <- EitherMode
    None = None
    FaultKinds = {"redis_rate", "redis_cache", "redis_setnx", "redis_get", "redis_del", "redis_enqueue", "db_insert", "db_update", "crash", "crash_storing", "slow_job", "expiry_race"}
    MaxFaults = 2
SPECIFICATION Spec
CHECK_DEADLOCK FALSE
SYMMETRY Interchangeable
INVARIANTS TypeOK AcceptedIsStored CapOvershoot OneLeftoverPerFailure
