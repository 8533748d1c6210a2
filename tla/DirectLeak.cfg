\* One failed XADD in the direct mode.
CONSTANTS
    h1 = h1
    h2 = h2
    u1 = u1
    u2 = u2
    a1 = a1
    k1 = k1
    k2 = k2
    Handlers = {h1, h2}
    Users = {u1}
    Addrs = {a1}
    Keys = {k1}
    MaxJobs = 3
    IpLimit = 2
    UserLimit = 2
    SubmitMaxInflight = 1
    Deployments <- Direct
    None = None
    FaultKinds = {"redis_enqueue"}
    MaxFaults = 1
SPECIFICATION FairSpec
CHECK_DEADLOCK FALSE
PROPERTIES CapRecovers
