\* No failure, but the dedupe key of a finished job expires between SETNX and GET.
CONSTANTS
    h1 = h1
    h2 = h2
    u1 = u1
    u2 = u2
    a1 = a1
    k1 = k1
    k2 = k2
    Handlers = {h1, h2}
    Users = {u1}
    Addrs = {a1}
    Keys = {k1}
    MaxJobs = 4
    IpLimit = 3
    UserLimit = 3
    SubmitMaxInflight = 3
    Deployments <- Outbox
    None = None
    FaultKinds = {"expiry_race"}
    MaxFaults = 1
SPECIFICATION Spec
CHECK_DEADLOCK FALSE
INVARIANTS NoDuplicateWork
