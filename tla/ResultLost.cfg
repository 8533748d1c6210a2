\* A result key expires before its row is final.
CONSTANTS
    h1 = h1
    h2 = h2
    u1 = u1
    u2 = u2
    a1 = a1
    k1 = k1
    k2 = k2
    Handlers = {h1, h2}
    Users = {u1}
    Addrs = {a1}
    Keys = {k1}
    MaxJobs = 2
    IpLimit = 2
    UserLimit = 2
    SubmitMaxInflight = 2
    Deployments <- Outbox
    None = None
    FaultKinds = {"slow_job"}
    MaxFaults = 1
SPECIFICATION Spec
CHECK_DEADLOCK FALSE
PROPERTIES DoneStaysDone
