\* Cases in a directory of the archive pass the validation and are never judged.
CONSTANTS
    r1 = r1
    r2 = r2
    s1 = s1
    s2 = s2
    Requests = {r1, r2}
    Submissions = {s1}
    Archives <- NestedArchives
    MaxProblems = 2
    FaultKinds = {"insert", "insert_answer", "upload", "path", "remove", "undo", "delete", "disconnect", "crash"}
    MaxFaults = 0
SPECIFICATION Spec
CHECK_DEADLOCK FALSE
SYMMETRY Interchangeable
INVARIANTS ValidatedIsJudgeable
