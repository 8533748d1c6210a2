\* Two requests, two problems, a submission, good and bad archives; two failures
\* of any kind.
CONSTANTS
    r1 = r1
    r2 = r2
    s1 = s1
    s2 = s2
    Requests = {r1, r2}
    Submissions = {s1}
    Archives <- FlatArchives
    MaxProblems = 2
    FaultKinds = {"insert", "insert_answer", "upload", "seek", "path", "remove", "undo", "delete", "disconnect", "crash", "mark"}
    MaxFaults = 2
SPECIFICATION Spec
CHECK_DEADLOCK FALSE
SYMMETRY Interchangeable
INVARIANTS TypeOK WholeOrNothing JudgedByOwnCases
