CONSTANTS
    q1 = q1
    q2 = q2
    q3 = q3
    q4 = q4
    j1 = j1
    j2 = j2
    Request = {q1, q2, q3, q4}
    Job = {j1}
    NoJob = NoJob
    Outcome = {"refused"}
    MaxAttempts = 2
    Limit = 2
    MaxRows = 1
    MaxRetries = 2
    MaxCrashes = 0
SPECIFICATION Spec
INVARIANT NoneStranded
CHECK_DEADLOCK FALSE
