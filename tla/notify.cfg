CONSTANTS
    q1 = q1
    q2 = q2
    q3 = q3
    q4 = q4
    j1 = j1
    j2 = j2
    Request = {q1}
    Job = {j1, j2}
    NoJob = NoJob
    Outcome = {"accepted", "refused", "unclear"}
    MaxAttempts = 2
    Limit = 1
    MaxRows = 2
    MaxRetries = 1
    MaxCrashes = 2
SPECIFICATION Spec
INVARIANTS
    SentWasAccepted
    FailedAfterAllAttempts
    MailedOnce
PROPERTIES
    OnlyRetriesRequeue
    EveryRowSettles
CHECK_DEADLOCK FALSE
