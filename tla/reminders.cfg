CONSTANTS
    s1 = s1
    s2 = s2
    Sub = {s1, s2}
    Threshold <- ShortThreshold
    Staffed = {"reviewer_pool", "approvers", "admins"}
    MaxDay = 7
    MaxActions <- OneActive
SPECIFICATION Spec
INVARIANTS
    RemindersSpaced
    NobodyForgotten
    EscalatedInTime
