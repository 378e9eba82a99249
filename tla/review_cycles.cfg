CONSTANTS
    s1 = s1
    r1 = r1
    r2 = r2
    Sub = {s1}
    Req = {r1, r2}
    Length = 2
    Notice = 1
    Week = 2
    Patience = 1
    MaxDay = 5
    MaxCycles = 3
SPECIFICATION Spec
SYMMETRY Either
CHECK_DEADLOCK FALSE
INVARIANTS
    PublishedIsTracked
    NoticeFirst
    WeekApart
    ClosedIsQuiet
    NobodyForgotten
    NeglectIsEscalated
