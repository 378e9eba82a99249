CONSTANTS
    boss = boss
    ann = ann
    bob = bob
    User = {boss, ann, bob}
    Bootstrap = boss
    NoUser = NoUser
    TokenTtl = 1
    Sliding = 1
    Remember = 3
    RenewAfter = 0
    MaxTime = 3
    MaxTokens = 3
    MaxSessions = 2
SPECIFICATION Spec
INVARIANT RememberedStays
CHECK_DEADLOCK FALSE
