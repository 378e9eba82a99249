CONSTANTS
    boss = boss
    ann = ann
    bob = bob
    User = {boss, ann, bob}
    Bootstrap = boss
    NoUser = NoUser
    TokenTtl = 1
    Sliding = 2
    Remember = 3
    RenewAfter = 0
    MaxTime = 3
    MaxTokens = 3
    MaxSessions = 2
SPECIFICATION Spec
SYMMETRY Colleagues
INVARIANTS
    OneSessionPerLink
    DisabledIsSignedOut
PROPERTY AnAdminRemains
CHECK_DEADLOCK FALSE
