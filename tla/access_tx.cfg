CONSTANTS
    ann = ann
    bea = bea
    n1 = n1
    n2 = n2
    r1 = r1
    r2 = r2
    User = {ann, bea}
    Net = {n1, n2}
    Req = {r1, r2}
    Bootstrap = ann
    NetLimit = 3
    AddressLimit = 2
    VerifyLimit = 2
    MaxWindow = 1
    MaxRequests = 4
SPECIFICATION Spec
SYMMETRY Symmetry
CHECK_DEADLOCK FALSE
INVARIANTS
    OneSessionPerNetwork
    OneUsableLinkPerWindow
    BootstrapOnce
    AdminUnlessStale
    SignedOutUnlessLate
