CONSTANTS
    ann = ann
    rob = rob
    amy = amy
    pam = pam
    g1 = g1
    f1 = f1
    f2 = f2
    c1 = c1
    r1 = r1
    r2 = r2
    User <- PairUsers
    Group = {g1}
    NoUser = NoUser
    NoGroup = NoGroup
    RoleRow <- PairRows
    Text = {"blank", "full"}
    CompleteText = {"full"}
    File = {}
    MaxFiles = 1
    CommentId = {}
    FormInput <- OwnerForms
    UploadInput = {}
    MaxRevision = 2
    MaxCycles = 1
    MaxMinted = 2
    MaxDecisions = 2
    Request = {r1, r2}
SPECIFICATION Spec
SYMMETRY RequestSymmetry
INVARIANTS
    NeverUnapproved
    DutiesSeparated
    ReviewerNamed
    UnnumberedWasReopened
PROPERTY NeverUndone
CHECK_DEADLOCK FALSE
