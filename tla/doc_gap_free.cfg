CONSTANTS
    ann = ann
    rob = rob
    amy = amy
    pam = pam
    g1 = g1
    f1 = f1
    f2 = f2
    c1 = c1
    r1 = r1
    r2 = r2
    User <- PairUsers
    Group = {g1}
    NoUser = NoUser
    NoGroup = NoGroup
    RoleRow <- PairRows
    Text = {"blank", "full"}
    CompleteText = {"full"}
    File = {}
    MaxFiles = 1
    CommentId = {}
    FormInput <- OwnerForms
    UploadInput = {}
    MaxRevision = 1
    MaxCycles = 0
    MaxMinted = 2
    MaxDecisions = 0
    Request = {r1, r2}
SPECIFICATION Spec
INVARIANT GapFree
CHECK_DEADLOCK FALSE
