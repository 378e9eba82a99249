CONSTANTS
    ann = ann
    rob = rob
    amy = amy
    pam = pam
    g1 = g1
    f1 = f1
    f2 = f2
    c1 = c1
    User = {ann, rob, amy, pam}
    Group = {g1}
    NoUser = NoUser
    NoGroup = NoGroup
    RoleRow <- AdminRows
    Text = {"blank", "full"}
    CompleteText = {"full"}
    File = {f1, f2}
    MaxFiles = 1
    CommentId = {c1}
    FormInput <- SmallForms
    UploadInput <- BothFiles
    MaxRevision = 2
    MaxCycles = 2
SPECIFICATION Spec
INVARIANTS
    CatalogueIsApproved
    OneOpenCycle
    OneDecisionPerRevision
    DutiesSeparated
    NoNumberLost
CHECK_DEADLOCK FALSE
