CONSTANTS
    ann = ann
    rob = rob
    amy = amy
    pam = pam
    g1 = g1
    f1 = f1
    f2 = f2
    c1 = c1
    r1 = r1
    r2 = r2
    User = {ann, rob, amy, pam}
    Group = {g1}
    NoUser = NoUser
    NoGroup = NoGroup
    RoleRow <- StaffRows
    Text = {"blank", "full"}
    CompleteText = {"full"}
    File = {f1, f2}
    MaxFiles = 1
    CommentId = {c1}
    FormInput <- EveryForm
    UploadInput <- BothFiles
    MaxRevision = 3
    MaxCycles = 2
    MaxMinted = 2
    MaxDecisions = 3
    Request = {r1}
SPECIFICATION Spec
INVARIANTS
    ApprovedContentFrozen
    ReviewedIsComplete
PROPERTY ImplementsWorkflow
CHECK_DEADLOCK FALSE
