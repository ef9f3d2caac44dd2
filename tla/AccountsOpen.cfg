SPECIFICATION Spec
CONSTANTS
    p1 = p1
    p2 = p2
    r1 = r1
    r2 = r2
    ann = ann
    bob = bob
    Processes = {p1, p2}
    Requests = {r1, r2}
    Emails = {ann, bob}
    Secrets = {7}
    IdleTimeout = 2
    AbsoluteTimeout = 3
    SetupTTL = 1
    InvitationTTL = 1
    MaxInvitationResends = 1
    MaxTime = 2
    MaxVersion = 2
    MaxOps = 5
SYMMETRY Alike
CHECK_DEADLOCK FALSE
INVARIANTS
    ProcessesShareOneKey
    InstallationIsWhole
    AccountsComeFromInvitations
    ResetsEndSessions
