SPECIFICATION Spec
CONSTANTS
    ann = ann
    Members = {ann}
    r1 = r1
    r2 = r2
    Requests = {r1, r2}
    CodeTTL = 1
    BlockThreshold = 2
    BlockDuration = 1
    LockThreshold = 3
    LockWindow = 2
    DeliveryLimits <- MCDelivery
    OriginLimits <- MCOrigins
    MaxTime = 1
    MaxCodes = 2
    MaxChanges = 1
SYMMETRY EitherRequest
CHECK_DEADLOCK FALSE
INVARIANTS
    DeactivatedMembersAreOut
    CodesOpenOneSession
    AttemptsAreHeldBack
