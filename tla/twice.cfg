SPECIFICATION Spec
CONSTANTS
    owner = owner
    other = other
    r1 = r1
    r2 = r2
    r3 = r3
    w1 = w1
    w2 = w2
    None = None
    User <- Users
    Caption = {"old", "new"}
    Request = {r1, r2}
    Worker = {w1}
    MaxPhotos = 1
    Calls <- DecideCalls
    Seeds <- ReadySeed
    SeedFlags <- OneFlag
    ThumbnailMaxRetries = 1
    NotificationMaxRetries = 1
    FaultLimit <- NoFaults
    MaxFaults = 0
SYMMETRY Symmetry
INVARIANTS
    FlagDecidedOnce
