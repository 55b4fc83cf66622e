SPECIFICATION Spec
CONSTANTS
    owner = owner
    other = other
    r1 = r1
    r2 = r2
    r3 = r3
    w1 = w1
    w2 = w2
    None = None
    User <- Users
    Caption = {"old", "new"}
    Request = {r1, r2}
    Worker = {w1}
    MaxPhotos = 3
    Calls <- PhotoCalls
    Seeds <- PendingSeed
    SeedFlags <- OneFlag
    ThumbnailMaxRetries = 1
    NotificationMaxRetries = 0
    FaultLimit <- PhotoFaults
    MaxFaults = 1
SYMMETRY Symmetry
INVARIANTS
    TypeInv
    StaleEntryExplained
    OriginalOnDisk
    RemovedOriginalGone
    ServingFailsOnlyOnRemoval
    NoStrandedThumbnail
