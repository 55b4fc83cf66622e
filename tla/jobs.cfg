SPECIFICATION FairSpec
CONSTANTS
    owner = owner
    other = other
    r1 = r1
    r2 = r2
    r3 = r3
    w1 = w1
    w2 = w2
    None = None
    User <- OneUser
    Caption = {"old", "new"}
    Request = {r1}
    Worker = {w1, w2}
    MaxPhotos = 1
    Calls <- JobCalls
    Seeds <- PendingSeed
    SeedFlags <- OneFlag
    ThumbnailMaxRetries = 1
    NotificationMaxRetries = 1
    FaultLimit <- JobFaults
    MaxFaults = 2
INVARIANTS
    ReadyThumbOnDisk
    AttemptsWithinBudget
    MailedWithinDeliveries
    NoStrandedNote
    SentNotMailedAgain
PROPERTIES
    ThumbnailsSettle
    NotesSettle
