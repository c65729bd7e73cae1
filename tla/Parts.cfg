\* An activation of four members; two runs and two generations of the watchdog's core.
CONSTANTS
    Members = 4
    MaxAttempts = 2
    Cooldown = 2
    Strikes <- TwoStrikes
    MaxRuns = 2
    MaxClaims = 2
    MaxEpochs = 1
    None = None
    \* The catalog: two subscriptions, three operations of the user, two updates.
    Urls <- Providers
    Local = "local"
    Feed <- Offers
    Drafts <- TypedIn
    Handles <- Chosen
    Unset = Unset
    MaxEdits = 3
    MaxUpdates = 2
    \* The log: books of two records, of which a round brings one.
    BookCapacity = 2
    Limit = 1
    Window = 1
    Own = Own
    NoBook = NoBook
    MaxSeq = 3
    MaxOwn = 1
    MaxTime = 3
    MaxEvents = 1
    \* The diagnostics: generations of two records, two writers, three numbers of files.
    Writers = {w1, w2}
    Inodes = {1, 2, 3}
    FileCapacity = 4
    Limits = {1}
    MaxRecords = 5
    Nothing = Nothing
SPECIFICATION PartsSpec
\* A part stops at its bounds, and an activation when no member is left.
CHECK_DEADLOCK FALSE
INVARIANTS
    EpisodeAccounting
    HandlesAreUnique
    RunningIsListed
    ShownIsOwn
    ViewIsALog
    PagesAreContinuous
PROPERTIES
    ImplementsRecovery
    EditsStand
    HwidIsConsented
    RestartHasEvidence
    OursStay
    AcknowledgedStands
