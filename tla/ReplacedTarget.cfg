\* A replacement has claimed its generation and the replaced core dies before it starts.
CONSTANTS
    Members = 2
    MaxAttempts = 1
    Cooldown = 1
    Backoff = 1
    Grants = {}
    Tun = FALSE
    Holds = FALSE
    StandbyProxy = FALSE
    Aggressive = FALSE
    PortChanges = FALSE
    ExternalEdits = FALSE
    Catalogs = {}
    Chosen = {0, 1}
    MaxGenerations = 2
    MaxThreads = 2
SPECIFICATION Spec
INVARIANTS
    ReplacementEndsRetry
