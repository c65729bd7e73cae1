\* Settings restart the core on other ports while a retry is under way.
CONSTANTS
    Members = 2
    MaxAttempts = 1
    Cooldown = 1
    Backoff = 1
    Grants = {}
    Tun = FALSE
    Holds = FALSE
    StandbyProxy = FALSE
    Aggressive = FALSE
    PortChanges = TRUE
    ExternalEdits = FALSE
    Catalogs = {}
    Chosen = {0}
    MaxGenerations = 2
    MaxThreads = 2
SPECIFICATION Spec
INVARIANTS
    ReconnectingMeansRetrying
